------------------------- MODULE BrickdSupervision -------------------------
(***************************************************************************)
(* What logger::trigger() does about Bricklets that cannot be read: count  *)
(* the failed polls of every Tinkerforge sensor, restart the Brick Daemon  *)
(* when one has failed too often, reboot the system when that has not      *)
(* helped.                                                                 *)
(*                                                                         *)
(* The polls are those of module Acquisition without their times: in each  *)
(* pass a Bricklet is due or not.  What its replies are counted as is the  *)
(* subject of BrickletPoll.  The Brick Daemon, the Bricklets' replies, the *)
(* commands and what they achieve belong to the environment.               *)
(***************************************************************************)
EXTENDS BrickletPoll

CONSTANTS
    N,                  \* number of Bricklets that are polled periodically
    Type,               \* Type[i]: type of Bricklet i, of BrickletPoll,
                        \* "unknown" if the Brick Daemon never names it
    Channel,            \* Channel[i]: its configured channel
    MaxReadFailures,    \* _max_tinkerforge_read_failures
    MaxRestartAttempts, \* _max_brickd_restart_attempts
    RestartCommand,     \* is _cmd_readFailures configured?
    SystemCommand       \* is _cmd_readFailures_critical configured?

ASSUME SupervisionAssumption ==
    /\ N \in Nat \ {0}
    /\ MaxReadFailures \in Nat \ {0}
    /\ MaxRestartAttempts \in Nat
    /\ RestartCommand \in BOOLEAN
    /\ SystemCommand \in BOOLEAN

Bricklets == 1..N

VARIABLES
    turn,          \* the Bricklet this pass is at, N + 1 at its end,
                   \* 0 when the program has ended
    readFailures,  \* _nReadFailures of each Bricklet
    attempts,      \* _brickd_restart_attempt_counter
    command,       \* the command the last pass executed
    reply,         \* history: what each Bricklet replied to its last poll
    failed,        \* history: polls that failed since one succeeded or a
                   \* command was executed, up to MaxReadFailures
    restarts       \* history: restarts since the last reboot or the limit

vars == <<turn, readFailures, attempts, command, reply, failed, restarts>>

LastReplies == Replies \cup {"not polled", "unreachable"}

TypeOK ==
    /\ turn \in 0..(N + 1)
    /\ readFailures \in [Bricklets -> 0..MaxReadFailures]
    /\ attempts \in 0..MaxRestartAttempts
    /\ command \in {"none", "restart", "reboot"}
    /\ reply \in [Bricklets -> LastReplies]
    /\ failed \in [Bricklets -> 0..MaxReadFailures]
    /\ restarts \in 0..(MaxRestartAttempts + 1)

Init ==
    /\ turn = 1
    /\ readFailures = [i \in Bricklets |-> 0]
    /\ attempts = 0
    /\ command = "none"
    /\ reply = [i \in Bricklets |-> "not polled"]
    /\ failed = [i \in Bricklets |-> 0]
    /\ restarts = 0

Ended == 0

Upto(n, limit) == IF n > limit THEN limit ELSE n
-----------------------------------------------------------------------------
(***************************************************************************)
(* The polls of one pass.                                                  *)
(***************************************************************************)
NotDue(i) ==
    /\ turn = i
    /\ turn' = turn + 1
    /\ UNCHANGED <<readFailures, attempts, command, reply, failed, restarts>>

(* The poll of Bricklet i gets a reply of which poll() makes this result.  *)
Replied(i, result) ==
    /\ turn = i
    /\ \E r \in RepliesOf(Type[i], Channel[i]) :
          /\ Poll(Type[i], Channel[i], r) = result
          /\ reply' = [reply EXCEPT ![i] = r]
    /\ UNCHANGED <<attempts, command, restarts>>

PollOk(i) ==
    /\ Replied(i, Measured)
    /\ turn' = turn + 1
    /\ readFailures' = [readFailures EXCEPT ![i] = 0]
    /\ failed' = [failed EXCEPT ![i] = 0]

PollFailed(i) ==
    /\ Replied(i, Failed)
    /\ turn' = turn + 1
    /\ readFailures' = [readFailures EXCEPT ![i] = @ + 1]
    /\ failed' = [failed EXCEPT ![i] = Upto(@ + 1, MaxReadFailures)]

(* Nothing is measured and nothing counted.                                *)
PollWithoutEffect(i) ==
    /\ Replied(i, Silent) \/ Replied(i, Uncounted)
    /\ turn' = turn + 1
    /\ UNCHANGED <<readFailures, failed>>

(* The program writes through a null pointer; nothing starts it again.     *)
PollCrashes(i) ==
    /\ Replied(i, Crashed)
    /\ turn' = Ended
    /\ UNCHANGED <<readFailures, failed>>

(* There is no connection to the Brick Daemon: reconnect() returns FALSE.  *)
PollUnreachable(i) ==
    /\ turn = i
    /\ reply' = [reply EXCEPT ![i] = "unreachable"]
    /\ turn' = turn + 1
    /\ UNCHANGED <<readFailures, attempts, command, failed, restarts>>

Attempt(i) == \/ PollOk(i) \/ PollFailed(i) \/ PollWithoutEffect(i)
              \/ PollCrashes(i) \/ PollUnreachable(i)

-----------------------------------------------------------------------------
(***************************************************************************)
(* The end of the pass.                                                    *)
(***************************************************************************)
(* Mutant: one failure more is allowed.                                    *)
FailedMore == {i \in Bricklets : readFailures[i] > MaxReadFailures}

FailedTooMuch == {i \in Bricklets : readFailures[i] >= MaxReadFailures}

AllWell ==
    /\ turn = N + 1
    /\ FailedTooMuch = {}
    /\ command' = "none"
    /\ turn' = 1
    /\ UNCHANGED <<readFailures, attempts, reply, failed, restarts>>

(* Mutant: only the Bricklets that have failed too often are reset.        *)
ResetFailedOnly ==
    readFailures' = [i \in Bricklets |-> IF i \in FailedTooMuch THEN 0 ELSE readFailures[i]]

(* All read failures are forgotten, whatever is done about them.           *)
ResetAllReadFailures == readFailures' = [i \in Bricklets |-> 0]

Execute(what) ==
    /\ command' = what
    /\ failed' = IF what = "none" THEN failed ELSE [i \in Bricklets |-> 0]

(* Mutant: the attempts are not reset.                                     *)
RebootAgain ==
    /\ turn = N + 1
    /\ FailedTooMuch # {}
    /\ attempts >= MaxRestartAttempts
    /\ ResetAllReadFailures
    /\ Execute(IF SystemCommand THEN "reboot" ELSE "none")
    /\ restarts' = 0
    /\ turn' = 1
    /\ UNCHANGED <<attempts, reply>>

(* The last resort; the attempts start again with or without a command.    *)
Reboot ==
    /\ turn = N + 1
    /\ FailedTooMuch # {}
    /\ attempts >= MaxRestartAttempts
    /\ ResetAllReadFailures
    /\ attempts' = 0
    /\ Execute(IF SystemCommand THEN "reboot" ELSE "none")
    /\ restarts' = 0
    /\ turn' = 1
    /\ UNCHANGED reply

Restart ==
    /\ turn = N + 1
    /\ FailedTooMuch # {}
    /\ attempts < MaxRestartAttempts
    /\ ResetAllReadFailures
    /\ IF RestartCommand
       THEN /\ Execute("restart")
            /\ attempts' = attempts + 1
            /\ restarts' = Upto(restarts + 1, MaxRestartAttempts + 1)
       ELSE Execute("none") /\ UNCHANGED <<attempts, restarts>>
    /\ turn' = 1
    /\ UNCHANGED reply

EndOfPass == AllWell \/ Reboot \/ Restart

Next ==
    \/ \E i \in Bricklets : NotDue(i) \/ Attempt(i)
    \/ EndOfPass

(***************************************************************************)
(* main() calls trigger() for ever, so that no step of the pass waits, and *)
(* a Bricklet is due again and again: its gate opens after its rest        *)
(* period, whatever the last poll did.                                     *)
(***************************************************************************)
Fairness ==
    /\ WF_vars(Next)
    /\ \A i \in Bricklets : SF_vars(Attempt(i))

Spec == Init /\ [][Next]_vars /\ Fairness
-----------------------------------------------------------------------------
(***************************************************************************)
(* Properties.                                                             *)
(***************************************************************************)

(* A command is executed only when some Bricklet has failed as often as    *)
(* allowed since it was last read and since the last command: no command   *)
(* is executed on account of failures that an earlier one has answered.    *)
CommandsAreJustified ==
    [][command' # "none" /\ turn = N + 1 =>
          \E i \in Bricklets : failed[i] >= MaxReadFailures]_vars

(* The system is rebooted when, and only when, the allowed number of       *)
(* restarts has been tried since the last time.                            *)
RebootAfterRestarts ==
    [][turn = N + 1 =>
          /\ command' = "reboot"  => restarts = MaxRestartAttempts
          /\ command' = "restart" => restarts < MaxRestartAttempts]_vars

(* When a Bricklet is never read again although the Brick Daemon can be    *)
(* reached, the system is rebooted, again and again, whatever the other    *)
(* Bricklets reply: their failures only help, since every command forgets  *)
(* all failures but counts as an attempt.  Not noticed are a Bricklet that *)
(* the Brick Daemon has never named, a type without support, a PTC 2.0     *)
(* without its probe, and channels that a Bricklet does not have.  No      *)
(* reading must have ended the program.                                    *)
Noticed(i) == IsAsked(Type[i], Channel[i]) /\ Type[i] # "PTC_V2"
Unread(i)  == turn # Ended /\ reply[i] \in {"first", "none", "no probe"}

PersistentFailureEscalates ==
    \A i \in Bricklets : Noticed(i) /\ <>[]Unread(i) => []<>(command = "reboot")
=============================================================================
