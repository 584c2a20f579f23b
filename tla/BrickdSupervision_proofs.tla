---------------------- MODULE BrickdSupervision_proofs ----------------------
(***************************************************************************)
(* Theorems of BrickdSupervision, for every number of Bricklets and every  *)
(* limit.                                                                  *)
(***************************************************************************)
EXTENDS BrickdSupervision, TLAPS

(***************************************************************************)
(* The inductive invariant: while the program runs, a Bricklet this pass   *)
(* has still to poll is below the limit; no failure is counted that was    *)
(* not one since the last command; and the counter is the number of        *)
(* restarts.                                                               *)
(***************************************************************************)
BelowLimit ==
    turn # Ended => \A i \in Bricklets : turn <= i => readFailures[i] < MaxReadFailures

FailuresAreReal == \A i \in Bricklets : readFailures[i] <= failed[i]

RestartsCounted == restarts = attempts

IInv == TypeOK /\ BelowLimit /\ FailuresAreReal /\ RestartsCounted

LEMMA NoReplies == "not polled" \in LastReplies /\ "unreachable" \in LastReplies
BY DEF LastReplies

LEMMA InitInvariant == Init => IInv
<1> SUFFICES ASSUME Init PROVE IInv
  OBVIOUS
<1>1. reply \in [Bricklets -> LastReplies]
  BY NoReplies DEF Init
<1>2. /\ turn = 1 /\ attempts = 0 /\ command = "none" /\ restarts = 0
      /\ readFailures = [i \in Bricklets |-> 0]
      /\ failed = [i \in Bricklets |-> 0]
  BY Zenon DEF Init
<1>3. TypeOK
  BY <1>1, <1>2, SupervisionAssumption DEF TypeOK
<1>4. BelowLimit /\ FailuresAreReal /\ RestartsCounted
  BY <1>2, SupervisionAssumption DEF BelowLimit, FailuresAreReal, RestartsCounted
<1> QED
  BY <1>3, <1>4 DEF IInv

LEMMA PollStep ==
    ASSUME IInv, NEW i \in Bricklets, NotDue(i) \/ Attempt(i)
    PROVE  IInv'
<1> USE SupervisionAssumption DEF IInv, Ended
<1>1. /\ turn = i
      /\ UNCHANGED <<attempts, command, restarts>>
  BY DEF NotDue, Attempt, PollOk, PollFailed, PollWithoutEffect, PollUnreachable, Replied,
         PollCrashes
<1>2. /\ turn \in 1..N /\ i \in 1..N
      /\ readFailures[i] \in 0..MaxReadFailures /\ readFailures[i] < MaxReadFailures
      /\ failed[i] \in 0..MaxReadFailures
  BY <1>1 DEF TypeOK, BelowLimit, Bricklets
<1>r. ASSUME NEW result, Replied(i, result)
      PROVE  reply' \in [Bricklets -> LastReplies]
  <2>1. PICK r \in RepliesOf(Type[i], Channel[i]) : reply' = [reply EXCEPT ![i] = r]
    BY <1>r DEF Replied
  <2>2. r \in LastReplies
    BY DEF RepliesOf, Replies, LastReplies
  <2> QED
    BY <2>1, <2>2 DEF TypeOK
<1>3. CASE NotDue(i)
  <2>1. turn' = turn + 1 /\ UNCHANGED <<readFailures, reply, failed>>
    BY <1>3 DEF NotDue
  <2>2. BelowLimit'
    BY <1>1, <1>2, <2>1 DEF BelowLimit, Bricklets
  <2>3. TypeOK' /\ FailuresAreReal' /\ RestartsCounted'
    BY <1>1, <1>2, <2>1 DEF TypeOK, FailuresAreReal, RestartsCounted
  <2> QED
    BY <2>2, <2>3
<1>4. CASE PollOk(i)
  <2>1. /\ turn' = turn + 1
        /\ readFailures' = [readFailures EXCEPT ![i] = 0]
        /\ failed' = [failed EXCEPT ![i] = 0]
        /\ reply' \in [Bricklets -> LastReplies]
    BY <1>4, <1>r DEF PollOk
  <2>2. BelowLimit'
    BY <1>1, <1>2, <2>1 DEF TypeOK, BelowLimit, Bricklets
  <2>3. TypeOK'
    <3>1. /\ readFailures' \in [Bricklets -> 0..MaxReadFailures]
          /\ failed' \in [Bricklets -> 0..MaxReadFailures]
      BY <2>1 DEF TypeOK
    <3> QED
      BY <1>1, <1>2, <2>1, <3>1 DEF TypeOK
  <2>4. FailuresAreReal' /\ RestartsCounted'
    BY <1>1, <1>2, <2>1 DEF TypeOK, FailuresAreReal, RestartsCounted
  <2> QED
    BY <2>2, <2>3, <2>4
<1>5. CASE PollFailed(i)
  <2> DEFINE more == Upto(failed[i] + 1, MaxReadFailures)
  <2>1. /\ turn' = turn + 1
        /\ readFailures' = [readFailures EXCEPT ![i] = readFailures[i] + 1]
        /\ failed' = [failed EXCEPT ![i] = more]
        /\ reply' \in [Bricklets -> LastReplies]
    BY <1>5, <1>r DEF PollFailed
  <2>2. more \in 0..MaxReadFailures /\ readFailures[i] + 1 <= more
    BY <1>2 DEF Upto, FailuresAreReal
  <2> HIDE DEF more
  <2> QED
    BY <1>1, <1>2, <2>1, <2>2
       DEF TypeOK, BelowLimit, FailuresAreReal, RestartsCounted, Bricklets
<1>6. CASE PollUnreachable(i)
  <2>1. /\ turn' = turn + 1
        /\ UNCHANGED <<readFailures, failed>>
        /\ reply' \in [Bricklets -> LastReplies]
    BY <1>6, NoReplies DEF PollUnreachable, TypeOK
  <2> QED
    BY <1>1, <1>2, <2>1
       DEF TypeOK, BelowLimit, FailuresAreReal, RestartsCounted, Bricklets
<1>7. CASE PollWithoutEffect(i)
  <2>1. /\ turn' = turn + 1
        /\ UNCHANGED <<readFailures, failed>>
        /\ reply' \in [Bricklets -> LastReplies]
    BY <1>7, <1>r DEF PollWithoutEffect
  <2> QED
    BY <1>1, <1>2, <2>1
       DEF TypeOK, BelowLimit, FailuresAreReal, RestartsCounted, Bricklets
<1>8. CASE PollCrashes(i)
  <2>1. /\ turn' = Ended
        /\ UNCHANGED <<readFailures, failed>>
        /\ reply' \in [Bricklets -> LastReplies]
    BY <1>8, <1>r DEF PollCrashes
  <2> QED
    BY <1>1, <1>2, <2>1 DEF TypeOK, BelowLimit, FailuresAreReal, RestartsCounted, Bricklets
<1> QED
  BY <1>3, <1>4, <1>5, <1>6, <1>7, <1>8 DEF Attempt

LEMMA EndOfPassStep == IInv /\ EndOfPass => IInv'
<1> SUFFICES ASSUME IInv, EndOfPass PROVE IInv'
  OBVIOUS
<1> USE SupervisionAssumption DEF IInv
<1>1. CASE AllWell
  <2>1. \A i \in Bricklets : readFailures[i] < MaxReadFailures
    BY <1>1 DEF AllWell, FailedTooMuch, TypeOK
  <2> QED
    BY <1>1, <2>1 DEF AllWell, TypeOK, BelowLimit, FailuresAreReal, RestartsCounted
<1>2. ASSUME ResetAllReadFailures, NEW what \in {"none", "restart", "reboot"}, Execute(what)
      PROVE  /\ readFailures' \in [Bricklets -> 0..MaxReadFailures]
             /\ failed' \in [Bricklets -> 0..MaxReadFailures]
             /\ command' \in {"none", "restart", "reboot"}
             /\ FailuresAreReal' /\ BelowLimit'
  BY <1>2 DEF ResetAllReadFailures, Execute, TypeOK, FailuresAreReal, BelowLimit
<1>3. CASE Reboot
  <2>1. /\ ResetAllReadFailures /\ attempts' = 0 /\ restarts' = 0
        /\ turn' = 1 /\ reply' = reply
        /\ Execute(IF SystemCommand THEN "reboot" ELSE "none")
    BY <1>3 DEF Reboot
  <2> QED
    BY <1>2, <2>1 DEF TypeOK, RestartsCounted
<1>4. CASE Restart
  <2>1. /\ ResetAllReadFailures /\ turn' = 1 /\ reply' = reply
        /\ attempts < MaxRestartAttempts
    BY <1>4 DEF Restart
  <2>2. CASE RestartCommand
    <3>1. /\ Execute("restart") /\ attempts' = attempts + 1
          /\ restarts' = Upto(restarts + 1, MaxRestartAttempts + 1)
      BY <1>4, <2>2 DEF Restart
    <3>2. attempts' \in 0..MaxRestartAttempts /\ restarts' = attempts'
      BY <2>1, <3>1 DEF TypeOK, RestartsCounted, Upto
    <3>3. restarts' \in 0..(MaxRestartAttempts + 1)
      BY <3>2
    <3> QED
      BY <1>2, <2>1, <3>1, <3>2, <3>3 DEF TypeOK, RestartsCounted
  <2>3. CASE ~RestartCommand
    <3>1. Execute("none") /\ UNCHANGED <<attempts, restarts>>
      BY <1>4, <2>3 DEF Restart
    <3> QED
      BY <1>2, <2>1, <3>1 DEF TypeOK, RestartsCounted
  <2> QED
    BY <2>2, <2>3
<1> QED
  BY <1>1, <1>3, <1>4 DEF EndOfPass

THEOREM Invariance == Spec => []IInv
<1>1. IInv /\ [Next]_vars => IInv'
  <2>1. IInv /\ Next => IInv'
    BY PollStep, EndOfPassStep DEF Next
  <2>2. IInv /\ UNCHANGED vars => IInv'
    BY DEF vars, IInv, TypeOK, BelowLimit, FailuresAreReal, RestartsCounted
  <2> QED
    BY <2>1, <2>2
<1> QED
  BY InitInvariant, <1>1, PTL DEF Spec

(***************************************************************************)
(* Every variable keeps its type: no Bricklet is ever more often counted   *)
(* as failed than the limit, nor a restart beyond the last one allowed.    *)
(***************************************************************************)
THEOREM TypeCorrect == Spec => []TypeOK
BY Invariance, PTL DEF IInv

(***************************************************************************)
(* trigger() executes no command on account of failures from before the    *)
(* last command or from before the Bricklet's last reading.                *)
(***************************************************************************)
THEOREM OnlyJustifiedCommands == Spec => CommandsAreJustified
<1> DEFINE Justified == command' # "none" /\ turn = N + 1 =>
                            \E i \in Bricklets : failed[i] >= MaxReadFailures
<1>1. IInv /\ [Next]_vars => [Justified]_vars
  <2> SUFFICES ASSUME IInv, Next, command' # "none", turn = N + 1
               PROVE  \E i \in Bricklets : failed[i] >= MaxReadFailures
    OBVIOUS
  <2> USE SupervisionAssumption DEF IInv
  <2>1. \A i \in Bricklets : ~NotDue(i) /\ ~Attempt(i)
    BY DEF NotDue, Attempt, PollOk, PollFailed, PollWithoutEffect, PollCrashes,
           PollUnreachable, Replied, Bricklets
  <2>2. Reboot \/ Restart
    BY <2>1 DEF Next, EndOfPass, AllWell
  <2>3. PICK i \in Bricklets : readFailures[i] >= MaxReadFailures
    BY <2>2 DEF Reboot, Restart, FailedTooMuch
  <2> QED
    BY <2>3 DEF FailuresAreReal, TypeOK
<1> QED
  BY Invariance, <1>1, PTL DEF Spec, CommandsAreJustified

(***************************************************************************)
(* The system is rebooted after the allowed number of restarts and not     *)
(* before, and no further restart is tried instead.                        *)
(***************************************************************************)
THEOREM RebootsFollowRestarts == Spec => RebootAfterRestarts
<1> DEFINE InOrder == turn = N + 1 =>
                          /\ command' = "reboot"  => restarts = MaxRestartAttempts
                          /\ command' = "restart" => restarts < MaxRestartAttempts
<1>1. IInv /\ [Next]_vars => [InOrder]_vars
  <2> SUFFICES ASSUME IInv, Next, turn = N + 1
               PROVE  /\ command' = "reboot"  => restarts = MaxRestartAttempts
                      /\ command' = "restart" => restarts < MaxRestartAttempts
    OBVIOUS
  <2> USE SupervisionAssumption DEF IInv
  <2>1. \A i \in Bricklets : ~NotDue(i) /\ ~Attempt(i)
    BY DEF NotDue, Attempt, PollOk, PollFailed, PollWithoutEffect, PollCrashes,
           PollUnreachable, Replied, Bricklets
  <2>2. CASE Reboot
    BY <2>2 DEF Reboot, Execute, TypeOK, RestartsCounted
  <2>3. CASE Restart
    BY <2>3 DEF Restart, Execute, TypeOK, RestartsCounted
  <2>4. CASE AllWell
    BY <2>4 DEF AllWell
  <2> QED
    BY <2>1, <2>2, <2>3, <2>4 DEF Next, EndOfPass
<1> QED
  BY Invariance, <1>1, PTL DEF Spec, RebootAfterRestarts
=============================================================================
