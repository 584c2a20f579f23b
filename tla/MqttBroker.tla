----------------------------- MODULE MqttBroker -----------------------------
(***************************************************************************)
(* The connections to the MQTT brokers: class mqttBroker, the loop of      *)
(* mqttManager over its brokers, and the subscriptions of sensorMQTT.      *)
(*                                                                         *)
(* Each broker has a client of the Paho library, which runs callbacks on   *)
(* two threads of its own.  connected() comes on the receiving thread,     *)
(* on_failure() and connection_lost() on the sending one; publish() may be *)
(* called from any thread.  The library and the broker at the other end    *)
(* are external: the model has what the program relies on.                 *)
(***************************************************************************)
EXTENDS Naturals, SequencesExt

CONSTANTS
    Brokers,          \* the configured brokers
    N,                \* number of MQTT sensors
    SubscribeTopic,   \* SubscribeTopic[i]: the topic of sensor i, a sequence
    TopicDomain,      \* TopicDomain[b]: a prefix, empty for all topics
    PublishTopics,    \* topics under which the program publishes values
    PublishEnabled,   \* brokers with _publish_enabled
    SubscribeEnabled  \* brokers with _subscribe_enabled

Sensors == 1..N

ASSUME MqttAssumption ==
    /\ N \in Nat
    /\ PublishEnabled \subseteq Brokers
    /\ SubscribeEnabled \subseteq Brokers

VARIABLES
    alive,        \* no exception has left a thread of the program
    reachable,    \* reachable[b]: the network and the broker work
    link,         \* link[b]: the client's view of its connection
    isConnected,  \* isConnected[b]: _isConnected
    receiver,     \* receiver[b]: what the receiving thread is doing
    at,           \* at[b]: the sensor the loop of connected() is at
    sender,       \* sender[b]: what the sending thread is doing
    clientID,     \* clientID[b]: _clientID, 0 before it is generated
    sessions,     \* sessions[b]: client IDs the broker believes connected
    subscribed,   \* subscribed[b]: topics granted to the latest session
    refused,      \* refused[b]: topics the broker did not grant to it
    status,       \* status[b]: the last message on the status topic
    gaveUp        \* gaveUp[b]: connect() of the client has thrown

clientVars == <<link, receiver, at, sender, isConnected>>
brokerVars == <<clientID, sessions, subscribed, refused, status>>
vars       == <<alive, reachable, clientVars, brokerVars, gaveUp>>

(* A topic belongs to a broker when it starts with the broker's domain.    *)
IsValidTopic(b, t) == IsPrefix(TopicDomain[b], t)

(* The broker has the session of the client.  While the client believes    *)
(* its connection is up, without this it is half-open.                     *)
IsOpen(b) == clientID[b] \in sessions[b]

Topics    == {SubscribeTopic[i] : i \in Sensors}
Wanted(b) == IF b \in SubscribeEnabled THEN {t \in Topics : IsValidTopic(b, t)} ELSE {}

Links     == {"unused", "connecting", "up", "down"}
Receivers == {"idle", "called", "announcing", "subscribing"}
Senders   == {"idle", "lost", "sleeping"}

TypeOK ==
    /\ alive \in BOOLEAN
    /\ reachable \in [Brokers -> BOOLEAN]
    /\ link \in [Brokers -> Links]
    /\ isConnected \in [Brokers -> BOOLEAN]
    /\ receiver \in [Brokers -> Receivers]
    /\ at \in [Brokers -> 1..(N + 1)]
    /\ sender \in [Brokers -> Senders]
    /\ clientID \in [Brokers -> Nat]
    /\ sessions \in [Brokers -> SUBSET Nat]
    /\ subscribed \in [Brokers -> SUBSET Topics]
    /\ refused \in [Brokers -> SUBSET Topics]
    /\ status \in [Brokers -> {"online", "offline"}]
    /\ gaveUp \in [Brokers -> BOOLEAN]

Init ==
    /\ alive = TRUE
    /\ reachable \in [Brokers -> BOOLEAN]
    /\ link = [b \in Brokers |-> "unused"]
    /\ isConnected = [b \in Brokers |-> FALSE]
    /\ receiver = [b \in Brokers |-> "idle"]
    /\ at = [b \in Brokers |-> 1]
    /\ sender = [b \in Brokers |-> "idle"]
    /\ clientID = [b \in Brokers |-> 0]
    /\ sessions = [b \in Brokers |-> {}]
    /\ subscribed = [b \in Brokers |-> {}]
    /\ refused = [b \in Brokers |-> {}]
    /\ status = [b \in Brokers |-> "offline"]
    /\ gaveUp = [b \in Brokers |-> FALSE]

-----------------------------------------------------------------------------
(***************************************************************************)
(* The program.                                                            *)
(***************************************************************************)

(* connect() of the client starts an attempt, or throws; the program       *)
(* catches that, logs it and never tries again.                            *)
Connect(b) ==
    \/ link' = [link EXCEPT ![b] = "connecting"] /\ UNCHANGED gaveUp
    \/ link' = [link EXCEPT ![b] = "down"] /\ gaveUp' = [gaveUp EXCEPT ![b] = TRUE]

(* Main thread, once: a client ID, a client, the first attempt.            *)
ConnectToMQTTBroker(b) ==
    /\ alive
    /\ link[b] = "unused"
    /\ clientID' = [clientID EXCEPT ![b] = 1]
    /\ Connect(b)
    /\ UNCHANGED <<alive, reachable, receiver, at, sender, isConnected,
                   sessions, subscribed, refused, status>>

(* mqtt::exception is no int: it leaves the thread and ends the program.   *)
Terminate ==
    /\ alive' = FALSE
    /\ UNCHANGED <<reachable, clientVars, brokerVars, gaveUp>>

(* Receiving thread: connected() takes note of the connection.             *)
Connected(b) ==
    /\ alive
    /\ receiver[b] = "called"
    /\ isConnected' = [isConnected EXCEPT ![b] = TRUE]
    /\ receiver' = [receiver EXCEPT ![b] = "announcing"]
    /\ UNCHANGED <<alive, reachable, link, at, sender, brokerVars, gaveUp>>

(* connected() publishes the status message: publish() of this class tests *)
(* _isConnected, publish() of the client the connection.  On a half-open   *)
(* connection the message gets lost.                                       *)
Announce(b) ==
    /\ alive
    /\ receiver[b] = "announcing"
    /\ IF isConnected[b] /\ link[b] # "up"
       THEN Terminate
       ELSE /\ status' = IF isConnected[b] /\ IsOpen(b)
                         THEN [status EXCEPT ![b] = "online"] ELSE status
            /\ receiver' = [receiver EXCEPT ![b] = "subscribing"]
            /\ at' = [at EXCEPT ![b] = 1]
            /\ UNCHANGED <<alive, reachable, link, sender, isConnected, clientID,
                           sessions, subscribed, refused, gaveUp>>

(* The loop of connected() over the sensors: the topic is subscribed and   *)
(* granted, or refused, which sensorMQTT::on_failure() only logs.  On a    *)
(* half-open connection it is neither, and the loop does not wait for it.  *)
Subscribe(b) ==
    /\ alive
    /\ receiver[b] = "subscribing"
    /\ at[b] <= N
    /\ LET t == SubscribeTopic[at[b]]
       IN  CASE t \in Wanted(b) /\ link[b] # "up" -> Terminate
             [] t \in Wanted(b) /\ link[b] = "up" ->
                   /\ \/ /\ IsOpen(b)
                         /\ subscribed' = [subscribed EXCEPT ![b] = @ \cup {t}]
                         /\ UNCHANGED refused
                      \/ /\ IsOpen(b)
                         /\ refused' = [refused EXCEPT ![b] = @ \cup {t}]
                         /\ UNCHANGED subscribed
                      \/ ~IsOpen(b) /\ UNCHANGED <<subscribed, refused>>
                   /\ at' = [at EXCEPT ![b] = @ + 1]
                   /\ UNCHANGED <<alive, reachable, link, receiver, sender, isConnected,
                                  clientID, sessions, status, gaveUp>>
             [] t \notin Wanted(b) ->
                   /\ at' = [at EXCEPT ![b] = @ + 1]
                   /\ UNCHANGED <<alive, reachable, link, receiver, sender, isConnected,
                                  brokerVars, gaveUp>>

(* Mutant: the loop stops before the last sensor.                          *)
SubscribeEndEarly(b) ==
    /\ alive
    /\ receiver[b] = "subscribing"
    /\ at[b] >= N
    /\ receiver' = [receiver EXCEPT ![b] = "idle"]
    /\ at' = [at EXCEPT ![b] = 1]
    /\ UNCHANGED <<alive, reachable, link, sender, isConnected, brokerVars, gaveUp>>

(* Mutant: the index of the loop is never reset.                           *)
SubscribeEndBeyond(b) ==
    /\ alive
    /\ receiver[b] = "subscribing"
    /\ at[b] = N + 1
    /\ receiver' = [receiver EXCEPT ![b] = "idle"]
    /\ at' = [at EXCEPT ![b] = @ + 1]
    /\ UNCHANGED <<alive, reachable, link, sender, isConnected, brokerVars, gaveUp>>

SubscribeEnd(b) ==
    /\ alive
    /\ receiver[b] = "subscribing"
    /\ at[b] = N + 1
    /\ receiver' = [receiver EXCEPT ![b] = "idle"]
    /\ at' = [at EXCEPT ![b] = 1]
    /\ UNCHANGED <<alive, reachable, link, sender, isConnected, brokerVars, gaveUp>>

(* Mutant: connection_lost() leaves the reconnection to on_failure().      *)
ConnectionLostIdle(b) ==
    /\ alive
    /\ sender[b] = "lost"
    /\ isConnected' = [isConnected EXCEPT ![b] = FALSE]
    /\ sender' = [sender EXCEPT ![b] = "idle"]
    /\ UNCHANGED <<alive, reachable, link, receiver, at, brokerVars, gaveUp>>

(* Sending thread: connection_lost() takes note and calls reconnect(),     *)
(* which sleeps for 2.5 seconds.                                           *)
ConnectionLost(b) ==
    /\ alive
    /\ sender[b] = "lost"
    /\ isConnected' = [isConnected EXCEPT ![b] = FALSE]
    /\ sender' = [sender EXCEPT ![b] = "sleeping"]
    /\ UNCHANGED <<alive, reachable, link, receiver, at, brokerVars, gaveUp>>

(* Mutant: every attempt has a client ID of its own.                       *)
ReconnectAsAnother(b) ==
    /\ alive
    /\ sender[b] = "sleeping"
    /\ sender' = [sender EXCEPT ![b] = "idle"]
    /\ clientID' = [clientID EXCEPT ![b] = 3 - @]
    /\ Connect(b)
    /\ UNCHANGED <<alive, reachable, receiver, at, isConnected,
                   sessions, subscribed, refused, status>>

(* reconnect() has slept and calls connect().                              *)
Reconnect(b) ==
    /\ alive
    /\ sender[b] = "sleeping"
    /\ sender' = [sender EXCEPT ![b] = "idle"]
    /\ Connect(b)
    /\ UNCHANGED <<alive, reachable, receiver, at, isConnected, brokerVars>>

(* mqttManager::publish(), on whichever thread has a value: every broker   *)
(* that counts as connected gets it, and the first one that is not throws. *)
Publish(t) ==
    /\ alive
    /\ \E b \in PublishEnabled :
          isConnected[b] /\ IsValidTopic(b, t) /\ link[b] # "up"
    /\ Terminate

-----------------------------------------------------------------------------
(***************************************************************************)
(* The client library and the brokers.                                     *)
(***************************************************************************)

NetworkChange(b) ==
    /\ reachable' = [reachable EXCEPT ![b] = ~@]
    /\ UNCHANGED <<alive, clientVars, brokerVars, gaveUp>>

(* The broker accepts.  The sessions are clean ones.  A session that is    *)
(* still open under the same client ID is closed first, with its will.     *)
Accept(b) ==
    /\ alive
    /\ link[b] = "connecting"
    /\ reachable[b]
    /\ receiver[b] = "idle"
    /\ link' = [link EXCEPT ![b] = "up"]
    /\ receiver' = [receiver EXCEPT ![b] = "called"]
    /\ sessions' = [sessions EXCEPT ![b] = @ \cup {clientID[b]}]
    /\ status' = IF IsOpen(b) THEN [status EXCEPT ![b] = "offline"] ELSE status
    /\ subscribed' = [subscribed EXCEPT ![b] = {}]
    /\ refused' = [refused EXCEPT ![b] = {}]
    /\ UNCHANGED <<alive, reachable, at, sender, isConnected, clientID, gaveUp>>

(* Mutant: on_failure() only logs.                                         *)
OnFailureLogged(b) ==
    /\ alive
    /\ link[b] = "connecting"
    /\ ~reachable[b]
    /\ link' = [link EXCEPT ![b] = "down"]
    /\ UNCHANGED <<alive, reachable, receiver, at, sender, isConnected, brokerVars, gaveUp>>

(* The attempt fails; on_failure() calls reconnect(), which sleeps.        *)
OnFailure(b) ==
    /\ alive
    /\ link[b] = "connecting"
    /\ ~reachable[b]
    /\ link' = [link EXCEPT ![b] = "down"]
    /\ sender' = [sender EXCEPT ![b] = "sleeping"]
    /\ UNCHANGED <<alive, reachable, receiver, at, isConnected, brokerVars, gaveUp>>

(* The client notices that its connection is gone, because the network is, *)
(* or because the broker knows nothing of it; the callback follows.        *)
LinkBreaks(b) ==
    /\ alive
    /\ link[b] = "up"
    /\ ~reachable[b] \/ ~IsOpen(b)
    /\ link' = [link EXCEPT ![b] = "down"]
    /\ sender' = [sender EXCEPT ![b] = "lost"]
    /\ UNCHANGED <<alive, reachable, receiver, at, isConnected, brokerVars, gaveUp>>

(* The broker notices it on its own time, by the keep-alive interval, and  *)
(* publishes the session's will.  It may do so while the client still      *)
(* believes that it is connected: the connection is half-open then.        *)
Expire(b, id) ==
    /\ id \in sessions[b]
    /\ ~(alive /\ link[b] = "up" /\ id = clientID[b] /\ reachable[b])
    /\ sessions' = [sessions EXCEPT ![b] = @ \ {id}]
    /\ status' = [status EXCEPT ![b] = "offline"]
    /\ UNCHANGED <<alive, reachable, clientVars, clientID, subscribed, refused, gaveUp>>

ReceiverStep(b) == Connected(b) \/ Announce(b) \/ Subscribe(b) \/ SubscribeEnd(b)
SenderStep(b)   == ConnectionLost(b) \/ Reconnect(b)
ClientStep(b)   == Accept(b) \/ OnFailure(b) \/ LinkBreaks(b)

Next ==
    \/ \E b \in Brokers : \/ ConnectToMQTTBroker(b)
                          \/ ReceiverStep(b)
                          \/ SenderStep(b)
                          \/ ClientStep(b)
                          \/ NetworkChange(b)
                          \/ \E id \in sessions[b] : Expire(b, id)
    \/ \E t \in PublishTopics : Publish(t)

(* Threads go on running, and the client resolves its attempts.            *)
Fairness ==
    \A b \in Brokers : /\ WF_vars(ConnectToMQTTBroker(b))
                       /\ WF_vars(ReceiverStep(b))
                       /\ WF_vars(SenderStep(b))
                       /\ WF_vars(ClientStep(b))

Spec == Init /\ [][Next]_vars /\ Fairness
-----------------------------------------------------------------------------
(***************************************************************************)
(* Properties.                                                             *)
(***************************************************************************)

(* A connection that is down is always somebody's task: an attempt under   *)
(* way, a callback to come, a thread that sleeps before the next attempt.  *)
(* reconnect() ends without a new attempt only when connect() has thrown.  *)
NobodyGivesUp ==
    \A b \in Brokers :
        alive /\ link[b] = "down" /\ ~gaveUp[b] => sender[b] # "idle"

(* When connected() has returned, the session has every subscription of    *)
(* the broker's domain that the broker grants, also after a reconnection,  *)
(* where the clean session has forgotten them, unless the broker has just  *)
(* dropped the session; and publishing is open again: a late               *)
(* connection_lost() does not close it.                                    *)
SessionComplete ==
    \A b \in Brokers :
        alive /\ link[b] = "up" /\ receiver[b] = "idle" =>
            /\ isConnected[b]
            /\ IsOpen(b) => subscribed[b] \cup refused[b] = Wanted(b)

(* The status topic tells the truth about a program that has a session:    *)
(* the will of an older session never comes after the "online" of the      *)
(* present one, because both have the same client ID.                      *)
StatusTruthful ==
    \A b \in Brokers :
        alive /\ link[b] = "up" /\ IsOpen(b) /\ receiver[b] \in {"subscribing", "idle"} =>
            status[b] = "online"

(* When a broker stays reachable, the program gets a complete session with *)
(* it for good, unless it has ended or a connect() has thrown.             *)
Recovers ==
    \A b \in Brokers :
        <>[]reachable[b] =>
            <>[](\/ ~alive
                 \/ gaveUp[b]
                 \/ /\ isConnected[b] /\ IsOpen(b)
                    /\ subscribed[b] \cup refused[b] = Wanted(b))

(* "Infinite measurement loop" (main.cpp): losing a broker does not end    *)
(* the program.                                                            *)
RunsForEver == alive
=============================================================================
