-------------------------- MODULE MqttBroker_proofs --------------------------
(***************************************************************************)
(* The safety half of the MQTT connections, for every number of brokers,   *)
(* sensors and topics.  Each conjunct of the invariant is about one broker *)
(* and every step is one broker's.                                         *)
(***************************************************************************)
EXTENDS MqttBroker, TLAPS

(* The sending thread is busy only while the connection is down.           *)
SenderOK(b) == sender[b] # "idle" => link[b] = "down"

(* A connection that is up has been taken note of when connected() is past *)
(* its first line.                                                         *)
ReceiverOK(b) == alive /\ link[b] = "up" /\ receiver[b] # "called" => isConnected[b]

(* The loop of connected() has dealt with the sensors before at[b].        *)
LoopOK(b) ==
    /\ subscribed[b] \cup refused[b] \subseteq Wanted(b)
    /\ alive /\ link[b] = "up" /\ IsOpen(b) /\ receiver[b] = "subscribing" =>
          \A i \in Sensors : i < at[b] /\ SubscribeTopic[i] \in Wanted(b) =>
              SubscribeTopic[i] \in subscribed[b] \cup refused[b]

(* The broker knows the program under one client ID only.                  *)
SessionsOK(b) ==
    /\ sessions[b] \subseteq {clientID[b]}
    /\ link[b] = "unused" => sessions[b] = {}

GivesUpOK(b)  == alive /\ link[b] = "down" /\ ~gaveUp[b] => sender[b] # "idle"
CompleteOK(b) == alive /\ link[b] = "up" /\ receiver[b] = "idle" =>
                     /\ isConnected[b]
                     /\ IsOpen(b) => subscribed[b] \cup refused[b] = Wanted(b)
StatusOK(b)   ==
    alive /\ link[b] = "up" /\ IsOpen(b) /\ receiver[b] \in {"subscribing", "idle"} =>
        status[b] = "online"

BrokerOK(b) == /\ SenderOK(b) /\ ReceiverOK(b) /\ LoopOK(b) /\ SessionsOK(b)
               /\ GivesUpOK(b) /\ CompleteOK(b) /\ StatusOK(b)

IInv == TypeOK /\ \A b \in Brokers : BrokerOK(b)

-----------------------------------------------------------------------------
LEMMA WantedTopics == ASSUME NEW b PROVE Wanted(b) \subseteq Topics
BY DEF Wanted

LEMMA InitInvariant == Init => IInv
<1> SUFFICES ASSUME Init PROVE IInv
  OBVIOUS
<1>1. TypeOK
  BY MqttAssumption DEF Init, TypeOK, Links, Receivers, Senders
<1>2. ASSUME NEW b \in Brokers PROVE BrokerOK(b)
  BY DEF Init, BrokerOK, SenderOK, ReceiverOK, LoopOK, SessionsOK, GivesUpOK,
         CompleteOK, StatusOK, IsOpen
<1> QED
  BY <1>1, <1>2 DEF IInv

(* What a step leaves alone of a broker leaves the broker as it was.       *)
LEMMA OtherBroker ==
    ASSUME NEW b, BrokerOK(b), alive' => alive,
           UNCHANGED <<link[b], receiver[b], at[b], sender[b], isConnected[b], clientID[b],
                       sessions[b], subscribed[b], refused[b], status[b], gaveUp[b]>>
    PROVE  BrokerOK(b)'
BY DEF BrokerOK, SenderOK, ReceiverOK, LoopOK, SessionsOK, GivesUpOK, CompleteOK,
       StatusOK, IsOpen, Wanted, IsValidTopic

(* A step that touches one broker: the invariant of that broker suffices.  *)
LEMMA OneBroker ==
    ASSUME IInv, NEW b \in Brokers, TypeOK', BrokerOK(b)', alive' => alive,
           \A c \in Brokers \ {b} :
               UNCHANGED <<link[c], receiver[c], at[c], sender[c], isConnected[c],
                           clientID[c], sessions[c], subscribed[c], refused[c],
                           status[c], gaveUp[c]>>
    PROVE  IInv'
<1>1. ASSUME NEW c \in Brokers, c # b PROVE BrokerOK(c)'
  BY <1>1, OtherBroker DEF IInv
<1> QED
  BY <1>1 DEF IInv

(* The end of the program.                                                 *)
LEMMA TerminateStep == IInv /\ Terminate => IInv'
<1> SUFFICES ASSUME IInv, Terminate PROVE IInv'
  OBVIOUS
<1>1. TypeOK'
  BY DEF IInv, TypeOK, Terminate, clientVars, brokerVars
<1>2. ASSUME NEW b \in Brokers PROVE BrokerOK(b)'
  BY OtherBroker DEF IInv, Terminate, clientVars, brokerVars
<1> QED
  BY <1>1, <1>2 DEF IInv

LEMMA ConnectToMQTTBrokerStep ==
    ASSUME IInv, NEW b \in Brokers, ConnectToMQTTBroker(b) PROVE IInv'
<1> USE DEF ConnectToMQTTBroker, Connect
<1>1. TypeOK'
  BY DEF IInv, TypeOK, Links
<1>2. BrokerOK(b)'
  BY DEF IInv, TypeOK, BrokerOK, SenderOK, ReceiverOK, LoopOK, SessionsOK, GivesUpOK,
         CompleteOK, StatusOK, IsOpen, Wanted, IsValidTopic
<1> QED
  BY <1>1, <1>2, OneBroker DEF IInv, TypeOK

LEMMA ConnectedStep == ASSUME IInv, NEW b \in Brokers, Connected(b) PROVE IInv'
<1> USE DEF Connected, brokerVars
<1>1. TypeOK'
  BY DEF IInv, TypeOK, Receivers
<1>2. BrokerOK(b)'
  BY DEF IInv, TypeOK, BrokerOK, SenderOK, ReceiverOK, LoopOK, SessionsOK, GivesUpOK,
         CompleteOK, StatusOK, IsOpen, Wanted, IsValidTopic
<1> QED
  BY <1>1, <1>2, OneBroker DEF IInv, TypeOK

LEMMA AnnounceStep == ASSUME IInv, NEW b \in Brokers, Announce(b) PROVE IInv'
<1>1. CASE isConnected[b] /\ link[b] # "up"
  BY <1>1, TerminateStep DEF Announce
<1>2. CASE ~(isConnected[b] /\ link[b] # "up")
  <2>0. /\ alive /\ receiver[b] = "announcing"
        /\ status' = IF isConnected[b] /\ IsOpen(b)
                     THEN [status EXCEPT ![b] = "online"] ELSE status
        /\ receiver' = [receiver EXCEPT ![b] = "subscribing"]
        /\ at' = [at EXCEPT ![b] = 1]
        /\ UNCHANGED <<alive, reachable, link, sender, isConnected, clientID,
                       sessions, subscribed, refused, gaveUp>>
    BY <1>2 DEF Announce
  <2> USE <2>0
  <2>1. TypeOK'
    <3>1. 1 \in 1..(N + 1)
      BY MqttAssumption
    <3>2. at' \in [Brokers -> 1..(N + 1)]
      BY <3>1 DEF IInv, TypeOK
    <3>3. status' \in [Brokers -> {"online", "offline"}]
      BY DEF IInv, TypeOK
    <3> QED
      BY <3>2, <3>3 DEF IInv, TypeOK, Receivers
  <2>2. BrokerOK(b)'
    <3>1. at'[b] = 1 /\ \A i \in Sensors : ~(i < 1)
      BY DEF IInv, TypeOK, Sensors
    <3>2. LoopOK(b)'
      BY <3>1 DEF IInv, TypeOK, BrokerOK, LoopOK, IsOpen, Wanted, IsValidTopic
    <3>3. SenderOK(b)' /\ ReceiverOK(b)' /\ SessionsOK(b)' /\ GivesUpOK(b)'
      BY DEF IInv, TypeOK, BrokerOK, SenderOK, ReceiverOK, SessionsOK, GivesUpOK
    <3>4. CompleteOK(b)'
      BY DEF IInv, TypeOK, CompleteOK
    <3>5. StatusOK(b)'
      BY DEF IInv, TypeOK, BrokerOK, ReceiverOK, StatusOK, IsOpen
    <3> QED
      BY <3>2, <3>3, <3>4, <3>5 DEF BrokerOK
  <2> QED
    BY <2>1, <2>2, OneBroker DEF IInv, TypeOK
<1> QED
  BY <1>1, <1>2

LEMMA SubscribeStep == ASSUME IInv, NEW b \in Brokers, Subscribe(b) PROVE IInv'
<1> DEFINE t == SubscribeTopic[at[b]]
<1>0. /\ alive /\ receiver[b] = "subscribing" /\ at[b] \in Sensors
      /\ at[b] \in Nat /\ N \in Nat /\ t \in Topics
  BY MqttAssumption DEF IInv, TypeOK, Subscribe, Sensors, Topics
<1>1. CASE t \in Wanted(b) /\ link[b] # "up"
  BY <1>1, TerminateStep DEF Subscribe
<1>2. CASE ~(t \in Wanted(b) /\ link[b] # "up")
  <2>1. /\ at' = [at EXCEPT ![b] = @ + 1]
        /\ UNCHANGED <<alive, reachable, link, receiver, sender, isConnected, clientID,
                       sessions, status, gaveUp>>
        /\ subscribed' \in {subscribed, [subscribed EXCEPT ![b] = @ \cup {t}]}
        /\ refused' \in {refused, [refused EXCEPT ![b] = @ \cup {t}]}
        /\ t \notin Wanted(b) => UNCHANGED <<subscribed, refused>>
        /\ t \in Wanted(b) /\ IsOpen(b) => t \in subscribed'[b] \cup refused'[b]
    <3>1. CASE t \in Wanted(b) /\ link[b] = "up"
      <4>1. /\ at' = [at EXCEPT ![b] = @ + 1]
            /\ UNCHANGED <<alive, reachable, link, receiver, sender, isConnected, clientID,
                           sessions, status, gaveUp>>
            /\ \/ subscribed' = [subscribed EXCEPT ![b] = @ \cup {t}] /\ UNCHANGED refused
               \/ refused' = [refused EXCEPT ![b] = @ \cup {t}] /\ UNCHANGED subscribed
               \/ ~IsOpen(b) /\ UNCHANGED <<subscribed, refused>>
        BY <3>1 DEF Subscribe
      <4>2. subscribed \in [Brokers -> SUBSET Topics] /\ refused \in [Brokers -> SUBSET Topics]
        BY DEF IInv, TypeOK
      <4> QED
        BY <3>1, <4>1, <4>2
    <3>2. CASE t \notin Wanted(b)
      BY <3>2 DEF Subscribe, brokerVars
    <3> QED
      BY <1>2, <3>1, <3>2
  <2>2. TypeOK'
    <3>1. at' \in [Brokers -> 1..(N + 1)]
      BY <1>0, <2>1 DEF IInv, TypeOK, Sensors
    <3>2. subscribed' \in [Brokers -> SUBSET Topics] /\ refused' \in [Brokers -> SUBSET Topics]
      BY <1>0, <2>1 DEF IInv, TypeOK
    <3> QED
      BY <2>1, <3>1, <3>2 DEF IInv, TypeOK
  <2>3. LoopOK(b)'
    <3>1. /\ subscribed[b] \cup refused[b] \subseteq subscribed'[b] \cup refused'[b]
          /\ subscribed'[b] \cup refused'[b] \subseteq Wanted(b)
      BY <2>1 DEF IInv, TypeOK, BrokerOK, LoopOK
    <3>2. Wanted(b)' = Wanted(b)
      BY DEF Wanted, IsValidTopic
    <3>3. ASSUME link[b] = "up", IsOpen(b), NEW i \in Sensors, i < at[b] + 1,
                 SubscribeTopic[i] \in Wanted(b)
          PROVE  SubscribeTopic[i] \in subscribed'[b] \cup refused'[b]
      <4>1. CASE i = at[b]
        BY <2>1, <3>3, <4>1
      <4>2. CASE i # at[b]
        <5>1. i < at[b]
          BY <1>0, <3>3, <4>2 DEF Sensors
        <5>2. SubscribeTopic[i] \in subscribed[b] \cup refused[b]
          BY <1>0, <3>3, <5>1 DEF IInv, BrokerOK, LoopOK
        <5> QED
          BY <3>1, <5>2
      <4> QED
        BY <4>1, <4>2
    <3>4. at'[b] = at[b] + 1 /\ link' = link /\ (IsOpen(b)' <=> IsOpen(b))
      BY <2>1 DEF IInv, TypeOK, IsOpen
    <3> QED
      BY <3>1, <3>2, <3>3, <3>4 DEF LoopOK
  <2>4. BrokerOK(b)'
    BY <1>0, <2>1, <2>3 DEF IInv, BrokerOK, SenderOK, ReceiverOK, SessionsOK, GivesUpOK,
                            CompleteOK, StatusOK, IsOpen
  <2>5. \A c \in Brokers \ {b} : UNCHANGED <<at[c], subscribed[c], refused[c]>>
    BY <2>1 DEF IInv, TypeOK
  <2> QED
    BY <2>1, <2>2, <2>4, <2>5, OneBroker
<1> QED
  BY <1>1, <1>2

LEMMA SubscribeEndStep == ASSUME IInv, NEW b \in Brokers, SubscribeEnd(b) PROVE IInv'
<1> USE DEF SubscribeEnd, brokerVars
<1>1. TypeOK'
  BY MqttAssumption DEF IInv, TypeOK, Receivers
<1>2. link[b] = "up" /\ IsOpen(b) => subscribed[b] \cup refused[b] = Wanted(b)
  <2> SUFFICES ASSUME link[b] = "up", IsOpen(b)
               PROVE  Wanted(b) \subseteq subscribed[b] \cup refused[b]
    BY DEF IInv, BrokerOK, LoopOK
  <2>1. \A i \in Sensors : i < at[b]
    BY MqttAssumption DEF Sensors
  <2>2. \A t \in Wanted(b) : \E i \in Sensors : t = SubscribeTopic[i]
    BY WantedTopics DEF Topics
  <2> QED
    BY <2>1, <2>2 DEF IInv, BrokerOK, LoopOK
<1>3. Wanted(b)' = Wanted(b)
  BY DEF Wanted, IsValidTopic
<1>4. BrokerOK(b)'
  BY <1>2, <1>3 DEF IInv, TypeOK, BrokerOK, SenderOK, ReceiverOK, LoopOK, SessionsOK,
                    GivesUpOK, CompleteOK, StatusOK, IsOpen
<1> QED
  BY <1>1, <1>4, OneBroker DEF IInv, TypeOK

LEMMA SenderSteps == ASSUME IInv, NEW b \in Brokers, SenderStep(b) PROVE IInv'
<1> USE DEF SenderStep, ConnectionLost, Reconnect, Connect, brokerVars
<1>1. TypeOK'
  BY DEF IInv, TypeOK, Links, Senders
<1>2. BrokerOK(b)'
  BY DEF IInv, TypeOK, BrokerOK, SenderOK, ReceiverOK, LoopOK, SessionsOK, GivesUpOK,
         CompleteOK, StatusOK, IsOpen, Wanted, IsValidTopic
<1> QED
  BY <1>1, <1>2, OneBroker DEF IInv, TypeOK

LEMMA ClientSteps == ASSUME IInv, NEW b \in Brokers, ClientStep(b) PROVE IInv'
<1>1. TypeOK'
  <2>1. CASE Accept(b)
    <3>1. status' \in {status, [status EXCEPT ![b] = "offline"]}
      BY <2>1 DEF Accept
    <3> QED
      BY <2>1, <3>1 DEF Accept, IInv, TypeOK, Links, Receivers
  <2>2. CASE OnFailure(b) \/ LinkBreaks(b)
    BY <2>2 DEF OnFailure, LinkBreaks, brokerVars, IInv, TypeOK, Links, Senders
  <2> QED
    BY <2>1, <2>2 DEF ClientStep
<1>2. BrokerOK(b)'
  <2>1. CASE Accept(b)
    <3>1. /\ link[b] = "connecting" /\ link'[b] = "up" /\ receiver'[b] = "called"
          /\ sender' = sender /\ clientID' = clientID
          /\ sessions'[b] = sessions[b] \cup {clientID[b]}
          /\ subscribed'[b] = {} /\ refused'[b] = {}
      BY <2>1 DEF Accept, IInv, TypeOK
    <3>2. SenderOK(b)' /\ SessionsOK(b)'
      BY <3>1 DEF IInv, BrokerOK, SenderOK, SessionsOK
    <3>3. ReceiverOK(b)' /\ LoopOK(b)' /\ GivesUpOK(b)' /\ CompleteOK(b)' /\ StatusOK(b)'
      BY <3>1 DEF ReceiverOK, LoopOK, GivesUpOK, CompleteOK, StatusOK
    <3> QED
      BY <3>2, <3>3 DEF BrokerOK
  <2> USE DEF IInv, TypeOK, BrokerOK, SenderOK, ReceiverOK, LoopOK, SessionsOK, GivesUpOK,
              CompleteOK, StatusOK, IsOpen, Wanted, IsValidTopic
  <2>2. CASE OnFailure(b)
    BY <2>2 DEF OnFailure, brokerVars
  <2>3. CASE LinkBreaks(b)
    BY <2>3 DEF LinkBreaks, brokerVars
  <2> QED
    BY <2>1, <2>2, <2>3 DEF ClientStep
<1>3. \A c \in Brokers \ {b} :
          UNCHANGED <<link[c], receiver[c], at[c], sender[c], isConnected[c], clientID[c],
                      sessions[c], subscribed[c], refused[c], status[c], gaveUp[c]>>
  BY DEF ClientStep, Accept, OnFailure, LinkBreaks, brokerVars, IInv, TypeOK
<1>4. alive' = alive
  BY DEF ClientStep, Accept, OnFailure, LinkBreaks
<1> QED
  BY <1>1, <1>2, <1>3, <1>4, OneBroker

(* There is only one client ID: without the session that has expired the   *)
(* broker has none of this program.                                        *)
LEMMA ExpireStep ==
    ASSUME IInv, NEW b \in Brokers, NEW id \in sessions[b], Expire(b, id) PROVE IInv'
<1> USE DEF Expire, clientVars
<1>1. TypeOK'
  BY DEF IInv, TypeOK
<1>2. ~IsOpen(b)'
  BY DEF IInv, TypeOK, BrokerOK, SessionsOK, IsOpen
<1>3. BrokerOK(b)'
  BY <1>2 DEF IInv, TypeOK, BrokerOK, SenderOK, ReceiverOK, LoopOK, SessionsOK, GivesUpOK,
              CompleteOK, StatusOK, IsOpen, Wanted, IsValidTopic
<1> QED
  BY <1>1, <1>3, OneBroker DEF IInv, TypeOK

LEMMA QuietStep ==
    ASSUME IInv, reachable' \in [Brokers -> BOOLEAN],
           UNCHANGED <<alive, clientVars, brokerVars, gaveUp>>
    PROVE  IInv'
<1> USE DEF clientVars, brokerVars
<1>1. TypeOK'
  BY DEF IInv, TypeOK
<1>2. ASSUME NEW b \in Brokers PROVE BrokerOK(b)'
  BY OtherBroker DEF IInv
<1> QED
  BY <1>1, <1>2 DEF IInv

LEMMA NextStep == IInv /\ [Next]_vars => IInv'
<1> SUFFICES ASSUME IInv, [Next]_vars PROVE IInv'
  OBVIOUS
<1>1. ASSUME NEW b \in Brokers, ConnectToMQTTBroker(b) PROVE IInv'
  BY <1>1, ConnectToMQTTBrokerStep
<1>2. ASSUME NEW b \in Brokers, ReceiverStep(b) PROVE IInv'
  BY <1>2, ConnectedStep, AnnounceStep, SubscribeStep, SubscribeEndStep DEF ReceiverStep
<1>3. ASSUME NEW b \in Brokers, SenderStep(b) PROVE IInv'
  BY <1>3, SenderSteps
<1>4. ASSUME NEW b \in Brokers, ClientStep(b) PROVE IInv'
  BY <1>4, ClientSteps
<1>5. ASSUME NEW b \in Brokers, NetworkChange(b) PROVE IInv'
  <2>1. reachable' \in [Brokers -> BOOLEAN]
    BY <1>5 DEF IInv, TypeOK, NetworkChange
  <2> QED
    BY <1>5, <2>1, QuietStep DEF NetworkChange
<1>6. ASSUME NEW b \in Brokers, NEW id \in sessions[b], Expire(b, id) PROVE IInv'
  BY <1>6, ExpireStep
<1>7. ASSUME NEW t \in PublishTopics, Publish(t) PROVE IInv'
  BY <1>7, TerminateStep DEF Publish
<1>8. CASE UNCHANGED vars
  BY <1>8, QuietStep DEF vars, IInv, TypeOK
<1> QED
  BY <1>1, <1>2, <1>3, <1>4, <1>5, <1>6, <1>7, <1>8 DEF Next

LEMMA Invariance == Spec => []IInv
<1> QED
  BY InitInvariant, NextStep, PTL DEF Spec

(* Type correctness of the MQTT connections.                               *)
THEOREM MqttTypeCorrect == Spec => []TypeOK
<1>1. IInv => TypeOK
  BY DEF IInv
<1> QED
  BY <1>1, Invariance, PTL

(* mqttBroker: whoever finds the connection down sees to the next attempt. *)
THEOREM BrokersAreNotGivenUp == Spec => []NobodyGivesUp
<1>1. IInv => NobodyGivesUp
  BY DEF IInv, BrokerOK, GivesUpOK, NobodyGivesUp
<1> QED
  BY <1>1, Invariance, PTL

(* connected() leaves a complete session, at every reconnection.           *)
THEOREM SessionsAreComplete == Spec => []SessionComplete
<1>1. IInv => SessionComplete
  BY DEF IInv, BrokerOK, CompleteOK, SessionComplete
<1> QED
  BY <1>1, Invariance, PTL

(* No will of an older session overtakes the "online" of the present one.  *)
THEOREM StatusIsTrue == Spec => []StatusTruthful
<1>1. IInv => StatusTruthful
  BY DEF IInv, BrokerOK, StatusOK, StatusTruthful
<1> QED
  BY <1>1, Invariance, PTL
=============================================================================
