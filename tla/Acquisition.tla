----------------------------- MODULE Acquisition -----------------------------
(***************************************************************************)
(* How measurements enter the program: the measuring half of               *)
(* logger::trigger() and the sensors' measure() functions on the main      *)
(* thread, and the event handlers on the Tinkerforge and MQTT threads.     *)
(*                                                                         *)
(* The clock moves while the main thread pauses, waits for a reading, a    *)
(* connection or a publication, so that a pass may find any time gone.     *)
(* Events of the other threads arrive between any two steps.               *)
(***************************************************************************)
EXTENDS Sensor

CONSTANTS
    N,                \* number of configured sensors, measured in this order
    Kind,             \* Kind[i]: which class sensor i is
    Config,           \* Config[i]: its SensorConfig
    Brokers,          \* the MQTT brokers, each with a thread of its own
    MaxReadFailures,  \* _max_tinkerforge_read_failures
    StartTime,        \* clock reading when the main loop starts
    MaxTime           \* bound: the clock does not advance beyond it

Sensors == 1..N

(***************************************************************************)
(* "json" and "homematic" sensors and "tinkerforge" sensors of trigger     *)
(* event periodic are polled by the main loop.  "callback" is a            *)
(* Tinkerforge sensor of another trigger event, "mqtt" a subscribed topic. *)
(***************************************************************************)
PolledKinds == {"json", "homematic", "tinkerforge"}
EventKinds  == {"callback", "mqtt"}

ASSUME AcquisitionAssumption ==
    /\ N \in Nat \ {0}
    /\ Kind \in [Sensors -> PolledKinds \cup EventKinds]
    /\ Config \in [Sensors -> SensorConfig]
    /\ MaxReadFailures \in Nat
    /\ StartTime \in Nat
    /\ MaxTime \in Nat
    /\ \A i \in Sensors : StartTime > Config[i].rest + Config[i].keep

VARIABLES
    now,        \* the system clock
    current,    \* the clock reading trigger() took for this pass
    turn,       \* the sensor this pass is at
    phase,      \* where in the pass the main thread is
    outgoing,   \* the value publishLastEvent() has read
    mqtt,       \* mqtt[b]: what the thread of broker b is doing
    sensor,     \* sensor[i]: the state of sensor i
    accepted,   \* history: arrival times of the measurements sensor i recorded
    failedAt,   \* history: when the last attempt failed, 0 if it did not
    streak,     \* history: failed attempts in a row
    delivered,  \* history: the measurement last handed to the brokers
    fedBy       \* history: brokers that have brought messages of sensor i

mainVars    == <<current, turn, phase, outgoing>>
historyVars == <<accepted, failedAt, streak, delivered, fedBy>>
vars        == <<now, mainVars, mqtt, sensor, historyVars>>

Phases == {"pause", "measure", "reading", "publish", "publishing", "check"}

(* A thread of a broker waits for a message, or publishes the value that   *)
(* one has brought for the sensor "on", which "outgoing" is once it has    *)
(* been read.                                                              *)
MqttThread == [at : {"idle", "publish", "publishing"}, on : Sensors, outgoing : Nat]
IdleThread == [at |-> "idle", on |-> 1, outgoing |-> 0]

TypeOK ==
    /\ now \in Nat
    /\ current \in Nat
    /\ turn \in Sensors
    /\ phase \in Phases
    /\ outgoing \in Nat
    /\ mqtt \in [Brokers -> MqttThread]
    /\ sensor \in [Sensors -> SensorState]
    /\ accepted \in [Sensors -> SUBSET Nat]
    /\ failedAt \in [Sensors -> Nat]
    /\ streak \in [Sensors -> Nat]
    /\ delivered \in [Sensors -> Nat]
    /\ fedBy \in [Sensors -> SUBSET Brokers]

Init ==
    /\ now = StartTime
    /\ current = StartTime
    /\ turn = 1
    /\ phase = "pause"
    /\ outgoing = 0
    /\ mqtt = [b \in Brokers |-> IdleThread]
    /\ sensor = [i \in Sensors |-> NewSensor]
    /\ accepted = [i \in Sensors |-> {}]
    /\ failedAt = [i \in Sensors |-> 0]
    /\ streak = [i \in Sensors |-> 0]
    /\ delivered = [i \in Sensors |-> 0]
    /\ fedBy = [i \in Sensors |-> {}]

-----------------------------------------------------------------------------
(***************************************************************************)
(* The main thread.                                                        *)
(***************************************************************************)

(* Mutant: measure() comes one ms too early.                               *)
DueEarly(i) == TimeDiff(sensor[i].lastMeasurement, current) + 1 >= Config[i].rest

Due(i) == Rested(sensor[i], Config[i], current)

(* Mutant: the pass goes on beyond the last sensor.                        *)
GoOnBeyond ==
    /\ turn' = turn + 1
    /\ phase' = IF turn = N THEN "check" ELSE "measure"
    /\ UNCHANGED current

(* The pass goes on to the next sensor, or to its end after the last one.  *)
GoOn ==
    /\ turn' = IF turn = N THEN 1 ELSE turn + 1
    /\ phase' = IF turn = N THEN "check" ELSE "measure"
    /\ UNCHANGED current

(* trigger() takes the time once for the whole pass.                       *)
Trigger ==
    /\ phase = "pause"
    /\ current' = now
    /\ turn' = 1
    /\ phase' = "measure"
    /\ UNCHANGED <<now, mqtt, outgoing, sensor, historyVars>>

(* measure() of a sensor that has nothing to read in this pass.            *)
Skip ==
    /\ phase = "measure"
    /\ \/ Kind[turn] \in PolledKinds /\ ~Due(turn)
       \/ Kind[turn] = "mqtt"
    /\ GoOn
    /\ UNCHANGED <<now, mqtt, outgoing, sensor, historyVars>>

(* measure() of a callback sensor reports an event in every pass, after it *)
(* has connected to the Brick Daemon, if need be.                          *)
MeasureCallback ==
    /\ phase = "measure"
    /\ Kind[turn] = "callback"
    /\ phase' = "publish"
    /\ UNCHANGED <<now, mqtt, current, turn, outgoing, sensor, historyVars>>

(* measure() of a polled sensor: old values go, then the reading is asked. *)
StartRead ==
    /\ phase = "measure"
    /\ Kind[turn] \in PolledKinds
    /\ Due(turn)
    /\ sensor' = [sensor EXCEPT ![turn] = Cleaned(@, Config[turn], current)]
    /\ phase' = "reading"
    /\ UNCHANGED <<now, mqtt, current, turn, outgoing, historyVars>>

(* What addRawMeasurement() does to sensor i and to its history.           *)
Record(i) ==
    /\ sensor' = [sensor EXCEPT ![i] = AddRawMeasurement(@, Config[i], now)]
    /\ accepted' = IF Rested(sensor[i], Config[i], now)
                   THEN [accepted EXCEPT ![i] = @ \cup {now}]
                   ELSE accepted

(* The reading arrives.  poll() reports success whatever                   *)
(* addRawMeasurement() said; the other sensors pass its answer on.         *)
ReadOk ==
    /\ phase = "reading"
    /\ Record(turn)
    /\ failedAt' = [failedAt EXCEPT ![turn] = 0]
    /\ streak' = [streak EXCEPT ![turn] = 0]
    /\ IF Kind[turn] = "tinkerforge" \/ Rested(sensor[turn], Config[turn], now)
       THEN phase' = "publish" /\ UNCHANGED <<current, turn>>
       ELSE GoOn
    /\ UNCHANGED <<now, mqtt, outgoing, delivered, fedBy>>

(* The state in which a failed attempt leaves a sensor.  sensorTinkerforge *)
(* ::measure() overrides the gate that addReadFailure() has just set.      *)
AfterReadFailure(i) ==
    LET failed == AddReadFailure(sensor[i], Config[i], now)
    IN  IF Kind[i] = "tinkerforge" THEN [failed EXCEPT !.lastMeasurement = current]
                                   ELSE failed

(* The reading fails: no answer, no such key, no number.                   *)
ReadFail ==
    /\ phase = "reading"
    /\ sensor' = [sensor EXCEPT ![turn] = AfterReadFailure(turn)]
    /\ failedAt' = [failedAt EXCEPT ![turn] = now]
    /\ streak' = [streak EXCEPT ![turn] = @ + 1]
    /\ GoOn
    /\ UNCHANGED <<now, mqtt, outgoing, accepted, delivered, fedBy>>

(* poll() without a connection to the Brick Daemon, or of a Bricklet it    *)
(* cannot poll, returns FALSE and counts no failure.                       *)
Unreachable ==
    /\ phase = "reading"
    /\ Kind[turn] = "tinkerforge"
    /\ sensor' = [sensor EXCEPT ![turn].lastMeasurement = current]
    /\ failedAt' = [failedAt EXCEPT ![turn] = now]
    /\ GoOn
    /\ UNCHANGED <<now, mqtt, outgoing, accepted, streak, delivered, fedBy>>

(* poll() of a channel that the Bricklet does not have asks for nothing    *)
(* and returns TRUE: the gate stays open.                                  *)
ReadNothing ==
    /\ phase = "reading"
    /\ Kind[turn] = "tinkerforge"
    /\ phase' = "publish"
    /\ UNCHANGED <<now, mqtt, current, turn, outgoing, sensor, historyVars>>

(* publishLastEvent(), first half: the value is read from the store.  It   *)
(* throws on an empty store and leaves the event unpublished.              *)
PublishNothing ==
    /\ phase = "publish"
    /\ sensor[turn].lastValuePublished \/ sensor[turn].stored = {}
    /\ GoOn
    /\ UNCHANGED <<now, mqtt, outgoing, sensor, historyVars>>

PublishRead ==
    /\ phase = "publish"
    /\ ~sensor[turn].lastValuePublished
    /\ sensor[turn].stored # {}
    /\ outgoing' = LastTimestamp(sensor[turn].stored)
    /\ phase' = "publishing"
    /\ UNCHANGED <<now, mqtt, current, turn, sensor, historyVars>>

(* publishLastEvent(), second half: the brokers and HomeMatic have taken   *)
(* the value or failed to, and the event counts as published.              *)
PublishDone ==
    /\ phase = "publishing"
    /\ delivered' = [delivered EXCEPT ![turn] = outgoing]
    /\ sensor' = [sensor EXCEPT ![turn].lastValuePublished = TRUE]
    /\ outgoing' = 0
    /\ GoOn
    /\ UNCHANGED <<now, mqtt, accepted, failedAt, streak, fedBy>>

(* The end of trigger(): when any Tinkerforge sensor has failed too often, *)
(* the failures of all sensors are reset.  What is done about them is the  *)
(* subject of module BrickdSupervision.                                    *)
FailedTooOften(i) ==
    /\ Kind[i] \in {"tinkerforge", "callback"}
    /\ sensor[i].readFailures > 0
    /\ sensor[i].readFailures >= MaxReadFailures

CheckReadFailures ==
    /\ phase = "check"
    /\ IF \E i \in Sensors : FailedTooOften(i)
       THEN /\ sensor' = [i \in Sensors |-> ResetReadFailures(sensor[i])]
            /\ streak' = [i \in Sensors |-> 0]
       ELSE UNCHANGED <<sensor, streak>>
    /\ phase' = "pause"
    /\ UNCHANGED <<now, mqtt, current, turn, outgoing, accepted, failedAt, delivered, fedBy>>

-----------------------------------------------------------------------------
(***************************************************************************)
(* The other threads.                                                      *)
(***************************************************************************)

(* A Bricklet reports a matching edge.                                     *)
CallbackEvent(i) ==
    /\ Kind[i] = "callback"
    /\ Record(i)
    /\ UNCHANGED <<now, mqtt, mainVars, failedAt, streak, delivered, fedBy>>

(* A message on the subscribed topic of sensor i.                          *)
MessageArrived(b, i) ==
    /\ mqtt[b].at = "idle"
    /\ Kind[i] = "mqtt"
    /\ Record(i)
    /\ mqtt' = IF Rested(sensor[i], Config[i], now)
               THEN [mqtt EXCEPT ![b] = [at |-> "publish", on |-> i, outgoing |-> 0]]
               ELSE mqtt
    /\ fedBy' = [fedBy EXCEPT ![i] = @ \cup {b}]
    /\ UNCHANGED <<now, mainVars, failedAt, streak, delivered>>

(* The thread of the broker publishes an accepted value itself, with the   *)
(* same publishLastEvent() as the main thread.                             *)
MessageUnpublished(b) ==
    /\ mqtt[b].at = "publish"
    /\ \/ sensor[mqtt[b].on].lastValuePublished
       \/ sensor[mqtt[b].on].stored = {}
    /\ mqtt' = [mqtt EXCEPT ![b] = IdleThread]
    /\ UNCHANGED <<now, mainVars, sensor, historyVars>>

MessageRead(b) ==
    /\ mqtt[b].at = "publish"
    /\ ~sensor[mqtt[b].on].lastValuePublished
    /\ sensor[mqtt[b].on].stored # {}
    /\ mqtt' = [mqtt EXCEPT ![b].at = "publishing",
                            ![b].outgoing = LastTimestamp(sensor[mqtt[b].on].stored)]
    /\ UNCHANGED <<now, mainVars, sensor, historyVars>>

MessageDone(b) ==
    /\ mqtt[b].at = "publishing"
    /\ delivered' = [delivered EXCEPT ![mqtt[b].on] = mqtt[b].outgoing]
    /\ sensor' = [sensor EXCEPT ![mqtt[b].on].lastValuePublished = TRUE]
    /\ mqtt' = [mqtt EXCEPT ![b] = IdleThread]
    /\ UNCHANGED <<now, mainVars, accepted, failedAt, streak, fedBy>>

Tick ==
    /\ phase \in {"pause", "reading", "publish", "publishing"}
    /\ now < MaxTime
    /\ now' = now + 1
    /\ UNCHANGED <<mainVars, mqtt, sensor, historyVars>>

MainStep == \/ Trigger \/ Skip \/ MeasureCallback \/ StartRead \/ ReadOk \/ ReadFail
            \/ Unreachable \/ ReadNothing \/ PublishNothing \/ PublishRead \/ PublishDone
            \/ CheckReadFailures

MqttStep(b) == \/ \E i \in Sensors : MessageArrived(b, i)
               \/ MessageUnpublished(b) \/ MessageRead(b) \/ MessageDone(b)

Next ==
    \/ MainStep
    \/ \E i \in Sensors : CallbackEvent(i)
    \/ \E b \in Brokers : MqttStep(b)
    \/ Tick

Spec == Init /\ [][Next]_vars
-----------------------------------------------------------------------------
(***************************************************************************)
(* Properties.                                                             *)
(***************************************************************************)

Slots(i) == {Timeslot(a, Config[i].rest) : a \in accepted[i]}

(* A sensor records at most one measurement per slot of its rest period,   *)
(* although its gate is moved by three different functions.                *)
SlotOnce ==
    \A i \in Sensors : \A a, b \in accepted[i] :
        a # b => Timeslot(a, Config[i].rest) # Timeslot(b, Config[i].rest)

(* The store holds nothing that was not recorded, and every recorded       *)
(* measurement that is younger than the retention time, except the oldest  *)
(* when it is full: addValue()'s own rest check never refuses what         *)
(* addRawMeasurement() has counted, and clean() never takes what a column  *)
(* may still ask for.                                                      *)
RetentionComplete ==
    \A i \in Sensors : ~Config[i].isCounter =>
        /\ sensor[i].stored \subseteq Slots(i)
        /\ \A t \in Slots(i) \ sensor[i].stored :
              \/ t < now - Config[i].keep
              \/ /\ Cardinality(sensor[i].stored) = MaxMeasurements
                 /\ \A u \in sensor[i].stored : t < u

(* Counter sensor or not: the newest recorded measurement is the newest    *)
(* stored one until its retention time is over.                            *)
NewestRetained ==
    \A i \in Sensors : \A t \in Slots(i) :
        (\A u \in Slots(i) : u <= t) =>
            \/ t \in sensor[i].stored /\ \A u \in sensor[i].stored : u <= t
            \/ t < now - Config[i].keep

(* A reading that measure() has asked for is neither rejected by           *)
(* addRawMeasurement() nor ignored by addReadFailure(), which test the     *)
(* rest period again with a later clock reading.                           *)
ReadingIsTaken ==
    phase = "reading" => Rested(sensor[turn], Config[turn], now)

(* _nReadFailures is the number of failed attempts in a row.               *)
FailuresCounted ==
    \A i \in Sensors : sensor[i].readFailures = streak[i]

(* After a failed attempt the gate opens no later than the retry time or   *)
(* the rest period, whichever is shorter, after the failure.               *)
RetryOpens(i) ==
    failedAt[i] # 0 =>
        sensor[i].lastMeasurement + Config[i].rest
            <= failedAt[i] + Lesser(Config[i].retry, Config[i].rest)

(* JSON and HomeMatic sensors: addReadFailure() has the last word.         *)
RetryInTime ==
    \A i \in Sensors : Kind[i] \in {"json", "homematic"} => RetryOpens(i)

(* Has one thread both recorded and published the values of sensor i?  A   *)
(* callback sensor records on one thread and publishes on another, and     *)
(* several brokers may bring messages for one sensor.                      *)
OneThread(i) == \/ Kind[i] \in PolledKinds
                \/ Kind[i] = "mqtt" /\ \A b, c \in fedBy[i] : b = c

LatestDelivered(i) ==
    /\ delivered[i] \in Slots(i)
    /\ \A t \in Slots(i) : t <= delivered[i]

(* When the last value of a sensor counts as published, the value handed   *)
(* to the brokers is the one the sensor recorded last, if one thread has   *)
(* done both.                                                              *)
PublishedIsLatest ==
    \A i \in Sensors : OneThread(i) /\ sensor[i].lastValuePublished => LatestDelivered(i)
=============================================================================
