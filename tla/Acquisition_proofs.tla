------------------------- MODULE Acquisition_proofs -------------------------
(***************************************************************************)
(* Theorems of Acquisition, for every number and mixture of sensors, every *)
(* rest period, retry time and retention time.                             *)
(***************************************************************************)
EXTENDS Acquisition, Sensor_proofs

(***************************************************************************)
(* The inductive invariant.  Beside the properties themselves it says how  *)
(* every sensor relates to the measurements it has recorded (SensorOK of   *)
(* Sensor_proofs), and that a polled sensor which this pass has not        *)
(* reached yet was last touched before the pass began: only then does the  *)
(* absolute distance of the gate from the pass's clock reading mean "so    *)
(* much time has passed".                                                  *)
(***************************************************************************)
ClockOK == StartTime <= current /\ current <= now

SensorsOK == \A i \in Sensors : SensorOK(sensor[i], Config[i], accepted[i], now)

Ahead(i) ==
    \/ phase = "measure" /\ turn <= i
    \/ phase = "reading" /\ turn <= i
    \/ phase \in {"publish", "publishing"} /\ turn < i

PassOK ==
    /\ \A i \in Sensors : Kind[i] \in PolledKinds /\ Ahead(i) =>
          sensor[i].lastMeasurement <= current
    /\ phase = "reading" =>
          /\ Kind[turn] \in PolledKinds
          /\ sensor[turn].lastMeasurement + Config[turn].rest <= current

StreakOK == \A i \in Sensors : Kind[i] \in EventKinds => streak[i] = 0

IInv ==
    /\ TypeOK
    /\ ClockOK
    /\ SensorsOK
    /\ PassOK
    /\ StreakOK
    /\ SlotOnce
    /\ FailuresCounted
    /\ RetryInTime

(***************************************************************************)
(* What the assumptions give for one sensor.                               *)
(***************************************************************************)
LEMMA ConfigOf ==
    ASSUME NEW i \in Sensors
    PROVE  /\ Kind[i] \in PolledKinds \cup EventKinds
           /\ Config[i] \in SensorConfig
           /\ Config[i].rest \in Nat \ {0}
           /\ Config[i].keep \in Nat
           /\ Config[i].retry \in Nat \ {0}
           /\ StartTime \in Nat
           /\ Config[i].rest + Config[i].keep < StartTime
<1>1. Config[i] \in SensorConfig /\ StartTime > Config[i].rest + Config[i].keep
  BY AcquisitionAssumption
<1>2. Config[i].rest \in Nat \ {0} /\ Config[i].keep \in Nat /\ Config[i].retry \in Nat \ {0}
  BY <1>1 DEF SensorConfig
<1> QED
  BY <1>1, <1>2, AcquisitionAssumption

LEMMA NewSensorOK ==
    ASSUME NEW cfg \in SensorConfig, NEW t \in Nat
    PROVE  NewSensor \in SensorState /\ SensorOK(NewSensor, cfg, {}, t)
BY DEF NewSensor, SensorState, SensorOK, GateOK, StoreOK, NewestOK, HasNewest

LEMMA InitInvariant == Init => IInv
<1> SUFFICES ASSUME Init PROVE IInv
  OBVIOUS
<1> USE DEF Init
<1>1. TypeOK
  <2>1. 1 \in Sensors
    BY AcquisitionAssumption DEF Sensors
  <2>2. NewSensor \in SensorState
    BY DEF NewSensor, SensorState
  <2> QED
    BY <2>1, <2>2, AcquisitionAssumption DEF TypeOK, Phases, MqttThread, IdleThread
<1>2. ClockOK
  BY AcquisitionAssumption DEF ClockOK
<1>3. SensorsOK
  <2> SUFFICES ASSUME NEW i \in Sensors
               PROVE  SensorOK(NewSensor, Config[i], {}, StartTime)
    BY DEF SensorsOK
  <2> QED
    BY ConfigOf, NewSensorOK
<1>4. PassOK
  BY DEF PassOK, Ahead
<1>5. StreakOK /\ FailuresCounted
  BY DEF StreakOK, FailuresCounted, NewSensor
<1>6. SlotOnce /\ RetryInTime
  BY DEF SlotOnce, RetryInTime, RetryOpens
<1> QED
  BY <1>1, <1>2, <1>3, <1>4, <1>5, <1>6 DEF IInv

-----------------------------------------------------------------------------
(***************************************************************************)
(* Going on to the next sensor.                                            *)
(***************************************************************************)
LEMMA GoOnStep ==
    ASSUME turn \in Sensors, GoOn,
           phase \in {"measure", "reading", "publish", "publishing"}
    PROVE  /\ turn' \in Sensors
           /\ phase' \in {"measure", "check"}
           /\ current' = current
           /\ \A i \in Sensors : Ahead(i)' => Ahead(i) /\ i # turn
<1>1. N \in Nat \ {0} /\ turn \in 1..N
  BY AcquisitionAssumption DEF Sensors
<1>2. CASE turn = N
  BY <1>1, <1>2 DEF GoOn, Sensors, Ahead
<1>3. CASE turn # N
  <2>1. turn' = turn + 1 /\ phase' = "measure" /\ turn + 1 \in 1..N
    BY <1>1, <1>3 DEF GoOn
  <2>2. \A i \in Sensors : turn + 1 <= i => turn < i
    BY <1>1 DEF Sensors
  <2>3. \A i \in Sensors : turn < i => turn <= i /\ i # turn
    BY <1>1 DEF Sensors
  <2> QED
    BY <2>1, <2>2, <2>3 DEF GoOn, Sensors, Ahead
<1> QED
  BY <1>2, <1>3

(***************************************************************************)
(* Steps of the main thread that change no sensor.                         *)
(***************************************************************************)
LEMMA QuietStep ==
    ASSUME IInv, UNCHANGED <<now, sensor, accepted, failedAt, streak>>,
           TypeOK', ClockOK', PassOK'
    PROVE  IInv'
<1> USE DEF IInv
<1>1. SensorsOK'
  BY DEF SensorsOK
<1>2. StreakOK' /\ SlotOnce' /\ FailuresCounted' /\ RetryInTime'
  BY DEF StreakOK, SlotOnce, FailuresCounted, RetryInTime, RetryOpens
<1> QED
  BY <1>1, <1>2

LEMMA TriggerStep == IInv /\ Trigger => IInv'
<1> SUFFICES ASSUME IInv, Trigger PROVE IInv'
  OBVIOUS
<1> USE DEF IInv, Trigger
<1>1. TypeOK'
  <2>1. 1 \in Sensors
    BY AcquisitionAssumption DEF Sensors
  <2> QED
    BY <2>1 DEF TypeOK, Phases, historyVars
<1>2. ClockOK'
  BY AcquisitionAssumption DEF TypeOK, ClockOK
<1>3. PassOK'
  BY DEF TypeOK, PassOK, SensorsOK, SensorOK, GateOK
<1> QED
  BY <1>1, <1>2, <1>3, QuietStep DEF historyVars

LEMMA SkipStep == IInv /\ Skip => IInv'
<1> SUFFICES ASSUME IInv, Skip PROVE IInv'
  OBVIOUS
<1> USE DEF IInv, Skip
<1>1. /\ turn' \in Sensors /\ phase' \in {"measure", "check"} /\ current' = current
      /\ \A i \in Sensors : Ahead(i)' => Ahead(i) /\ i # turn
  BY GoOnStep DEF TypeOK
<1>2. TypeOK' /\ ClockOK' /\ PassOK'
  BY <1>1 DEF TypeOK, Phases, ClockOK, PassOK, historyVars
<1> QED
  BY <1>2, QuietStep DEF historyVars

LEMMA MeasureCallbackStep == IInv /\ MeasureCallback => IInv'
<1> SUFFICES ASSUME IInv, MeasureCallback PROVE IInv'
  OBVIOUS
<1> USE DEF IInv, MeasureCallback
<1>1. TypeOK' /\ ClockOK'
  BY DEF TypeOK, Phases, ClockOK, historyVars
<1>2. PassOK'
  <2>1. \A i \in Sensors : Ahead(i)' => Ahead(i)
    BY DEF Ahead, TypeOK, Sensors
  <2> QED
    BY <2>1 DEF PassOK
<1> QED
  BY <1>1, <1>2, QuietStep DEF historyVars

LEMMA PublishNothingStep == IInv /\ PublishNothing => IInv'
<1> SUFFICES ASSUME IInv, PublishNothing PROVE IInv'
  OBVIOUS
<1> USE DEF IInv, PublishNothing
<1>1. /\ turn' \in Sensors /\ phase' \in {"measure", "check"} /\ current' = current
      /\ \A i \in Sensors : Ahead(i)' => Ahead(i) /\ i # turn
  BY GoOnStep DEF TypeOK
<1>2. TypeOK' /\ ClockOK' /\ PassOK'
  BY <1>1 DEF TypeOK, Phases, ClockOK, PassOK, historyVars
<1> QED
  BY <1>2, QuietStep DEF historyVars

LEMMA ReadNothingStep == IInv /\ ReadNothing => IInv'
<1> SUFFICES ASSUME IInv, ReadNothing PROVE IInv'
  OBVIOUS
<1> USE DEF IInv, ReadNothing
<1>1. TypeOK' /\ ClockOK'
  BY DEF TypeOK, Phases, ClockOK, historyVars
<1>2. PassOK'
  <2>1. \A i \in Sensors : Ahead(i)' => Ahead(i)
    BY DEF Ahead, TypeOK, Sensors
  <2> QED
    BY <2>1 DEF PassOK
<1> QED
  BY <1>1, <1>2, QuietStep DEF historyVars

LEMMA PublishReadStep == IInv /\ PublishRead => IInv'
<1> SUFFICES ASSUME IInv, PublishRead PROVE IInv'
  OBVIOUS
<1> USE DEF IInv, PublishRead
<1>1. TypeOK'
  <2>1. sensor[turn].stored \in SUBSET Nat /\ HasNewest(sensor[turn].stored)
    BY DEF TypeOK, SensorState, SensorsOK, SensorOK, StoreOK
  <2>2. PICK t \in sensor[turn].stored : \A u \in sensor[turn].stored : u <= t
    BY <2>1 DEF HasNewest
  <2>3. outgoing' \in Nat
    BY <2>1, <2>2, NewestIs DEF LastTimestamp
  <2> QED
    BY <2>3 DEF TypeOK, Phases, historyVars
<1>2. ClockOK'
  BY DEF ClockOK
<1>3. PassOK'
  <2>1. \A i \in Sensors : Ahead(i)' => Ahead(i)
    BY DEF Ahead, TypeOK, Sensors
  <2> QED
    BY <2>1 DEF PassOK
<1> QED
  BY <1>1, <1>2, <1>3, QuietStep DEF historyVars

LEMMA TickStep == IInv /\ Tick => IInv'
<1> SUFFICES ASSUME IInv, Tick PROVE IInv'
  OBVIOUS
<1> USE DEF IInv, Tick, mainVars, historyVars
<1>1. TypeOK' /\ ClockOK'
  BY AcquisitionAssumption DEF TypeOK, ClockOK
<1>2. SensorsOK'
  <2> SUFFICES ASSUME NEW i \in Sensors
               PROVE  SensorOK(sensor[i], Config[i], accepted[i], now')
    BY DEF SensorsOK
  <2>1. now \in Nat /\ now' \in Nat /\ now <= now'
    BY DEF TypeOK
  <2>2. sensor[i] \in SensorState /\ accepted[i] \in SUBSET Nat
    BY DEF TypeOK
  <2>3. SensorOK(sensor[i], Config[i], accepted[i], now)
    BY DEF SensorsOK
  <2> QED
    BY <2>1, <2>2, <2>3, ConfigOf, LaterOK
<1>3. PassOK'
  BY DEF PassOK, Ahead
<1>4. StreakOK' /\ SlotOnce' /\ FailuresCounted' /\ RetryInTime'
  BY DEF StreakOK, SlotOnce, FailuresCounted, RetryInTime, RetryOpens
<1> QED
  BY <1>1, <1>2, <1>3, <1>4

-----------------------------------------------------------------------------
(***************************************************************************)
(* Steps that change the sensor i and no other, and not its history of     *)
(* recorded measurements.                                                  *)
(***************************************************************************)
LEMMA OneSensorStep ==
    ASSUME IInv, NEW i \in Sensors, NEW new \in SensorState,
           sensor' = [sensor EXCEPT ![i] = new],
           SensorOK(new, Config[i], accepted[i], now),
           UNCHANGED <<now, accepted>>
    PROVE  /\ sensor' \in [Sensors -> SensorState]
           /\ SensorsOK'
           /\ SlotOnce'
           /\ sensor'[i] = new
           /\ \A j \in Sensors : j # i => sensor'[j] = sensor[j]
BY DEF IInv, TypeOK, SensorsOK, SlotOnce

LEMMA StartReadStep == IInv /\ StartRead => IInv'
<1> SUFFICES ASSUME IInv, StartRead PROVE IInv'
  OBVIOUS
<1> USE DEF IInv, StartRead, historyVars
<1> DEFINE new == Cleaned(sensor[turn], Config[turn], current)
<1>1. /\ turn \in Sensors /\ sensor[turn] \in SensorState
      /\ accepted[turn] \in SUBSET Nat /\ now \in Nat /\ current \in Nat
      /\ current <= now
      /\ SensorOK(sensor[turn], Config[turn], accepted[turn], now)
  BY DEF TypeOK, ClockOK, SensorsOK
<1>2. /\ new \in SensorState
      /\ SensorOK(new, Config[turn], accepted[turn], now)
      /\ new.lastMeasurement = sensor[turn].lastMeasurement
      /\ new.readFailures = sensor[turn].readFailures
  <2> HIDE DEF IInv, StartRead, historyVars
  <2> DEFINE cfg == Config[turn]
             s   == sensor[turn]
             acc == accepted[turn]
  <2>1. cfg \in SensorConfig
    BY <1>1, ConfigOf
  <2>2. /\ s \in SensorState /\ acc \in SUBSET Nat /\ now \in Nat /\ current \in Nat
        /\ current <= now /\ SensorOK(s, cfg, acc, now)
    BY <1>1
  <2>3. new = Cleaned(s, cfg, current)
    OBVIOUS
  <2> HIDE DEF cfg, s, acc, new
  <2>4. /\ new \in SensorState
        /\ SensorOK(new, cfg, acc, now)
        /\ new.lastMeasurement = s.lastMeasurement
        /\ new.readFailures = s.readFailures
    BY <2>1, <2>2, <2>3, CleanedOK
  <2> QED
    BY <2>4 DEF cfg, s, acc
<1> HIDE DEF new
<1>3. /\ sensor' \in [Sensors -> SensorState]
      /\ SensorsOK' /\ SlotOnce'
      /\ sensor'[turn] = new
      /\ \A j \in Sensors : j # turn => sensor'[j] = sensor[j]
  BY <1>1, <1>2, OneSensorStep DEF new
<1>4. TypeOK' /\ ClockOK'
  BY <1>3 DEF TypeOK, Phases, ClockOK
<1>5. \A j \in Sensors : /\ sensor'[j].lastMeasurement = sensor[j].lastMeasurement
                         /\ sensor'[j].readFailures = sensor[j].readFailures
  BY <1>2, <1>3
<1>6. PassOK'
  <2>1. sensor[turn].lastMeasurement <= current
    <3>1. turn <= turn
      BY <1>1 DEF Sensors
    <3> QED
      BY <1>1, <3>1 DEF PassOK, Ahead
  <2>2. sensor[turn].lastMeasurement + Config[turn].rest <= current
    <3>1. sensor[turn].lastMeasurement \in Nat
      BY <1>1 DEF SensorState
    <3> QED
      BY <1>1, <2>1, <3>1, ConfigOf DEF Due, Rested, TimeDiff
  <2>3. \A j \in Sensors : Ahead(j)' => Ahead(j)
    BY DEF Ahead
  <2> QED
    BY <1>1, <1>5, <2>2, <2>3 DEF PassOK
<1>7. StreakOK' /\ FailuresCounted' /\ RetryInTime'
  BY <1>5 DEF StreakOK, FailuresCounted, RetryInTime, RetryOpens
<1> QED
  BY <1>3, <1>4, <1>6, <1>7

(***************************************************************************)
(* What holds of the sensor whose reading is under way.                    *)
(***************************************************************************)
LEMMA Reading ==
    ASSUME IInv, phase = "reading"
    PROVE  /\ turn \in Sensors
           /\ Kind[turn] \in PolledKinds
           /\ sensor[turn] \in SensorState
           /\ accepted[turn] \in SUBSET Nat
           /\ now \in Nat /\ current \in Nat /\ current <= now
           /\ Config[turn].rest + Config[turn].keep < now
           /\ sensor[turn].lastMeasurement + Config[turn].rest <= current
           /\ SensorOK(sensor[turn], Config[turn], accepted[turn], now)
           /\ Rested(sensor[turn], Config[turn], now)
<1> USE DEF IInv
<1>1. /\ turn \in Sensors /\ sensor[turn] \in SensorState
      /\ accepted[turn] \in SUBSET Nat /\ now \in Nat /\ current \in Nat
      /\ current <= now /\ StartTime <= now
      /\ SensorOK(sensor[turn], Config[turn], accepted[turn], now)
      /\ Kind[turn] \in PolledKinds
      /\ sensor[turn].lastMeasurement + Config[turn].rest <= current
  BY AcquisitionAssumption DEF TypeOK, ClockOK, SensorsOK, PassOK
<1>2. sensor[turn].lastMeasurement \in Nat /\ Config[turn].rest \in Nat
  BY <1>1, ConfigOf DEF SensorState
<1>3. Rested(sensor[turn], Config[turn], now)
  BY <1>1, <1>2 DEF Rested, TimeDiff
<1>4. Config[turn].rest + Config[turn].keep < now
  BY <1>1, ConfigOf
<1> QED
  BY <1>1, <1>3, <1>4

LEMMA ReadFailStep == IInv /\ ReadFail => IInv'
<1> SUFFICES ASSUME IInv, ReadFail PROVE IInv'
  OBVIOUS
<1> USE DEF IInv, ReadFail
<1> DEFINE failed == AddReadFailure(sensor[turn], Config[turn], now)
           new    == AfterReadFailure(turn)
<1>1. /\ turn \in Sensors /\ sensor[turn] \in SensorState
      /\ Kind[turn] \in PolledKinds
      /\ accepted[turn] \in SUBSET Nat /\ now \in Nat /\ current \in Nat
      /\ current <= now
      /\ sensor[turn].lastMeasurement + Config[turn].rest <= current
      /\ SensorOK(sensor[turn], Config[turn], accepted[turn], now)
  BY Reading
<1>2. /\ failed \in SensorState
      /\ SensorOK(failed, Config[turn], accepted[turn], now)
      /\ failed.readFailures = sensor[turn].readFailures + 1
      /\ failed.lastMeasurement + Config[turn].rest
             <= now + Lesser(Config[turn].retry, Config[turn].rest)
  BY <1>1, Reading, ConfigOf, FailedOK
<1>3. /\ new \in SensorState
      /\ SensorOK(new, Config[turn], accepted[turn], now)
      /\ new.readFailures = sensor[turn].readFailures + 1
      /\ Kind[turn] # "tinkerforge" => new = failed
  <2>1. CASE Kind[turn] # "tinkerforge"
    BY <1>2, <2>1 DEF AfterReadFailure
  <2>2. CASE Kind[turn] = "tinkerforge"
    <3>1. new = [failed EXCEPT !.lastMeasurement = current]
      BY <2>2 DEF AfterReadFailure
    <3> HIDE DEF failed, new
    <3>2. /\ new \in SensorState
          /\ new.lastMeasurement = current
          /\ new.stored = failed.stored
          /\ new.readFailures = failed.readFailures
      BY <1>1, <1>2, <3>1 DEF SensorState
    <3>3. GateOK(new, Config[turn], accepted[turn], now)
      <4> SUFFICES ASSUME NEW a \in accepted[turn]
                   PROVE  a <= now /\ SlotOf(a, Config[turn]) <= current
        BY <1>1, <3>2 DEF GateOK
      <4>1. a <= now /\ SlotOf(a, Config[turn]) <= sensor[turn].lastMeasurement
        BY <1>1 DEF SensorOK, GateOK
      <4>2. SlotOf(a, Config[turn]) \in Nat
        BY <1>1, ConfigOf, SlotBounds DEF SlotOf
      <4>3. sensor[turn].lastMeasurement \in Nat /\ Config[turn].rest \in Nat
        BY <1>1, ConfigOf DEF SensorState
      <4> QED
        BY <1>1, <4>1, <4>2, <4>3
    <3>4. StoreOK(new, Config[turn], accepted[turn])
          /\ NewestOK(new, Config[turn], accepted[turn], now)
      BY <1>2, <3>2 DEF SensorOK, StoreOK, NewestOK
    <3> QED
      BY <1>2, <2>2, <3>2, <3>3, <3>4 DEF SensorOK
  <2> QED
    BY <2>1, <2>2
<1> HIDE DEF failed, new
<1>4. /\ sensor' \in [Sensors -> SensorState]
      /\ SensorsOK' /\ SlotOnce'
      /\ sensor'[turn] = new
      /\ \A j \in Sensors : j # turn => sensor'[j] = sensor[j]
  BY <1>1, <1>3, OneSensorStep DEF new
<1>5. /\ turn' \in Sensors /\ phase' \in {"measure", "check"} /\ current' = current
      /\ \A j \in Sensors : Ahead(j)' => Ahead(j) /\ j # turn
  BY <1>1, GoOnStep
<1>6. TypeOK' /\ ClockOK'
  BY <1>1, <1>4, <1>5 DEF TypeOK, Phases, ClockOK
<1>7. PassOK'
  BY <1>4, <1>5 DEF PassOK
<1>8. StreakOK' /\ FailuresCounted'
  BY <1>1, <1>3, <1>4 DEF StreakOK, FailuresCounted, TypeOK, PolledKinds, EventKinds
<1>9. RetryInTime'
  BY <1>1, <1>2, <1>3, <1>4 DEF RetryInTime, RetryOpens, TypeOK
<1> QED
  BY <1>4, <1>6, <1>7, <1>8, <1>9

LEMMA UnreachableStep == IInv /\ Unreachable => IInv'
<1> SUFFICES ASSUME IInv, Unreachable PROVE IInv'
  OBVIOUS
<1> USE DEF IInv, Unreachable
<1> DEFINE new == [sensor[turn] EXCEPT !.lastMeasurement = current]
<1>1. /\ turn \in Sensors /\ sensor[turn] \in SensorState
      /\ accepted[turn] \in SUBSET Nat /\ now \in Nat /\ current \in Nat
      /\ current <= now
      /\ sensor[turn].lastMeasurement + Config[turn].rest <= current
      /\ SensorOK(sensor[turn], Config[turn], accepted[turn], now)
  BY Reading
<1>2. /\ new \in SensorState
      /\ new.lastMeasurement = current
      /\ new.stored = sensor[turn].stored
      /\ new.readFailures = sensor[turn].readFailures
  BY <1>1 DEF SensorState
<1>3. SensorOK(new, Config[turn], accepted[turn], now)
  <2>1. GateOK(new, Config[turn], accepted[turn], now)
    <3> SUFFICES ASSUME NEW a \in accepted[turn]
                 PROVE  a <= now /\ SlotOf(a, Config[turn]) <= current
      BY <1>1, <1>2 DEF GateOK
    <3>1. a <= now /\ SlotOf(a, Config[turn]) <= sensor[turn].lastMeasurement
      BY <1>1 DEF SensorOK, GateOK
    <3>2. SlotOf(a, Config[turn]) \in Nat
      BY <1>1, ConfigOf, SlotBounds DEF SlotOf
    <3>3. sensor[turn].lastMeasurement \in Nat /\ Config[turn].rest \in Nat
      BY <1>1, ConfigOf DEF SensorState
    <3> QED
      BY <1>1, <3>1, <3>2, <3>3
  <2>2. StoreOK(new, Config[turn], accepted[turn])
        /\ NewestOK(new, Config[turn], accepted[turn], now)
    BY <1>1, <1>2 DEF SensorOK, StoreOK, NewestOK
  <2> QED
    BY <2>1, <2>2 DEF SensorOK
<1>4. sensor' = [sensor EXCEPT ![turn] = new]
  BY <1>1 DEF TypeOK
<1> HIDE DEF new
<1>5. /\ sensor' \in [Sensors -> SensorState]
      /\ SensorsOK' /\ SlotOnce'
      /\ sensor'[turn] = new
      /\ \A j \in Sensors : j # turn => sensor'[j] = sensor[j]
  BY <1>1, <1>2, <1>3, <1>4, OneSensorStep
<1>6. /\ turn' \in Sensors /\ phase' \in {"measure", "check"} /\ current' = current
      /\ \A j \in Sensors : Ahead(j)' => Ahead(j) /\ j # turn
  BY <1>1, GoOnStep
<1>7. TypeOK' /\ ClockOK'
  BY <1>1, <1>5, <1>6 DEF TypeOK, Phases, ClockOK
<1>8. PassOK'
  BY <1>5, <1>6 DEF PassOK
<1>9. StreakOK' /\ FailuresCounted'
  BY <1>1, <1>2, <1>5 DEF StreakOK, FailuresCounted
<1>10. RetryInTime'
  BY <1>1, <1>5 DEF RetryInTime, RetryOpens, TypeOK
<1> QED
  BY <1>5, <1>7, <1>8, <1>9, <1>10

LEMMA PublishDoneStep == IInv /\ PublishDone => IInv'
<1> SUFFICES ASSUME IInv, PublishDone PROVE IInv'
  OBVIOUS
<1> USE DEF IInv, PublishDone
<1> DEFINE new == [sensor[turn] EXCEPT !.lastValuePublished = TRUE]
<1>1. /\ turn \in Sensors /\ sensor[turn] \in SensorState
      /\ SensorOK(sensor[turn], Config[turn], accepted[turn], now)
  BY DEF TypeOK, SensorsOK
<1>2. /\ new \in SensorState
      /\ new.lastMeasurement = sensor[turn].lastMeasurement
      /\ new.stored = sensor[turn].stored
      /\ new.readFailures = sensor[turn].readFailures
  BY <1>1 DEF SensorState
<1>3. SensorOK(new, Config[turn], accepted[turn], now)
  BY <1>1, <1>2 DEF SensorOK, GateOK, StoreOK, NewestOK
<1>4. sensor' = [sensor EXCEPT ![turn] = new]
  BY <1>1 DEF TypeOK
<1> HIDE DEF new
<1>5. /\ sensor' \in [Sensors -> SensorState]
      /\ SensorsOK' /\ SlotOnce'
      /\ sensor'[turn] = new
      /\ \A j \in Sensors : j # turn => sensor'[j] = sensor[j]
  BY <1>1, <1>2, <1>3, <1>4, OneSensorStep
<1>6. /\ turn' \in Sensors /\ phase' \in {"measure", "check"} /\ current' = current
      /\ \A j \in Sensors : Ahead(j)' => Ahead(j) /\ j # turn
  BY <1>1, GoOnStep
<1>7. TypeOK' /\ ClockOK'
  BY <1>1, <1>5, <1>6 DEF TypeOK, Phases, ClockOK
<1>8. PassOK'
  BY <1>2, <1>5, <1>6 DEF PassOK
<1>9. StreakOK' /\ FailuresCounted' /\ RetryInTime'
  BY <1>2, <1>5 DEF StreakOK, FailuresCounted, RetryInTime, RetryOpens
<1> QED
  BY <1>5, <1>7, <1>8, <1>9

LEMMA CheckReadFailuresStep == IInv /\ CheckReadFailures => IInv'
<1> SUFFICES ASSUME IInv, CheckReadFailures PROVE IInv'
  OBVIOUS
<1> USE DEF IInv, CheckReadFailures
<1>1. \A i \in Sensors : /\ sensor'[i] \in SensorState
                         /\ sensor'[i].lastMeasurement = sensor[i].lastMeasurement
                         /\ sensor'[i].stored = sensor[i].stored
  <2> SUFFICES ASSUME NEW i \in Sensors
               PROVE  /\ sensor'[i] \in SensorState
                      /\ sensor'[i].lastMeasurement = sensor[i].lastMeasurement
                      /\ sensor'[i].stored = sensor[i].stored
    OBVIOUS
  <2>1. sensor[i] \in SensorState
    BY DEF TypeOK
  <2>2. sensor'[i] \in {sensor[i], [sensor[i] EXCEPT !.readFailures = 0]}
    BY DEF ResetReadFailures
  <2> HIDE DEF IInv, CheckReadFailures
  <2> QED
    BY <2>1, <2>2 DEF SensorState
<1>2. sensor' \in [Sensors -> SensorState] /\ streak' \in [Sensors -> Nat]
  BY <1>1 DEF TypeOK
<1>3. TypeOK' /\ ClockOK'
  BY <1>2 DEF TypeOK, Phases, ClockOK
<1>4. SensorsOK'
  BY <1>1 DEF SensorsOK, SensorOK, GateOK, StoreOK, NewestOK
<1>5. PassOK'
  BY DEF PassOK, Ahead
<1>6. StreakOK' /\ FailuresCounted'
  BY DEF StreakOK, FailuresCounted, ResetReadFailures, TypeOK, SensorState
<1>7. SlotOnce' /\ RetryInTime'
  BY <1>1 DEF SlotOnce, RetryInTime, RetryOpens
<1> QED
  BY <1>3, <1>4, <1>5, <1>6, <1>7

-----------------------------------------------------------------------------
(***************************************************************************)
(* addRawMeasurement() on sensor i, with the gate open and with the gate   *)
(* closed.  new is the sensor after it, whose flag may be set already.     *)
(***************************************************************************)
LEMMA AcceptStep ==
    ASSUME IInv, NEW i \in Sensors, Rested(sensor[i], Config[i], now),
           NEW new \in SensorState,
           new.lastMeasurement
               = AddRawMeasurement(sensor[i], Config[i], now).lastMeasurement,
           new.stored = AddRawMeasurement(sensor[i], Config[i], now).stored,
           sensor' = [sensor EXCEPT ![i] = new],
           accepted' = [accepted EXCEPT ![i] = @ \cup {now}],
           now' = now
    PROVE  /\ sensor' \in [Sensors -> SensorState]
           /\ accepted' \in [Sensors -> SUBSET Nat]
           /\ SensorsOK'
           /\ SlotOnce'
           /\ sensor'[i] = new
           /\ \A j \in Sensors : j # i => sensor'[j] = sensor[j]
<1> DEFINE rec == AddRawMeasurement(sensor[i], Config[i], now)
<1>1. /\ Config[i] \in SensorConfig /\ sensor[i] \in SensorState
      /\ accepted[i] \in SUBSET Nat /\ now \in Nat
      /\ sensor \in [Sensors -> SensorState] /\ accepted \in [Sensors -> SUBSET Nat]
      /\ Config[i].rest + Config[i].keep < now
      /\ SensorOK(sensor[i], Config[i], accepted[i], now)
  BY ConfigOf, AcquisitionAssumption DEF IInv, TypeOK, ClockOK, SensorsOK
<1>2. /\ SensorOK(rec, Config[i], accepted[i] \cup {now}, now)
      /\ \A a \in accepted[i] : SlotOf(a, Config[i]) < SlotOf(now, Config[i])
  BY <1>1, RecordedOK
<1> HIDE DEF rec
<1>3. SensorOK(new, Config[i], accepted[i] \cup {now}, now)
  BY <1>2 DEF SensorOK, GateOK, StoreOK, NewestOK, rec
<1>4. /\ sensor' \in [Sensors -> SensorState]
      /\ accepted' \in [Sensors -> SUBSET Nat]
      /\ sensor'[i] = new /\ accepted'[i] = accepted[i] \cup {now}
      /\ \A j \in Sensors : j # i => sensor'[j] = sensor[j] /\ accepted'[j] = accepted[j]
  BY <1>1
<1>5. SensorsOK'
  BY <1>3, <1>4 DEF IInv, SensorsOK
<1>6. SlotOnce'
  <2> SUFFICES ASSUME NEW j \in Sensors, NEW a \in accepted'[j], NEW b \in accepted'[j],
                      a # b
               PROVE  Timeslot(a, Config[j].rest) # Timeslot(b, Config[j].rest)
    BY DEF SlotOnce
  <2>1. CASE j # i
    BY <1>4, <2>1 DEF IInv, SlotOnce
  <2>2. CASE j = i
    <3>1. \A c \in accepted[i] :
            /\ Timeslot(c, Config[i].rest) < Timeslot(now, Config[i].rest)
            /\ Timeslot(c, Config[i].rest) \in Nat
            /\ Timeslot(now, Config[i].rest) \in Nat
      BY <1>1, <1>2, ConfigOf, SlotBounds DEF SlotOf
    <3>2. CASE a \in accepted[i] /\ b \in accepted[i]
      BY <2>2, <3>2 DEF IInv, SlotOnce
    <3>3. CASE a = now \/ b = now
      BY <1>4, <2>2, <3>1, <3>3
    <3> QED
      BY <1>4, <2>2, <3>2, <3>3
  <2> QED
    BY <2>1, <2>2
<1> QED
  BY <1>4, <1>5, <1>6

LEMMA RejectStep ==
    ASSUME IInv, NEW i \in Sensors, ~Rested(sensor[i], Config[i], now),
           sensor' = [sensor EXCEPT ![i] = AddRawMeasurement(sensor[i], Config[i], now)],
           UNCHANGED <<now, accepted>>
    PROVE  /\ sensor' \in [Sensors -> SensorState]
           /\ SensorsOK'
           /\ SlotOnce'
           /\ sensor'[i] = [sensor[i] EXCEPT !.readFailures = 0]
           /\ \A j \in Sensors : j # i => sensor'[j] = sensor[j]
<1> DEFINE new == [sensor[i] EXCEPT !.readFailures = 0]
<1>1. /\ sensor[i] \in SensorState
      /\ SensorOK(sensor[i], Config[i], accepted[i], now)
  BY DEF IInv, TypeOK, SensorsOK
<1>2. /\ new \in SensorState
      /\ new.lastMeasurement = sensor[i].lastMeasurement
      /\ new.stored = sensor[i].stored
  BY <1>1 DEF SensorState
<1>3. SensorOK(new, Config[i], accepted[i], now)
  BY <1>1, <1>2 DEF SensorOK, GateOK, StoreOK, NewestOK
<1>4. sensor' = [sensor EXCEPT ![i] = new]
  BY DEF AddRawMeasurement
<1> HIDE DEF new
<1>5. /\ sensor' \in [Sensors -> SensorState]
      /\ SensorsOK' /\ SlotOnce'
      /\ sensor'[i] = new
      /\ \A j \in Sensors : j # i => sensor'[j] = sensor[j]
  BY <1>2, <1>3, <1>4, OneSensorStep
<1> QED
  BY <1>5 DEF new

LEMMA ReadOkStep == IInv /\ ReadOk => IInv'
<1> SUFFICES ASSUME IInv, ReadOk PROVE IInv'
  OBVIOUS
<1> DEFINE new == AddRawMeasurement(sensor[turn], Config[turn], now)
<1>1. /\ turn \in Sensors /\ sensor[turn] \in SensorState
      /\ Kind[turn] \in PolledKinds
      /\ accepted[turn] \in SUBSET Nat /\ now \in Nat
      /\ Config[turn].rest + Config[turn].keep < now
      /\ SensorOK(sensor[turn], Config[turn], accepted[turn], now)
      /\ Rested(sensor[turn], Config[turn], now)
  BY Reading DEF ReadOk
<1>2. /\ new \in SensorState
      /\ new.readFailures = 0
  BY <1>1, ConfigOf, RecordedOK
<1> HIDE DEF new
<1>3. /\ sensor' = [sensor EXCEPT ![turn] = new]
      /\ accepted' = [accepted EXCEPT ![turn] = @ \cup {now}]
      /\ now' = now
      /\ failedAt' = [failedAt EXCEPT ![turn] = 0]
      /\ streak' = [streak EXCEPT ![turn] = 0]
      /\ phase = "reading" /\ phase' = "publish" /\ UNCHANGED <<current, turn>>
      /\ UNCHANGED <<mqtt, outgoing, delivered, fedBy>>
  BY <1>1 DEF ReadOk, Record, new
<1>4. /\ sensor' \in [Sensors -> SensorState]
      /\ accepted' \in [Sensors -> SUBSET Nat]
      /\ SensorsOK' /\ SlotOnce'
      /\ sensor'[turn] = new
      /\ \A j \in Sensors : j # turn => sensor'[j] = sensor[j]
  BY <1>1, <1>2, <1>3, AcceptStep DEF new
<1>5. TypeOK' /\ ClockOK'
  BY <1>3, <1>4 DEF IInv, TypeOK, Phases, ClockOK
<1>6. PassOK'
  <2>1. \A j \in Sensors : Ahead(j)' => Ahead(j) /\ j # turn
    BY <1>1, <1>3 DEF Ahead, Sensors
  <2> QED
    BY <1>3, <1>4, <2>1 DEF IInv, PassOK
<1>7. StreakOK' /\ FailuresCounted' /\ RetryInTime'
  BY <1>1, <1>2, <1>3, <1>4
     DEF IInv, TypeOK, StreakOK, FailuresCounted, RetryInTime, RetryOpens
<1> QED
  BY <1>4, <1>5, <1>6, <1>7 DEF IInv

(***************************************************************************)
(* What an event of another thread leaves alone.                           *)
(***************************************************************************)
LEMMA EventStep ==
    ASSUME IInv, NEW i \in Sensors, Kind[i] \in EventKinds,
           sensor' \in [Sensors -> SensorState],
           accepted' \in [Sensors -> SUBSET Nat],
           delivered' \in [Sensors -> Nat],
           fedBy' \in [Sensors -> SUBSET Brokers],
           mqtt' \in [Brokers -> MqttThread],
           SensorsOK', SlotOnce',
           sensor'[i].readFailures = 0,
           \A j \in Sensors : j # i => sensor'[j] = sensor[j],
           UNCHANGED <<now, mainVars, failedAt, streak>>
    PROVE  IInv'
<1> USE DEF IInv, mainVars
<1>1. \A j \in Sensors : Kind[j] \in PolledKinds => sensor'[j] = sensor[j]
  BY DEF PolledKinds, EventKinds
<1>2. TypeOK' /\ ClockOK'
  BY DEF TypeOK, ClockOK
<1>3. PassOK'
  BY <1>1 DEF PassOK, Ahead, TypeOK
<1>4. StreakOK' /\ FailuresCounted'
  BY DEF StreakOK, FailuresCounted
<1>5. RetryInTime'
  BY <1>1 DEF RetryInTime, RetryOpens, PolledKinds
<1> QED
  BY <1>2, <1>3, <1>4, <1>5

(***************************************************************************)
(* An accepted value is the newest one in the store.                       *)
(***************************************************************************)
LEMMA Accepted ==
    ASSUME IInv, NEW i \in Sensors, Rested(sensor[i], Config[i], now)
    PROVE  LET rec == AddRawMeasurement(sensor[i], Config[i], now)
           IN  /\ rec \in SensorState
               /\ rec.readFailures = 0
               /\ ~rec.lastValuePublished
               /\ SlotOf(now, Config[i]) \in Nat
               /\ SlotOf(now, Config[i]) \in rec.stored
               /\ LastTimestamp(rec.stored) = SlotOf(now, Config[i])
               /\ \A a \in accepted[i] : SlotOf(a, Config[i]) < SlotOf(now, Config[i])
<1> DEFINE rec == AddRawMeasurement(sensor[i], Config[i], now)
<1>1. /\ Config[i] \in SensorConfig /\ sensor[i] \in SensorState
      /\ accepted[i] \in SUBSET Nat /\ now \in Nat
      /\ Config[i].rest + Config[i].keep < now
      /\ SensorOK(sensor[i], Config[i], accepted[i], now)
  BY ConfigOf DEF IInv, TypeOK, ClockOK, SensorsOK
<1>2. /\ rec \in SensorState
      /\ rec.readFailures = 0
      /\ ~rec.lastValuePublished
      /\ SlotOf(now, Config[i]) \in rec.stored
      /\ \A u \in rec.stored : u <= SlotOf(now, Config[i])
      /\ \A a \in accepted[i] : SlotOf(a, Config[i]) < SlotOf(now, Config[i])
  BY <1>1, RecordedOK
<1> HIDE DEF rec
<1>3. rec.stored \in SUBSET Nat
  BY <1>2 DEF SensorState
<1>4. Newest(rec.stored) = SlotOf(now, Config[i])
  BY <1>2, <1>3, NewestIs
<1>5. LastTimestamp(rec.stored) = SlotOf(now, Config[i])
  BY <1>2, <1>4 DEF LastTimestamp
<1> QED
  BY <1>2, <1>3, <1>5 DEF rec

LEMMA RecordEventStep ==
    ASSUME IInv, NEW i \in Sensors, Kind[i] \in EventKinds, Record(i),
           mqtt' \in [Brokers -> MqttThread],
           fedBy' \in [Sensors -> SUBSET Brokers],
           UNCHANGED <<now, mainVars, failedAt, streak, delivered>>
    PROVE  IInv'
<1> DEFINE new == AddRawMeasurement(sensor[i], Config[i], now)
<1>1. /\ sensor' = [sensor EXCEPT ![i] = new]
      /\ delivered' \in [Sensors -> Nat]
      /\ sensor[i] \in SensorState
      /\ accepted \in [Sensors -> SUBSET Nat]
  BY DEF Record, IInv, TypeOK
<1>2. CASE Rested(sensor[i], Config[i], now)
  <2>1. new \in SensorState /\ new.readFailures = 0
    BY <1>2, Accepted
  <2>2. accepted' = [accepted EXCEPT ![i] = @ \cup {now}] /\ now' = now
    BY <1>2 DEF Record
  <2> HIDE DEF new
  <2>3. /\ sensor' \in [Sensors -> SensorState]
        /\ accepted' \in [Sensors -> SUBSET Nat]
        /\ SensorsOK' /\ SlotOnce'
        /\ sensor'[i] = new
        /\ \A j \in Sensors : j # i => sensor'[j] = sensor[j]
    BY <1>1, <1>2, <2>1, <2>2, AcceptStep DEF new
  <2> QED
    BY <1>1, <2>1, <2>3, EventStep
<1>3. CASE ~Rested(sensor[i], Config[i], now)
  <2>1. UNCHANGED <<now, accepted>>
    BY <1>3 DEF Record
  <2>2. /\ sensor' \in [Sensors -> SensorState]
        /\ SensorsOK' /\ SlotOnce'
        /\ sensor'[i] = [sensor[i] EXCEPT !.readFailures = 0]
        /\ \A j \in Sensors : j # i => sensor'[j] = sensor[j]
    BY <1>1, <1>3, <2>1, RejectStep
  <2>3. sensor'[i].readFailures = 0
    BY <1>1, <2>2 DEF SensorState
  <2> QED
    BY <1>1, <2>1, <2>2, <2>3, EventStep
<1> QED
  BY <1>2, <1>3

LEMMA CallbackEventStep ==
    ASSUME IInv, NEW i \in Sensors, CallbackEvent(i)
    PROVE  IInv'
BY RecordEventStep DEF CallbackEvent, EventKinds, IInv, TypeOK

(***************************************************************************)
(* The threads of the brokers.                                             *)
(***************************************************************************)
LEMMA MessageArrivedStep ==
    ASSUME IInv, NEW b \in Brokers, NEW i \in Sensors, MessageArrived(b, i)
    PROVE  IInv'
<1>1. /\ mqtt' \in [Brokers -> MqttThread]
      /\ fedBy' \in [Sensors -> SUBSET Brokers]
  BY DEF MessageArrived, MqttThread, IInv, TypeOK
<1> QED
  BY <1>1, RecordEventStep DEF MessageArrived, EventKinds

(* A thread of a broker that has not changed a sensor.                     *)
LEMMA QuietThreadStep ==
    ASSUME IInv, mqtt' \in [Brokers -> MqttThread],
           UNCHANGED <<now, mainVars, sensor, historyVars>>
    PROVE  IInv'
<1>1. TypeOK' /\ ClockOK' /\ PassOK'
  BY DEF IInv, TypeOK, ClockOK, PassOK, Ahead, mainVars, historyVars
<1> QED
  BY <1>1, QuietStep DEF historyVars

LEMMA MessageUnpublishedStep ==
    ASSUME IInv, NEW b \in Brokers, MessageUnpublished(b)
    PROVE  IInv'
<1>1. 1 \in Sensors
  BY AcquisitionAssumption DEF Sensors
<1>2. mqtt' \in [Brokers -> MqttThread]
  BY <1>1 DEF MessageUnpublished, MqttThread, IdleThread, IInv, TypeOK
<1> QED
  BY <1>2, QuietThreadStep DEF MessageUnpublished

LEMMA MessageReadStep ==
    ASSUME IInv, NEW b \in Brokers, MessageRead(b)
    PROVE  IInv'
<1> DEFINE i == mqtt[b].on
<1>1. /\ mqtt \in [Brokers -> MqttThread]
      /\ mqtt[b] \in MqttThread /\ i \in Sensors
  BY DEF IInv, TypeOK, MqttThread
<1>2. sensor[i].stored \in SUBSET Nat /\ HasNewest(sensor[i].stored)
  BY <1>1 DEF MessageRead, IInv, TypeOK, SensorState, SensorsOK, SensorOK, StoreOK
<1>3. PICK t \in sensor[i].stored : \A u \in sensor[i].stored : u <= t
  BY <1>2 DEF HasNewest, MessageRead
<1> DEFINE read == LastTimestamp(sensor[i].stored)
<1>4. read \in Nat
  BY <1>2, <1>3, NewestIs DEF LastTimestamp
<1>5. mqtt' = [mqtt EXCEPT ![b] = [mqtt[b] EXCEPT !.at = "publishing", !.outgoing = read]]
  BY <1>1 DEF MessageRead
<1> HIDE DEF read, i
<1>6. [mqtt[b] EXCEPT !.at = "publishing", !.outgoing = read] \in MqttThread
  BY <1>1, <1>4 DEF MqttThread
<1>7. mqtt' \in [Brokers -> MqttThread]
  BY <1>1, <1>5, <1>6
<1> QED
  BY <1>7, QuietThreadStep DEF MessageRead

LEMMA MessageDoneStep ==
    ASSUME IInv, NEW b \in Brokers, MessageDone(b)
    PROVE  IInv'
<1> USE DEF IInv
<1> DEFINE i   == mqtt[b].on
           new == [sensor[i] EXCEPT !.lastValuePublished = TRUE]
<1>1. /\ i \in Sensors /\ mqtt[b].outgoing \in Nat /\ sensor[i] \in SensorState
      /\ SensorOK(sensor[i], Config[i], accepted[i], now)
      /\ mqtt' \in [Brokers -> MqttThread]
  <2>1. 1 \in Sensors
    BY AcquisitionAssumption DEF Sensors
  <2>2. mqtt[b] \in MqttThread /\ IdleThread \in MqttThread
    BY <2>1 DEF TypeOK, MqttThread, IdleThread
  <2> QED
    BY <2>2 DEF TypeOK, SensorsOK, MqttThread, MessageDone
<1>2. /\ sensor' = [sensor EXCEPT ![i] = new]
      /\ delivered' \in [Sensors -> Nat]
      /\ UNCHANGED <<now, mainVars, accepted, failedAt, streak, fedBy>>
  BY <1>1 DEF TypeOK, MessageDone
<1> HIDE DEF i
<1>3. /\ new \in SensorState
      /\ new.lastMeasurement = sensor[i].lastMeasurement
      /\ new.stored = sensor[i].stored
      /\ new.readFailures = sensor[i].readFailures
  BY <1>1 DEF SensorState
<1>4. SensorOK(new, Config[i], accepted[i], now)
  BY <1>1, <1>3 DEF SensorOK, GateOK, StoreOK, NewestOK
<1> HIDE DEF new
<1>5. /\ sensor' \in [Sensors -> SensorState]
      /\ SensorsOK' /\ SlotOnce'
      /\ sensor'[i] = new
      /\ \A j \in Sensors : j # i => sensor'[j] = sensor[j]
  BY <1>1, <1>2, <1>3, <1>4, OneSensorStep
<1>6. TypeOK' /\ ClockOK'
  BY <1>1, <1>2, <1>5 DEF TypeOK, ClockOK, mainVars
<1>7. PassOK'
  BY <1>2, <1>3, <1>5 DEF PassOK, Ahead, mainVars, TypeOK
<1>8. StreakOK' /\ FailuresCounted' /\ RetryInTime'
  BY <1>2, <1>3, <1>5 DEF StreakOK, FailuresCounted, RetryInTime, RetryOpens
<1> QED
  BY <1>5, <1>6, <1>7, <1>8

LEMMA MqttThreadStep ==
    ASSUME IInv, NEW b \in Brokers, MqttStep(b)
    PROVE  IInv'
BY MessageArrivedStep, MessageUnpublishedStep, MessageReadStep, MessageDoneStep DEF MqttStep

-----------------------------------------------------------------------------
LEMMA StutterStep == IInv /\ UNCHANGED vars => IInv'
BY DEF vars, mainVars, historyVars, IInv, TypeOK, ClockOK, SensorsOK, PassOK, Ahead,
       StreakOK, SlotOnce, FailuresCounted, RetryInTime, RetryOpens

(***************************************************************************)
(* IInv holds in every reachable state.                                    *)
(***************************************************************************)
THEOREM Invariance == Spec => []IInv
<1>1. Init => IInv
  BY InitInvariant
<1>2. IInv /\ [Next]_vars => IInv'
  <2> SUFFICES ASSUME IInv, [Next]_vars PROVE IInv'
    OBVIOUS
  <2>1. CASE MainStep
    BY <2>1, TriggerStep, SkipStep, MeasureCallbackStep, StartReadStep, ReadOkStep,
       ReadFailStep, UnreachableStep, ReadNothingStep, PublishNothingStep,
       PublishReadStep, PublishDoneStep, CheckReadFailuresStep DEF MainStep
  <2>2. CASE \/ \E i \in Sensors : CallbackEvent(i)
            \/ \E b \in Brokers : MqttStep(b)
    BY <2>2, CallbackEventStep, MqttThreadStep
  <2>3. CASE Tick
    BY <2>3, TickStep
  <2>4. CASE UNCHANGED vars
    BY <2>4, StutterStep
  <2> QED
    BY <2>1, <2>2, <2>3, <2>4 DEF Next
<1> QED
  BY <1>1, <1>2, PTL DEF Spec

(***************************************************************************)
(* Every variable keeps its type.                                          *)
(***************************************************************************)
THEOREM TypeCorrect == Spec => []TypeOK
BY Invariance, PTL DEF IInv

(***************************************************************************)
(* No slot of the rest period is recorded twice (addRawMeasurement, with   *)
(* the gate moved by addReadFailure and sensorTinkerforge::measure).       *)
(***************************************************************************)
THEOREM OneMeasurementPerSlot == Spec => []SlotOnce
BY Invariance, PTL DEF IInv

(***************************************************************************)
(* A reading that was asked for is counted as a measurement or a failure,  *)
(* whatever time it took (the two rest checks of a polled sensor agree).   *)
(***************************************************************************)
THEOREM ReadingsAreTaken == Spec => []ReadingIsTaken
<1>1. IInv => ReadingIsTaken
  BY Reading DEF ReadingIsTaken
<1> QED
  BY <1>1, Invariance, PTL

(***************************************************************************)
(* _nReadFailures counts the failed attempts in a row, no more and no less.*)
(***************************************************************************)
THEOREM FailuresAreCounted == Spec => []FailuresCounted
BY Invariance, PTL DEF IInv

(***************************************************************************)
(* The newest recorded measurement stays in the store for its retention    *)
(* time, whatever MAX_MEASUREMENTS is (addValue, clean).                   *)
(***************************************************************************)
THEOREM NewestIsRetained == Spec => []NewestRetained
<1>1. IInv => NewestRetained
  <2> SUFFICES ASSUME IInv, NEW i \in Sensors, NEW t \in Slots(i),
                      \A u \in Slots(i) : u <= t
               PROVE  \/ t \in sensor[i].stored /\ \A u \in sensor[i].stored : u <= t
                      \/ t < now - Config[i].keep
    BY DEF NewestRetained
  <2>1. SensorOK(sensor[i], Config[i], accepted[i], now)
    BY DEF IInv, SensorsOK
  <2>2. \A u \in sensor[i].stored : u \in Slots(i)
    BY <2>1 DEF SensorOK, StoreOK, Slots, SlotOf
  <2>3. PICK a \in accepted[i] : t = SlotOf(a, Config[i])
    BY DEF Slots, SlotOf
  <2>4. \A b \in accepted[i] : SlotOf(b, Config[i]) <= SlotOf(a, Config[i])
    BY <2>3 DEF Slots, SlotOf
  <2> QED
    BY <2>1, <2>2, <2>3, <2>4 DEF SensorOK, NewestOK
<1> QED
  BY <1>1, Invariance, PTL

(***************************************************************************)
(* JSON and HomeMatic sensors: the gate reopens within the retry time of a *)
(* failure (addReadFailure).                                               *)
(***************************************************************************)
THEOREM RetriesInTime == Spec => []RetryInTime
BY Invariance, PTL DEF IInv

-----------------------------------------------------------------------------
(***************************************************************************)
(* Publication.  Beside IInv: a store that is not empty holds the newest   *)
(* recorded measurement; the value on its way to the brokers is the newest *)
(* of its sensor, since a polled sensor records nothing while the main     *)
(* thread publishes; the main thread publishes for no MQTT sensor, and the *)
(* thread of a broker for no other, nor does it take the next message      *)
(* before it has published.                                                *)
(***************************************************************************)
IsLatest(i, u) ==
    /\ \E a \in accepted[i] : u = SlotOf(a, Config[i])
    /\ \A a \in accepted[i] : SlotOf(a, Config[i]) <= u

StoredOK(i) == sensor[i].stored # {} => \E u \in sensor[i].stored : IsLatest(i, u)

DeliveredOK(i) ==
    OneThread(i) /\ sensor[i].lastValuePublished => IsLatest(i, delivered[i])

OutgoingOK ==
    phase = "publishing" /\ Kind[turn] # "callback" => IsLatest(turn, outgoing)

TurnOK == phase \in {"reading", "publish", "publishing"} => Kind[turn] # "mqtt"

MqttOK(b) ==
    /\ mqtt[b].at # "idle" =>
          Kind[mqtt[b].on] = "mqtt" /\ b \in fedBy[mqtt[b].on]
    /\ mqtt[b].at = "publishing" /\ OneThread(mqtt[b].on) =>
          IsLatest(mqtt[b].on, mqtt[b].outgoing)

PInv ==
    /\ IInv
    /\ \A i \in Sensors : StoredOK(i) /\ DeliveredOK(i)
    /\ OutgoingOK
    /\ TurnOK
    /\ \A b \in Brokers : MqttOK(b)

(* What clean() leaves of a store still holds the newest measurement.      *)
LEMMA CleanKeepsLatest ==
    ASSUME IInv, NEW i \in Sensors, StoredOK(i), NEW e \in Int,
           Clean(sensor[i].stored, e) # {}
    PROVE  \E u \in Clean(sensor[i].stored, e) : IsLatest(i, u)
<1>1. /\ sensor[i].stored \in SUBSET Nat /\ accepted[i] \in SUBSET Nat
      /\ \A v \in sensor[i].stored : \E a \in accepted[i] : v = SlotOf(a, Config[i])
  BY DEF IInv, TypeOK, SensorState, SensorsOK, SensorOK, StoreOK
<1>2. PICK u \in sensor[i].stored : IsLatest(i, u)
  BY DEF Clean, StoredOK
<1>3. PICK v \in sensor[i].stored : v >= e
  BY DEF Clean
<1>4. v <= u /\ u \in Nat /\ v \in Nat
  BY <1>1, <1>2, <1>3 DEF IsLatest
<1>5. u \in Clean(sensor[i].stored, e)
  BY <1>3, <1>4 DEF Clean
<1> QED
  BY <1>2, <1>5

(* Steps that record nothing and publish nothing.                          *)
LEMMA UnrecordedStep ==
    ASSUME PInv, IInv', UNCHANGED <<accepted, delivered, fedBy, mqtt>>, phase' # "publishing",
           TurnOK',
           \A i \in Sensors :
               /\ sensor'[i].lastValuePublished = sensor[i].lastValuePublished
               /\ \/ sensor'[i].stored = sensor[i].stored
                  \/ \E e \in Int : sensor'[i].stored = Clean(sensor[i].stored, e)
    PROVE  PInv'
<1>1. ASSUME NEW i \in Sensors PROVE StoredOK(i)'
  <2>1. CASE sensor'[i].stored = sensor[i].stored
    BY <2>1 DEF PInv, StoredOK, IsLatest
  <2>2. ASSUME NEW e \in Int, sensor'[i].stored = Clean(sensor[i].stored, e)
        PROVE  StoredOK(i)'
    <3>1. Clean(sensor[i].stored, e) # {} =>
             \E u \in Clean(sensor[i].stored, e) : IsLatest(i, u)
      BY CleanKeepsLatest DEF PInv
    <3> QED
      BY <2>2, <3>1 DEF StoredOK, IsLatest
  <2> QED
    BY <2>1, <2>2
<1>2. ASSUME NEW i \in Sensors PROVE DeliveredOK(i)'
  BY DEF PInv, DeliveredOK, OneThread, IsLatest
<1>3. OutgoingOK'
  BY DEF OutgoingOK
<1>4. \A b \in Brokers : MqttOK(b)'
  BY DEF PInv, MqttOK, IsLatest, OneThread
<1> QED
  BY <1>1, <1>2, <1>3, <1>4 DEF PInv

(* Steps that leave all sensors as they are.                               *)
LEMMA UntouchedStep ==
    ASSUME PInv, IInv', UNCHANGED <<sensor, accepted, delivered, fedBy, mqtt>>, TurnOK',
           phase' = "publishing" => phase = "publishing" /\ UNCHANGED <<turn, outgoing>>
    PROVE  PInv'
<1>1. ASSUME NEW i \in Sensors PROVE StoredOK(i)' /\ DeliveredOK(i)'
  BY DEF PInv, StoredOK, DeliveredOK, OneThread, IsLatest
<1>2. OutgoingOK'
  BY DEF PInv, OutgoingOK, IsLatest
<1>3. \A b \in Brokers : MqttOK(b)'
  BY DEF PInv, MqttOK, OneThread, IsLatest
<1> QED
  BY <1>1, <1>2, <1>3 DEF PInv

LEMMA GoOnTurn == GoOn => TurnOK' /\ phase' # "publishing"
BY DEF GoOn, TurnOK

LEMMA UntouchedSteps ==
    ASSUME PInv, IInv',
           \/ Trigger \/ Skip \/ MeasureCallback \/ ReadNothing \/ PublishNothing \/ Tick
           \/ UNCHANGED vars
    PROVE  PInv'
<1>1. CASE Trigger
  BY <1>1, UntouchedStep DEF Trigger, historyVars, TurnOK
<1>2. CASE Skip
  BY <1>2, GoOnTurn, UntouchedStep DEF Skip, historyVars
<1>3. CASE MeasureCallback
  BY <1>3, UntouchedStep DEF MeasureCallback, historyVars, TurnOK
<1>4. CASE PublishNothing
  BY <1>4, GoOnTurn, UntouchedStep DEF PublishNothing, historyVars
<1>5. CASE Tick
  BY <1>5, UntouchedStep DEF Tick, historyVars, mainVars, PInv, TurnOK
<1>6. CASE UNCHANGED vars
  BY <1>6, UntouchedStep DEF vars, historyVars, mainVars, PInv, TurnOK
<1>7. CASE ReadNothing
  BY <1>7, UntouchedStep DEF ReadNothing, historyVars, TurnOK
<1> QED
  BY <1>1, <1>2, <1>3, <1>4, <1>5, <1>6, <1>7

(* addReadFailure() cleans the store or leaves the sensor as it is.        *)
LEMMA FailureCleans ==
    ASSUME NEW i \in Sensors, sensor[i] \in SensorState, now \in Nat
    PROVE  /\ AfterReadFailure(i).lastValuePublished = sensor[i].lastValuePublished
           /\ \/ AfterReadFailure(i).stored = sensor[i].stored
              \/ AfterReadFailure(i).stored = Clean(sensor[i].stored, now - Config[i].keep)
<1> DEFINE failed == AddReadFailure(sensor[i], Config[i], now)
<1>1. /\ failed \in [lastMeasurement : {failed.lastMeasurement}, stored : {failed.stored},
                     readFailures : {failed.readFailures},
                     lastValuePublished : {failed.lastValuePublished}]
      /\ failed.lastValuePublished = sensor[i].lastValuePublished
      /\ failed.stored \in {sensor[i].stored, Clean(sensor[i].stored, now - Config[i].keep)}
  BY DEF AddReadFailure, SensorState
<1>2. /\ AfterReadFailure(i).stored = failed.stored
      /\ AfterReadFailure(i).lastValuePublished = failed.lastValuePublished
  <2> HIDE DEF failed
  <2>1. AfterReadFailure(i) \in {failed, [failed EXCEPT !.lastMeasurement = current]}
    BY DEF AfterReadFailure, failed
  <2> QED
    BY <1>1, <2>1
<1> HIDE DEF failed
<1> QED
  BY <1>1, <1>2

LEMMA UnrecordedSteps ==
    ASSUME PInv, IInv', StartRead \/ ReadFail \/ Unreachable \/ CheckReadFailures
    PROVE  PInv'
<1>0. /\ turn \in Sensors /\ sensor \in [Sensors -> SensorState] /\ now \in Nat
      /\ current \in Nat
  BY DEF PInv, IInv, TypeOK
<1>1. CASE StartRead
  <2>1. current - Config[turn].keep \in Int
    BY <1>0, ConfigOf
  <2>2. /\ sensor'[turn].lastValuePublished = sensor[turn].lastValuePublished
        /\ sensor'[turn].stored = Clean(sensor[turn].stored, current - Config[turn].keep)
        /\ \A j \in Sensors : j # turn => sensor'[j] = sensor[j]
    BY <1>0, <1>1 DEF StartRead, Cleaned, SensorState
  <2>3. TurnOK' /\ phase' # "publishing" /\ UNCHANGED <<accepted, delivered, fedBy, mqtt>>
    BY <1>1 DEF StartRead, TurnOK, historyVars, PolledKinds
  <2> QED
    BY <2>1, <2>2, <2>3, UnrecordedStep
<1>2. CASE ReadFail
  <2>1. /\ sensor'[turn] = AfterReadFailure(turn)
        /\ \A j \in Sensors : j # turn => sensor'[j] = sensor[j]
    BY <1>0, <1>2 DEF ReadFail
  <2>2. TurnOK' /\ phase' # "publishing" /\ UNCHANGED <<accepted, delivered, fedBy, mqtt>>
    BY <1>2, GoOnTurn DEF ReadFail
  <2>3. now - Config[turn].keep \in Int
    BY <1>0, ConfigOf
  <2> QED
    BY <1>0, <2>1, <2>2, <2>3, FailureCleans, UnrecordedStep
<1>3. CASE Unreachable
  <2>1. \A j \in Sensors : /\ sensor'[j].stored = sensor[j].stored
                           /\ sensor'[j].lastValuePublished = sensor[j].lastValuePublished
    BY <1>0, <1>3 DEF Unreachable, SensorState
  <2>2. TurnOK' /\ phase' # "publishing" /\ UNCHANGED <<accepted, delivered, fedBy, mqtt>>
    BY <1>3, GoOnTurn DEF Unreachable
  <2> QED
    BY <2>1, <2>2, UnrecordedStep
<1>4. CASE CheckReadFailures
  <2>1. \A j \in Sensors : /\ sensor'[j].stored = sensor[j].stored
                           /\ sensor'[j].lastValuePublished = sensor[j].lastValuePublished
    BY <1>0, <1>4 DEF CheckReadFailures, ResetReadFailures, SensorState
  <2>2. TurnOK' /\ phase' # "publishing" /\ UNCHANGED <<accepted, delivered, fedBy, mqtt>>
    BY <1>4 DEF CheckReadFailures, TurnOK
  <2> QED
    BY <2>1, <2>2, UnrecordedStep
<1> QED
  BY <1>1, <1>2, <1>3, <1>4

(* The newest stored measurement is the newest recorded one.               *)
LEMMA PublishReadLatest == ASSUME PInv, IInv', PublishRead PROVE PInv'
<1>1. /\ turn \in Sensors /\ sensor[turn].stored \in SUBSET Nat
      /\ sensor[turn].stored # {} /\ accepted[turn] \in SUBSET Nat
  BY DEF PInv, IInv, TypeOK, SensorState, PublishRead
<1>2. PICK u \in sensor[turn].stored : IsLatest(turn, u)
  BY <1>1 DEF PInv, StoredOK
<1>3. \A v \in sensor[turn].stored : v <= u
  BY <1>1, <1>2 DEF IsLatest, PInv, IInv, SensorsOK, SensorOK, StoreOK
<1>4. outgoing' = u
  BY <1>1, <1>2, <1>3, NewestIs DEF PublishRead, LastTimestamp
<1>5. UNCHANGED <<turn, sensor, accepted, delivered, fedBy>> /\ phase = "publish"
  BY DEF PublishRead, historyVars
<1>6. OutgoingOK'
  BY <1>2, <1>4, <1>5 DEF OutgoingOK, IsLatest
<1>7. TurnOK'
  BY <1>5 DEF PInv, TurnOK
<1>8. ASSUME NEW i \in Sensors PROVE StoredOK(i)' /\ DeliveredOK(i)'
  BY <1>5 DEF PInv, StoredOK, DeliveredOK, OneThread, IsLatest
<1>9. \A b \in Brokers : MqttOK(b)'
  BY <1>5 DEF PInv, MqttOK, OneThread, IsLatest, PublishRead
<1> QED
  BY <1>6, <1>7, <1>8, <1>9 DEF PInv

LEMMA PublishDoneLatest == ASSUME PInv, IInv', PublishDone PROVE PInv'
<1>1. /\ turn \in Sensors /\ sensor \in [Sensors -> SensorState]
      /\ delivered \in [Sensors -> Nat]
  BY DEF PInv, IInv, TypeOK
<1>2. /\ \A j \in Sensors : sensor'[j].stored = sensor[j].stored
      /\ \A j \in Sensors : j # turn => /\ sensor'[j] = sensor[j]
                                       /\ delivered'[j] = delivered[j]
      /\ delivered'[turn] = outgoing
      /\ UNCHANGED <<accepted, mqtt, fedBy>>
  BY <1>1 DEF PublishDone, SensorState
<1>3. TurnOK' /\ OutgoingOK'
  BY GoOnTurn DEF PublishDone, OutgoingOK
<1>4. ASSUME NEW i \in Sensors PROVE StoredOK(i)'
  BY <1>2 DEF PInv, StoredOK, IsLatest
<1>5. ASSUME NEW i \in Sensors PROVE DeliveredOK(i)'
  <2>1. CASE i = turn
    <3>1. OneThread(i)' => Kind[turn] # "callback"
      BY <2>1 DEF OneThread, PolledKinds
    <3> QED
      BY <1>2, <2>1, <3>1 DEF PInv, OutgoingOK, DeliveredOK, IsLatest, PublishDone
  <2>2. CASE i # turn
    BY <1>2, <2>2 DEF PInv, DeliveredOK, OneThread, IsLatest
  <2> QED
    BY <2>1, <2>2
<1>6. \A b \in Brokers : MqttOK(b)'
  BY <1>2 DEF PInv, MqttOK, OneThread, IsLatest
<1> QED
  BY <1>3, <1>4, <1>5, <1>6 DEF PInv

-----------------------------------------------------------------------------
(* Sensor i has recorded a measurement.                                    *)
LEMMA RecordedIsLatest ==
    ASSUME PInv, NEW i \in Sensors, Rested(sensor[i], Config[i], now),
           accepted' = [accepted EXCEPT ![i] = @ \cup {now}],
           sensor'[i].stored = AddRawMeasurement(sensor[i], Config[i], now).stored
    PROVE  \E t \in Nat : t = SlotOf(now, Config[i]) /\ IsLatest(i, t)' /\ StoredOK(i)'
<1>0. PICK t \in Nat : t = SlotOf(now, Config[i])
  BY Accepted DEF PInv
<1>1. /\ accepted'[i] = accepted[i] \cup {now} /\ now \in Nat
  BY DEF PInv, IInv, TypeOK
<1>2. /\ t \in Nat /\ t \in sensor'[i].stored
      /\ \A a \in accepted[i] : SlotOf(a, Config[i]) < t /\ SlotOf(a, Config[i]) \in Nat
  <2>1. \A a \in accepted[i] : a \in Nat
    BY DEF PInv, IInv, TypeOK
  <2> QED
    BY <1>0, <2>1, Accepted, ConfigOf, SlotBounds DEF PInv, SlotOf
<1>3. \A a \in accepted'[i] : SlotOf(a, Config[i]) <= t
  BY <1>0, <1>1, <1>2
<1>4. IsLatest(i, t)'
  BY <1>0, <1>1, <1>3 DEF IsLatest
<1>5. StoredOK(i)'
  BY <1>2, <1>4 DEF StoredOK
<1> QED
  BY <1>0, <1>4, <1>5

LEMMA ReadOkLatest == ASSUME PInv, IInv', ReadOk PROVE PInv'
<1> DEFINE new == AddRawMeasurement(sensor[turn], Config[turn], now)
<1>1. /\ turn \in Sensors /\ Rested(sensor[turn], Config[turn], now)
      /\ sensor \in [Sensors -> SensorState] /\ accepted \in [Sensors -> SUBSET Nat]
      /\ Kind[turn] \in PolledKinds
  BY Reading DEF PInv, IInv, TypeOK, ReadOk
<1>2. ~new.lastValuePublished
  BY <1>1, Accepted DEF PInv
<1> HIDE DEF new
<1>3. /\ sensor' = [sensor EXCEPT ![turn] = new]
      /\ accepted' = [accepted EXCEPT ![turn] = @ \cup {now}]
      /\ phase' = "publish" /\ UNCHANGED <<turn, delivered, mqtt, fedBy>>
  BY <1>1 DEF ReadOk, Record, new
<1>4. StoredOK(turn)'
  BY <1>1, <1>3, RecordedIsLatest DEF new
<1>5. ASSUME NEW j \in Sensors, j # turn PROVE StoredOK(j)' /\ DeliveredOK(j)'
  <2>1. sensor'[j] = sensor[j] /\ accepted'[j] = accepted[j]
    BY <1>1, <1>3, <1>5
  <2> QED
    BY <1>3, <2>1 DEF PInv, StoredOK, DeliveredOK, OneThread, IsLatest
<1>6. DeliveredOK(turn)'
  BY <1>1, <1>2, <1>3 DEF DeliveredOK
<1>7. OutgoingOK' /\ TurnOK'
  BY <1>1, <1>3 DEF OutgoingOK, TurnOK, PolledKinds
<1>8. \A j \in Sensors : StoredOK(j)' /\ DeliveredOK(j)'
  <2> SUFFICES ASSUME NEW j \in Sensors PROVE StoredOK(j)' /\ DeliveredOK(j)'
    OBVIOUS
  <2>1. CASE j = turn
    BY <1>3, <1>4, <1>6, <2>1 DEF StoredOK, DeliveredOK, IsLatest
  <2>2. CASE j # turn
    BY <1>5, <2>2
  <2> QED
    BY <2>1, <2>2
<1>9. \A b \in Brokers : MqttOK(b)'
  <2> SUFFICES ASSUME NEW b \in Brokers, mqtt[b].at # "idle" PROVE MqttOK(b)'
    BY <1>3 DEF MqttOK
  <2>1. mqtt[b].on \in Sensors /\ mqtt[b].on # turn
    BY <1>1 DEF PInv, IInv, TypeOK, MqttThread, MqttOK, PolledKinds
  <2>2. accepted'[mqtt[b].on] = accepted[mqtt[b].on]
    BY <1>1, <1>3, <2>1
  <2> QED
    BY <1>3, <2>2 DEF PInv, MqttOK, OneThread, IsLatest
<1> QED
  BY <1>7, <1>8, <1>9 DEF PInv

(* An event of another thread touches its own sensor only.                 *)
LEMMA EventLatest ==
    ASSUME PInv, IInv', NEW i \in Sensors, Kind[i] \in EventKinds, UNCHANGED mainVars,
           StoredOK(i)', DeliveredOK(i)', \A b \in Brokers : MqttOK(b)',
           \A j \in Sensors : j # i => /\ sensor'[j] = sensor[j]
                                      /\ accepted'[j] = accepted[j]
                                      /\ delivered'[j] = delivered[j]
                                      /\ fedBy'[j] = fedBy[j]
    PROVE  PInv'
<1>1. ASSUME NEW j \in Sensors PROVE StoredOK(j)' /\ DeliveredOK(j)'
  <2>1. CASE j # i
    BY <2>1 DEF PInv, StoredOK, DeliveredOK, OneThread, IsLatest
  <2> QED
    BY <2>1
<1>2. TurnOK'
  BY DEF PInv, TurnOK, mainVars
<1>3. OutgoingOK'
  <2> SUFFICES ASSUME phase = "publishing", Kind[turn] # "callback"
               PROVE  IsLatest(turn, outgoing)'
    BY DEF OutgoingOK, mainVars
  <2>1. turn \in Sensors /\ turn # i
    BY DEF PInv, IInv, TypeOK, TurnOK, EventKinds
  <2>2. UNCHANGED <<turn, outgoing>> /\ accepted'[turn] = accepted[turn]
    BY <2>1 DEF mainVars
  <2> QED
    BY <2>2 DEF PInv, OutgoingOK, IsLatest
<1> QED
  BY <1>1, <1>2, <1>3 DEF PInv

LEMMA RecordLatest ==
    ASSUME PInv, IInv', NEW i \in Sensors, Kind[i] \in EventKinds, Record(i),
           \A b \in Brokers : MqttOK(b)',
           fedBy[i] \subseteq fedBy'[i],
           \A j \in Sensors : j # i => fedBy'[j] = fedBy[j],
           UNCHANGED <<now, mainVars, delivered>>
    PROVE  PInv'
<1>1. /\ sensor \in [Sensors -> SensorState] /\ accepted \in [Sensors -> SUBSET Nat]
      /\ sensor' = [sensor EXCEPT ![i] = AddRawMeasurement(sensor[i], Config[i], now)]
  BY DEF PInv, IInv, TypeOK, Record
<1>2. \A j \in Sensors : j # i => sensor'[j] = sensor[j] /\ accepted'[j] = accepted[j]
  BY <1>1 DEF Record
<1>3. StoredOK(i)' /\ DeliveredOK(i)'
  <2>1. CASE Rested(sensor[i], Config[i], now)
    <3>1. ~sensor'[i].lastValuePublished
      BY <1>1, <2>1, Accepted DEF PInv
    <3> QED
      BY <1>1, <2>1, <3>1, RecordedIsLatest DEF Record, DeliveredOK
  <2>2. CASE ~Rested(sensor[i], Config[i], now)
    <3>1. /\ sensor'[i].stored = sensor[i].stored /\ accepted' = accepted
          /\ sensor'[i].lastValuePublished = sensor[i].lastValuePublished
      BY <1>1, <2>2 DEF Record, AddRawMeasurement, SensorState
    <3> QED
      BY <3>1 DEF PInv, StoredOK, DeliveredOK, OneThread, IsLatest
  <2> QED
    BY <2>1, <2>2
<1> QED
  BY <1>2, <1>3, EventLatest

LEMMA CallbackLatest ==
    ASSUME PInv, IInv', NEW i \in Sensors, CallbackEvent(i) PROVE PInv'
<1>1. /\ Kind[i] = "callback" /\ Record(i) /\ accepted \in [Sensors -> SUBSET Nat]
      /\ UNCHANGED <<now, mainVars, delivered, fedBy, mqtt>>
  BY DEF PInv, IInv, TypeOK, CallbackEvent
<1>2. \A b \in Brokers : MqttOK(b)'
  <2> SUFFICES ASSUME NEW b \in Brokers, mqtt[b].at # "idle" PROVE MqttOK(b)'
    BY <1>1 DEF MqttOK
  <2>1. mqtt[b].on \in Sensors /\ mqtt[b].on # i
    BY <1>1 DEF PInv, IInv, TypeOK, MqttThread, MqttOK
  <2>2. accepted'[mqtt[b].on] = accepted[mqtt[b].on]
    BY <1>1, <2>1 DEF Record
  <2> QED
    BY <1>1, <2>2 DEF PInv, MqttOK, OneThread, IsLatest
<1> QED
  BY <1>1, <1>2, RecordLatest DEF EventKinds

(* The thread that brings a message was idle; a value of the sensor that   *)
(* is on its way is one that another thread has brought.                   *)
LEMMA MessageLatest ==
    ASSUME PInv, IInv', NEW b \in Brokers, NEW i \in Sensors, MessageArrived(b, i)
    PROVE  PInv'
<1>1. /\ Kind[i] = "mqtt" /\ Record(i) /\ mqtt[b].at = "idle"
      /\ mqtt \in [Brokers -> MqttThread] /\ accepted \in [Sensors -> SUBSET Nat]
      /\ fedBy \in [Sensors -> SUBSET Brokers]
      /\ fedBy' = [fedBy EXCEPT ![i] = @ \cup {b}]
      /\ UNCHANGED <<now, mainVars, delivered>>
  BY DEF PInv, IInv, TypeOK, MessageArrived
<1>2. \A c \in Brokers : MqttOK(c)'
  <2> SUFFICES ASSUME NEW c \in Brokers PROVE MqttOK(c)'
    OBVIOUS
  <2>1. CASE c = b
    BY <1>1, <2>1 DEF MqttOK, MessageArrived
  <2>2. CASE c # b
    <3>1. mqtt'[c] = mqtt[c]
      BY <1>1, <2>2 DEF MessageArrived
    <3>2. mqtt[c].on \in Sensors /\ (mqtt[c].at # "idle" => c \in fedBy[mqtt[c].on])
      BY <1>1 DEF PInv, MqttOK, MqttThread
    <3>3. CASE mqtt[c].at = "idle"
      BY <3>1, <3>3 DEF MqttOK
    <3>4. CASE mqtt[c].at # "idle" /\ mqtt[c].on = i
      <4>1. b \in fedBy'[i] /\ c \in fedBy'[i]
        BY <1>1, <3>2, <3>4
      <4>2. ~OneThread(i)'
        BY <1>1, <2>2, <4>1 DEF OneThread, PolledKinds
      <4> QED
        BY <1>1, <3>1, <3>4, <4>1, <4>2 DEF MqttOK
    <3>5. CASE mqtt[c].at # "idle" /\ mqtt[c].on # i
      <4>1. /\ accepted'[mqtt[c].on] = accepted[mqtt[c].on]
            /\ fedBy'[mqtt[c].on] = fedBy[mqtt[c].on]
        BY <1>1, <3>2, <3>5 DEF Record
      <4> QED
        BY <3>1, <4>1 DEF PInv, MqttOK, OneThread, IsLatest
    <3> QED
      BY <3>3, <3>4, <3>5
  <2> QED
    BY <2>1, <2>2
<1> QED
  BY <1>1, <1>2, RecordLatest DEF EventKinds

(* The newest stored measurement is the newest recorded one, as above.     *)
LEMMA MessageReadLatest ==
    ASSUME PInv, IInv', NEW b \in Brokers, MessageRead(b) PROVE PInv'
<1> DEFINE i == mqtt[b].on
<1>1. /\ mqtt \in [Brokers -> MqttThread] /\ i \in Sensors
      /\ sensor[i].stored \in SUBSET Nat /\ sensor[i].stored # {}
      /\ accepted[i] \in SUBSET Nat
      /\ UNCHANGED <<now, mainVars, sensor, accepted, delivered, fedBy>>
  BY DEF PInv, IInv, TypeOK, MqttThread, SensorState, MessageRead, historyVars
<1>2. PICK u \in sensor[i].stored : IsLatest(i, u)
  BY <1>1 DEF PInv, StoredOK
<1>3. \A v \in sensor[i].stored : v <= u
  BY <1>1, <1>2 DEF IsLatest, PInv, IInv, SensorsOK, SensorOK, StoreOK
<1>4. LastTimestamp(sensor[i].stored) = u
  BY <1>1, <1>2, <1>3, NewestIs DEF LastTimestamp
<1>5. /\ mqtt'[b].on = i /\ mqtt'[b].outgoing = u
      /\ \A c \in Brokers : c # b => mqtt'[c] = mqtt[c]
  BY <1>1, <1>4 DEF MessageRead, MqttThread
<1>6. \A c \in Brokers : MqttOK(c)'
  <2> SUFFICES ASSUME NEW c \in Brokers PROVE MqttOK(c)'
    OBVIOUS
  <2>1. CASE c = b
    BY <1>1, <1>2, <1>5, <2>1 DEF PInv, MqttOK, IsLatest, MessageRead
  <2>2. CASE c # b
    BY <1>1, <1>5, <2>2 DEF PInv, MqttOK, OneThread, IsLatest
  <2> QED
    BY <2>1, <2>2
<1>7. ASSUME NEW j \in Sensors PROVE StoredOK(j)' /\ DeliveredOK(j)'
  BY <1>1 DEF PInv, StoredOK, DeliveredOK, OneThread, IsLatest
<1>8. OutgoingOK' /\ TurnOK'
  BY <1>1 DEF PInv, OutgoingOK, TurnOK, IsLatest, mainVars
<1> QED
  BY <1>6, <1>7, <1>8 DEF PInv

LEMMA MessageDoneLatest ==
    ASSUME PInv, IInv', NEW b \in Brokers, MessageDone(b) PROVE PInv'
<1> DEFINE i == mqtt[b].on
<1>1. /\ mqtt \in [Brokers -> MqttThread] /\ i \in Sensors
      /\ sensor \in [Sensors -> SensorState] /\ delivered \in [Sensors -> Nat]
      /\ UNCHANGED <<now, mainVars, accepted, fedBy>>
  BY DEF PInv, IInv, TypeOK, MqttThread, MessageDone
<1>2. /\ delivered' = [delivered EXCEPT ![i] = mqtt[b].outgoing]
      /\ sensor' = [sensor EXCEPT ![i].lastValuePublished = TRUE]
      /\ mqtt' = [mqtt EXCEPT ![b] = IdleThread]
  BY DEF MessageDone
<1>3. OneThread(i) => IsLatest(i, mqtt[b].outgoing)
  BY DEF PInv, MqttOK, MessageDone
<1> HIDE DEF i
<1>4. /\ \A j \in Sensors : sensor'[j].stored = sensor[j].stored
      /\ \A j \in Sensors : j # i => sensor'[j] = sensor[j] /\ delivered'[j] = delivered[j]
      /\ delivered'[i] = mqtt[b].outgoing
  BY <1>1, <1>2 DEF SensorState
<1>5. ASSUME NEW j \in Sensors PROVE StoredOK(j)'
  BY <1>1, <1>4 DEF PInv, StoredOK, IsLatest
<1>6. ASSUME NEW j \in Sensors PROVE DeliveredOK(j)'
  <2>1. CASE j = i
    BY <1>1, <1>3, <1>4, <2>1 DEF DeliveredOK, OneThread, IsLatest
  <2>2. CASE j # i
    BY <1>1, <1>4, <2>2 DEF PInv, DeliveredOK, OneThread, IsLatest
  <2> QED
    BY <2>1, <2>2
<1>7. OutgoingOK' /\ TurnOK'
  BY <1>1 DEF PInv, OutgoingOK, TurnOK, IsLatest, mainVars
<1>8. \A c \in Brokers : MqttOK(c)'
  <2> SUFFICES ASSUME NEW c \in Brokers PROVE MqttOK(c)'
    OBVIOUS
  <2>1. CASE c = b
    BY <1>1, <1>2, <2>1 DEF MqttOK, IdleThread
  <2>2. CASE c # b
    <3>1. mqtt'[c] = mqtt[c]
      BY <1>1, <1>2, <2>2
    <3> QED
      BY <1>1, <3>1 DEF PInv, MqttOK, OneThread, IsLatest
  <2> QED
    BY <2>1, <2>2
<1> QED
  BY <1>5, <1>6, <1>7, <1>8 DEF PInv

LEMMA MessageUnpublishedLatest ==
    ASSUME PInv, IInv', NEW b \in Brokers, MessageUnpublished(b) PROVE PInv'
<1>1. /\ mqtt \in [Brokers -> MqttThread]
      /\ mqtt' = [mqtt EXCEPT ![b] = IdleThread]
      /\ UNCHANGED <<mainVars, sensor, accepted, delivered, fedBy>>
  BY DEF PInv, IInv, TypeOK, MessageUnpublished, historyVars
<1>2. ASSUME NEW j \in Sensors PROVE StoredOK(j)' /\ DeliveredOK(j)'
  BY <1>1 DEF PInv, StoredOK, DeliveredOK, OneThread, IsLatest
<1>3. OutgoingOK' /\ TurnOK'
  BY <1>1 DEF PInv, OutgoingOK, TurnOK, IsLatest, mainVars
<1>4. \A c \in Brokers : MqttOK(c)'
  BY <1>1 DEF PInv, MqttOK, OneThread, IsLatest, IdleThread
<1> QED
  BY <1>2, <1>3, <1>4 DEF PInv

LEMMA PublicationStep == PInv /\ IInv' /\ [Next]_vars => PInv'
<1> SUFFICES ASSUME PInv, IInv', [Next]_vars PROVE PInv'
  OBVIOUS
<1>1. CASE MainStep
  BY <1>1, UntouchedSteps, UnrecordedSteps, PublishReadLatest, PublishDoneLatest,
     ReadOkLatest DEF MainStep
<1>2. CASE \/ \E i \in Sensors : CallbackEvent(i)
          \/ \E b \in Brokers : MqttStep(b)
  BY <1>2, CallbackLatest, MessageLatest, MessageReadLatest, MessageDoneLatest,
     MessageUnpublishedLatest DEF MqttStep
<1>3. CASE Tick \/ UNCHANGED vars
  BY <1>3, UntouchedSteps
<1> QED
  BY <1>1, <1>2, <1>3 DEF Next

(***************************************************************************)
(* A value that counts as published is the newest the sensor has recorded  *)
(* (publishLastEvent of polled sensors, and of MQTT sensors to which only  *)
(* one broker has brought messages).                                       *)
(***************************************************************************)
THEOREM PublishedValueIsLatest == Spec => []PublishedIsLatest
<1>1. Init => PInv
  <2>1. Init => IInv
    BY InitInvariant
  <2> QED
    BY <2>1 DEF Init, PInv, StoredOK, DeliveredOK, OutgoingOK, TurnOK, MqttOK, NewSensor,
                IdleThread
<1>2. PInv /\ IInv' /\ [Next]_vars => PInv'
  BY PublicationStep
<1>3. PInv => PublishedIsLatest
  BY DEF PInv, DeliveredOK, IsLatest, PublishedIsLatest, LatestDelivered, Slots, SlotOf
<1> QED
  BY <1>1, <1>2, <1>3, Invariance, PTL DEF Spec

-----------------------------------------------------------------------------
(***************************************************************************)
(* The steps of Acquisition.  Of every sensor a step leaves the store as   *)
(* it is, cleans it, or records a measurement.                             *)
(***************************************************************************)
Left(i) == sensor'[i].stored = sensor[i].stored /\ accepted'[i] = accepted[i]

CleanedUp(i) ==
    /\ \E e \in Int : /\ e <= now - Config[i].keep
                      /\ sensor'[i].stored = Clean(sensor[i].stored, e)
    /\ accepted'[i] = accepted[i]

Recorded(i) ==
    /\ Rested(sensor[i], Config[i], now)
    /\ sensor'[i].stored = AddRawMeasurement(sensor[i], Config[i], now).stored
    /\ accepted'[i] = accepted[i] \cup {now}

StoresStep ==
    /\ now \in Nat /\ now' \in Nat /\ now <= now'
    /\ \A i \in Sensors : Left(i) \/ CleanedUp(i) \/ Recorded(i)

(* A reading, a Bricklet's event or a message.                             *)
LEMMA RecordStores ==
    ASSUME IInv, NEW i \in Sensors, Record(i), UNCHANGED now
    PROVE  StoresStep
<1>1. /\ sensor \in [Sensors -> SensorState] /\ accepted \in [Sensors -> SUBSET Nat]
      /\ now \in Nat
  BY DEF IInv, TypeOK
<1>2. \A j \in Sensors : j # i => Left(j)
  BY <1>1 DEF Record, Left
<1>3. CASE Rested(sensor[i], Config[i], now)
  BY <1>1, <1>2, <1>3 DEF Record, Recorded, StoresStep
<1>4. CASE ~Rested(sensor[i], Config[i], now)
  BY <1>1, <1>2, <1>4 DEF Record, Left, StoresStep, AddRawMeasurement, SensorState
<1> QED
  BY <1>3, <1>4

(* The main thread: measure() and addReadFailure() clean, ReadOk records.  *)
LEMMA MainStores == ASSUME IInv, MainStep PROVE StoresStep
<1>1. /\ sensor \in [Sensors -> SensorState] /\ accepted \in [Sensors -> SUBSET Nat]
      /\ now \in Nat /\ current \in Nat /\ current <= now /\ turn \in Sensors
  BY DEF IInv, TypeOK, ClockOK
<1>2. CASE \/ Trigger \/ Skip \/ MeasureCallback \/ ReadNothing
           \/ PublishNothing \/ PublishRead
  BY <1>1, <1>2 DEF Trigger, Skip, MeasureCallback, ReadNothing, PublishNothing,
     PublishRead, historyVars, StoresStep, Left
<1>3. CASE StartRead
  <2>1. current - Config[turn].keep \in Int
        /\ current - Config[turn].keep <= now - Config[turn].keep
    BY <1>1, ConfigOf
  <2>2. sensor'[turn].stored = Clean(sensor[turn].stored, current - Config[turn].keep)
    BY <1>1, <1>3 DEF StartRead, Cleaned, SensorState
  <2>3. \A j \in Sensors : j # turn => sensor'[j] = sensor[j]
    BY <1>1, <1>3 DEF StartRead
  <2> QED
    BY <1>1, <1>3, <2>1, <2>2, <2>3 DEF StartRead, historyVars, StoresStep, Left, CleanedUp
<1>4. CASE ReadOk
  BY <1>1, <1>4, RecordStores DEF ReadOk
<1>5. CASE ReadFail
  <2>1. /\ sensor'[turn] = AfterReadFailure(turn) /\ UNCHANGED <<now, accepted>>
        /\ \A j \in Sensors : j # turn => sensor'[j] = sensor[j]
    BY <1>1, <1>5 DEF ReadFail
  <2>2. /\ now - Config[turn].keep \in Int
        /\ now - Config[turn].keep <= now - Config[turn].keep
    BY <1>1, ConfigOf
  <2>3. \/ sensor'[turn].stored = sensor[turn].stored
        \/ sensor'[turn].stored = Clean(sensor[turn].stored, now - Config[turn].keep)
    BY <1>1, <2>1, FailureCleans
  <2> QED
    BY <1>1, <2>1, <2>2, <2>3 DEF StoresStep, Left, CleanedUp
<1>6. CASE Unreachable \/ PublishDone
  BY <1>1, <1>6 DEF Unreachable, PublishDone, StoresStep, Left, SensorState
<1>7. CASE CheckReadFailures
  BY <1>1, <1>7 DEF CheckReadFailures, ResetReadFailures, StoresStep, Left, SensorState
<1> QED
  BY <1>2, <1>3, <1>4, <1>5, <1>6, <1>7 DEF MainStep

(* Any step.                                                               *)
LEMMA EveryStepStores == ASSUME IInv, [Next]_vars PROVE StoresStep
<1>1. now \in Nat
  BY DEF IInv, TypeOK
<1>2. CASE MainStep
  BY <1>2, MainStores
<1>3. ASSUME NEW i \in Sensors, CallbackEvent(i) PROVE StoresStep
  BY <1>3, RecordStores DEF CallbackEvent
<1>4. ASSUME NEW b \in Brokers, MqttStep(b) PROVE StoresStep
  <2>1. ASSUME NEW i \in Sensors, MessageArrived(b, i) PROVE StoresStep
    BY <2>1, RecordStores DEF MessageArrived
  <2>2. CASE MessageUnpublished(b) \/ MessageRead(b)
    BY <1>1, <2>2 DEF MessageUnpublished, MessageRead, historyVars, StoresStep, Left
  <2>3. CASE MessageDone(b)
    <3>1. sensor \in [Sensors -> SensorState]
      BY DEF IInv, TypeOK
    <3> QED
      BY <1>1, <2>3, <3>1 DEF MessageDone, StoresStep, Left, SensorState
  <2> QED
    BY <1>4, <2>1, <2>2, <2>3 DEF MqttStep
<1>5. CASE Tick
  BY <1>1, <1>5 DEF Tick, historyVars, StoresStep, Left
<1>6. CASE UNCHANGED vars
  BY <1>1, <1>6 DEF vars, historyVars, StoresStep, Left
<1> QED
  BY <1>2, <1>3, <1>4, <1>5, <1>6 DEF Next

-----------------------------------------------------------------------------
(* What the steps preserve, beside IInv.                                   *)
RetInv ==
    \A i \in Sensors : ~Config[i].isCounter =>
        Retains(sensor[i].stored, Config[i], accepted[i], now)

(* A step keeps every store's relation to what was recorded.               *)
LEMMA RetentionStep == IInv /\ IInv' /\ RetInv /\ [Next]_vars => RetInv'
<1> SUFFICES ASSUME IInv, IInv', RetInv, [Next]_vars,
                    NEW i \in Sensors, ~Config[i].isCounter
             PROVE  Retains(sensor'[i].stored, Config[i], accepted'[i], now')
  BY DEF RetInv
<1>1. /\ Config[i] \in SensorConfig /\ sensor[i] \in SensorState
      /\ sensor[i].stored \in SUBSET Nat /\ accepted[i] \in SUBSET Nat
      /\ sensor'[i].stored \in SUBSET Nat /\ accepted'[i] \in SUBSET Nat
      /\ Config[i].rest + Config[i].keep < now
      /\ SensorOK(sensor[i], Config[i], accepted[i], now)
  <2>1. sensor[i] \in SensorState /\ sensor'[i] \in SensorState
        /\ accepted[i] \in SUBSET Nat /\ accepted'[i] \in SUBSET Nat
        /\ now \in Nat /\ StartTime <= now
        /\ SensorOK(sensor[i], Config[i], accepted[i], now)
    BY AcquisitionAssumption DEF IInv, TypeOK, ClockOK, SensorsOK
  <2> QED
    BY <2>1, ConfigOf DEF SensorState
<1>2. /\ now \in Nat /\ now' \in Nat /\ now <= now'
      /\ Left(i) \/ CleanedUp(i) \/ Recorded(i)
  BY EveryStepStores DEF StoresStep
<1>3. Retains(sensor[i].stored, Config[i], accepted[i], now)
  BY DEF RetInv
<1>4. Retains(sensor'[i].stored, Config[i], accepted'[i], now)
  <2>1. CASE Left(i)
    BY <1>3, <2>1 DEF Left
  <2>2. CASE CleanedUp(i)
    BY <1>1, <1>2, <1>3, <2>2, CleanRetains DEF CleanedUp
  <2>3. CASE Recorded(i)
    <3> DEFINE new == AddRawMeasurement(sensor[i], Config[i], now).stored
    <3>1. Retains(new, Config[i], accepted[i] \cup {now}, now)
      BY <1>1, <1>2, <1>3, <2>3, RecordRetains DEF Recorded
    <3>2. sensor'[i].stored = new /\ accepted'[i] = accepted[i] \cup {now}
      BY <2>3 DEF Recorded
    <3> HIDE DEF new
    <3> QED
      BY <3>1, <3>2
  <2> QED
    BY <1>2, <2>1, <2>2, <2>3
<1> QED
  BY <1>1, <1>2, <1>4, LaterRetains

(***************************************************************************)
(* A store holds recorded measurements only, and lacks one of them only    *)
(* when it is past its retention time or was the oldest of a full store    *)
(* (addRawMeasurement, addValue, clean), whatever MAX_MEASUREMENTS is.     *)
(***************************************************************************)
THEOREM MeasurementsAreRetained == Spec => []RetentionComplete
<1>1. Init => RetInv
  <2>1. IsFiniteSet({}) /\ Cardinality({}) = 0
    BY FS_EmptySet
  <2>2. \A i \in Sensors : Retains({}, Config[i], {}, StartTime)
    BY <2>1, MaxMeasurementsAssumption DEF Retains
  <2>3. NewSensor.stored = {}
    BY DEF NewSensor
  <2> QED
    BY <2>2, <2>3 DEF Init, RetInv
<1>2. IInv /\ IInv' /\ RetInv /\ [Next]_vars => RetInv'
  BY RetentionStep
<1>3. IInv /\ RetInv => RetentionComplete
  <2> SUFFICES ASSUME IInv, RetInv, NEW i \in Sensors, ~Config[i].isCounter
               PROVE  /\ sensor[i].stored \subseteq Slots(i)
                      /\ \A t \in Slots(i) \ sensor[i].stored :
                            \/ t < now - Config[i].keep
                            \/ /\ Cardinality(sensor[i].stored) = MaxMeasurements
                               /\ \A u \in sensor[i].stored : t < u
    BY DEF RetentionComplete
  <2>1. sensor[i].stored \subseteq Slots(i)
    BY DEF IInv, SensorsOK, SensorOK, StoreOK, Slots, SlotOf
  <2>2. Retains(sensor[i].stored, Config[i], accepted[i], now)
    BY DEF RetInv
  <2> QED
    BY <2>1, <2>2 DEF Retains, Excused, Slots, SlotOf
<1> QED
  BY <1>1, <1>2, <1>3, Invariance, PTL DEF Spec
=============================================================================
