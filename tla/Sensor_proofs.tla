--------------------------- MODULE Sensor_proofs ---------------------------
(***************************************************************************)
(* Facts about the time arithmetic, the measurement store and the sensor   *)
(* operations, for every timestamp and every configuration.                *)
(***************************************************************************)
EXTENDS Sensor, FiniteSetTheorems, WellFoundedInduction, TLAPS

(***************************************************************************)
(* A slot begins at or before its timestamp and is one period long.        *)
(***************************************************************************)
LEMMA SlotBounds ==
    ASSUME NEW t \in Nat, NEW R \in Nat \ {0}
    PROVE  /\ Timeslot(t, R) \in Nat
           /\ Timeslot(t, R) <= t
           /\ t < Timeslot(t, R) + R
BY DEF Timeslot

(***************************************************************************)
(* A slot begins at a multiple of the period.                              *)
(***************************************************************************)
LEMMA SlotIsMultiple ==
    ASSUME NEW t \in Nat, NEW R \in Nat \ {0}
    PROVE  \E k \in Nat : Timeslot(t, R) = R * k
BY DEF Timeslot

LEMMA SlotStep ==
    ASSUME NEW a \in Nat, NEW t \in Nat, NEW R \in Nat \ {0},
           Timeslot(a, R) + R <= t
    PROVE  Timeslot(a, R) + R <= Timeslot(t, R)
<1>1. PICK k \in Nat : Timeslot(a, R) = R * k
  BY SlotIsMultiple
<1>2. PICK j \in Nat : Timeslot(t, R) = R * j
  BY SlotIsMultiple
<1>3. R * k + R <= t /\ t < R * j + R
  BY <1>1, <1>2, SlotBounds
<1>4. k < j
  BY <1>3
<1> QED
  BY <1>1, <1>2, <1>4

(***************************************************************************)
(* The vector's last element exists: a fact about finite sets that the     *)
(* sensors' invariant carries along instead of an induction.               *)
(***************************************************************************)
HasNewest(store) == store # {} => \E t \in store : \A u \in store : u <= t

LEMMA NewestIs ==
    ASSUME NEW store \in SUBSET Nat, NEW t \in store, \A u \in store : u <= t
    PROVE  Newest(store) = t
<1>1. Newest(store) \in store /\ \A u \in store : u <= Newest(store)
  BY DEF Newest
<1>2. Newest(store) \in Nat /\ t \in Nat
  BY <1>1
<1>3. Newest(store) <= t /\ t <= Newest(store)
  BY <1>1
<1> QED
  BY <1>2, <1>3

(***************************************************************************)
(* A sound clean() keeps the newest measurement or everything is gone.     *)
(***************************************************************************)
LEMMA CleanKeepsNewest ==
    ASSUME NEW store \in SUBSET Nat, NEW e \in Int, HasNewest(store)
    PROVE  HasNewest(Clean(store, e))
<1> SUFFICES ASSUME Clean(store, e) # {}
             PROVE  \E t \in Clean(store, e) : \A u \in Clean(store, e) : u <= t
  BY DEF HasNewest
<1>1. PICK v \in store : v >= e
  BY DEF Clean
<1>2. PICK t \in store : \A u \in store : u <= t
  BY <1>1 DEF HasNewest
<1>3. v \in Nat /\ t \in Nat /\ v <= t
  BY <1>2
<1>4. t \in Clean(store, e)
  BY <1>1, <1>3 DEF Clean
<1> QED
  BY <1>2, <1>4 DEF Clean

(***************************************************************************)
(* addValue() stores a timestamp that is a rest period past everything in  *)
(* the store and past 0, also when the store is full.                      *)
(***************************************************************************)
LEMMA AddValueStores ==
    ASSUME NEW store \in SUBSET Nat, HasNewest(store),
           NEW ts \in Nat, NEW R \in Nat \ {0}, R <= ts,
           \A u \in store : u + R <= ts
    PROVE  /\ ts \in AddValue(store, ts, R)
           /\ AddValue(store, ts, R) \subseteq store \cup {ts}
           /\ \A u \in AddValue(store, ts, R) : u <= ts
<1>1. LastTimestamp(store) \in Nat /\ LastTimestamp(store) + R <= ts
  <2>1. CASE store = {}
    BY <2>1 DEF LastTimestamp
  <2>2. CASE store # {}
    <3>1. PICK t \in store : \A u \in store : u <= t
      BY <2>2 DEF HasNewest
    <3>2. Newest(store) = t
      BY <3>1, NewestIs
    <3> QED
      BY <2>2, <3>2 DEF LastTimestamp
  <2> QED
    BY <2>1, <2>2
<1>2. TimeDiff(ts, LastTimestamp(store)) >= R
  BY <1>1 DEF TimeDiff
<1> DEFINE added == store \cup {ts}
<1>3. AddValue(store, ts, R) = IF Cardinality(added) > MaxMeasurements
                               THEN WithoutOldest(added) ELSE added
  BY <1>2 DEF AddValue
<1>4. WithoutOldest(added) \subseteq added
  BY DEF WithoutOldest
<1>5. Cardinality(added) > MaxMeasurements => ts \in WithoutOldest(added)
  <2>1. CASE store = {}
    <3>1. Cardinality({ts}) = 1
      BY FS_Singleton
    <3> QED
      BY <2>1, <3>1, MaxMeasurementsAssumption
  <2>2. CASE store # {}
    <3>1. PICK u \in store : u \in Nat /\ u + R <= ts
      BY <2>2
    <3>2. u < ts
      BY <3>1
    <3> QED
      BY <3>2 DEF WithoutOldest
  <2> QED
    BY <2>1, <2>2
<1>6. \A u \in added : u <= ts
  OBVIOUS
<1> QED
  BY <1>3, <1>4, <1>5, <1>6

-----------------------------------------------------------------------------
(***************************************************************************)
(* The operations make sensors of sensors.                                 *)
(***************************************************************************)
LEMMA CleanedType ==
    ASSUME NEW cfg \in SensorConfig, NEW s \in SensorState, NEW t \in Nat
    PROVE  Cleaned(s, cfg, t) \in SensorState
<1> DEFINE kept == Clean(s.stored, t - cfg.keep)
<1>1. kept \in SUBSET Nat
  BY DEF Clean, SensorState
<1>2. Cleaned(s, cfg, t) = [s EXCEPT !.stored = kept]
  BY DEF Cleaned
<1> HIDE DEF kept
<1> QED
  BY <1>1, <1>2 DEF SensorState

LEMMA RecordedType ==
    ASSUME NEW cfg \in SensorConfig, NEW s \in SensorState, NEW t \in Nat
    PROVE  AddRawMeasurement(s, cfg, t) \in SensorState
<1> DEFINE slot  == Timeslot(t, cfg.rest)
           kept  == Clean(s.stored, slot - cfg.keep)
           store == IF cfg.isCounter THEN SetOnlyValue(slot) ELSE AddValue(kept, slot, cfg.rest)
<1>1. slot \in Nat
  BY SlotBounds DEF SensorConfig
<1>2. kept \in SUBSET Nat
  BY DEF Clean, SensorState
<1>3. AddRawMeasurement(s, cfg, t) =
          IF Rested(s, cfg, t)
          THEN [lastMeasurement |-> slot, stored |-> store,
                readFailures |-> 0, lastValuePublished |-> FALSE]
          ELSE [s EXCEPT !.readFailures = 0]
  BY DEF AddRawMeasurement
<1> HIDE DEF kept, slot
<1>4. store \in SUBSET Nat
  BY <1>1, <1>2 DEF SetOnlyValue, AddValue, WithoutOldest
<1> HIDE DEF store
<1>5. [lastMeasurement |-> slot, stored |-> store,
       readFailures |-> 0, lastValuePublished |-> FALSE] \in SensorState
  BY <1>1, <1>4 DEF SensorState
<1>6. [s EXCEPT !.readFailures = 0] \in SensorState
  BY DEF SensorState
<1> QED
  BY <1>3, <1>5, <1>6

(* A failure is dated back by a rest period: the clock must show as much.  *)
LEMMA FailedType ==
    ASSUME NEW cfg \in SensorConfig, NEW s \in SensorState, NEW t \in Nat, cfg.rest <= t
    PROVE  AddReadFailure(s, cfg, t) \in SensorState
<1> DEFINE base == IF s.lastMeasurement = 0 THEN t - cfg.rest ELSE s.lastMeasurement
           gate == base + Lesser(cfg.retry, cfg.rest)
           kept == Clean(s.stored, t - cfg.keep)
<1>1. gate \in Nat
  BY DEF Lesser, SensorConfig, SensorState
<1>2. kept \in SUBSET Nat
  BY DEF Clean, SensorState
<1>3. AddReadFailure(s, cfg, t) =
          IF Rested(s, cfg, t)
          THEN [s EXCEPT !.readFailures = @ + 1, !.lastMeasurement = gate, !.stored = kept]
          ELSE s
  BY DEF AddReadFailure
<1> HIDE DEF gate, kept
<1> HIDE DEF base
<1>4. ASSUME NEW g \in Nat, NEW k \in SUBSET Nat
      PROVE  [s EXCEPT !.readFailures = @ + 1, !.lastMeasurement = g, !.stored = k] \in SensorState
  <2> DEFINE n == s.readFailures + 1
  <2>1. n \in Nat
    BY DEF SensorState
  <2> HIDE DEF n
  <2>2. [s EXCEPT !.readFailures = n, !.lastMeasurement = g, !.stored = k] \in SensorState
    BY <2>1 DEF SensorState
  <2> QED
    BY <2>2 DEF n
<1>5. [s EXCEPT !.readFailures = @ + 1, !.lastMeasurement = gate, !.stored = kept] \in SensorState
  BY <1>1, <1>2, <1>4
<1> QED
  BY <1>3, <1>5

-----------------------------------------------------------------------------
(***************************************************************************)
(* What relates a sensor s to the arrival times acc of its recorded        *)
(* measurements when the clock shows t.  The gate is at or past every      *)
(* recorded slot and never in the future; everything stored was recorded;  *)
(* the newest recorded slot is stored until it is too old to be kept.      *)
(***************************************************************************)
SlotOf(a, cfg) == Timeslot(a, cfg.rest)

GateOK(s, cfg, acc, t) ==
    /\ s.lastMeasurement <= t
    /\ \A a \in acc : a <= t /\ SlotOf(a, cfg) <= s.lastMeasurement

StoreOK(s, cfg, acc) ==
    /\ \A u \in s.stored : \E a \in acc : u = SlotOf(a, cfg)
    /\ HasNewest(s.stored)

NewestOK(s, cfg, acc, t) ==
    \A a \in acc :
        (\A b \in acc : SlotOf(b, cfg) <= SlotOf(a, cfg)) =>
            SlotOf(a, cfg) \in s.stored \/ SlotOf(a, cfg) < t - cfg.keep

SensorOK(s, cfg, acc, t) ==
    /\ GateOK(s, cfg, acc, t)
    /\ StoreOK(s, cfg, acc)
    /\ NewestOK(s, cfg, acc, t)

(***************************************************************************)
(* The relation survives the clock moving on.                              *)
(***************************************************************************)
LEMMA LaterOK ==
    ASSUME NEW cfg \in SensorConfig, NEW s \in SensorState, NEW acc \in SUBSET Nat,
           NEW t \in Nat, NEW u \in Nat, t <= u, SensorOK(s, cfg, acc, t)
    PROVE  SensorOK(s, cfg, acc, u)
<1>1. cfg.keep \in Nat /\ cfg.rest \in Nat \ {0}
  BY DEF SensorConfig
<1>2. \A a \in acc : SlotOf(a, cfg) \in Nat
  BY <1>1, SlotBounds DEF SlotOf
<1>3. s.lastMeasurement \in Nat
  BY DEF SensorState
<1>4. GateOK(s, cfg, acc, u)
  BY <1>3 DEF SensorOK, GateOK
<1>5. NewestOK(s, cfg, acc, u)
  BY <1>1, <1>2 DEF SensorOK, NewestOK
<1> QED
  BY <1>4, <1>5 DEF SensorOK

(***************************************************************************)
(* clean() at a clock reading in the past keeps the relation.              *)
(***************************************************************************)
LEMMA CleanedOK ==
    ASSUME NEW cfg \in SensorConfig, NEW s \in SensorState, NEW acc \in SUBSET Nat,
           NEW t \in Nat, NEW c \in Nat, c <= t, SensorOK(s, cfg, acc, t)
    PROVE  /\ Cleaned(s, cfg, c) \in SensorState
           /\ SensorOK(Cleaned(s, cfg, c), cfg, acc, t)
           /\ Cleaned(s, cfg, c).lastMeasurement = s.lastMeasurement
           /\ Cleaned(s, cfg, c).readFailures = s.readFailures
<1> DEFINE n == Cleaned(s, cfg, c)
<1>1. cfg.keep \in Nat /\ cfg.rest \in Nat \ {0} /\ c - cfg.keep \in Int
  BY DEF SensorConfig
<1>2. /\ n \in SensorState
      /\ n.lastMeasurement = s.lastMeasurement
      /\ n.readFailures = s.readFailures
      /\ n.stored = Clean(s.stored, c - cfg.keep)
  BY DEF SensorState, Cleaned, Clean
<1>3. \A a \in acc : SlotOf(a, cfg) \in Nat
  BY <1>1, SlotBounds DEF SlotOf
<1>4. GateOK(n, cfg, acc, t)
  BY <1>2 DEF SensorOK, GateOK
<1>5. StoreOK(n, cfg, acc)
  <2>1. s.stored \in SUBSET Nat /\ HasNewest(s.stored)
    BY DEF SensorState, SensorOK, StoreOK
  <2>2. HasNewest(n.stored)
    BY <1>1, <1>2, <2>1, CleanKeepsNewest
  <2>3. n.stored \subseteq s.stored
    BY <1>2 DEF Clean
  <2> QED
    BY <2>2, <2>3 DEF SensorOK, StoreOK
<1>6. NewestOK(n, cfg, acc, t)
  BY <1>1, <1>2, <1>3 DEF SensorOK, NewestOK, Clean
<1> QED
  BY <1>2, <1>4, <1>5, <1>6 DEF SensorOK

(***************************************************************************)
(* addRawMeasurement() at the time t, with the gate open: the measurement  *)
(* goes into a slot of its own and into the store, whose own rest check    *)
(* does not refuse it.                                                     *)
(***************************************************************************)
LEMMA RecordedOK ==
    ASSUME NEW cfg \in SensorConfig, NEW s \in SensorState, NEW acc \in SUBSET Nat,
           NEW t \in Nat, cfg.rest + cfg.keep < t,
           SensorOK(s, cfg, acc, t), Rested(s, cfg, t)
    PROVE  LET n == AddRawMeasurement(s, cfg, t)
           IN  /\ n \in SensorState
               /\ SensorOK(n, cfg, acc \cup {t}, t)
               /\ n.readFailures = 0
               /\ ~n.lastValuePublished
               /\ \A a \in acc : SlotOf(a, cfg) < SlotOf(t, cfg)
               /\ SlotOf(t, cfg) \in n.stored
               /\ \A u \in n.stored : u <= SlotOf(t, cfg)
<1> DEFINE slot == SlotOf(t, cfg)
           kept == Clean(s.stored, slot - cfg.keep)
           n    == AddRawMeasurement(s, cfg, t)
<1>1. /\ cfg.keep \in Nat /\ cfg.rest \in Nat \ {0} /\ cfg.isCounter \in BOOLEAN
      /\ s.lastMeasurement \in Nat /\ s.stored \in SUBSET Nat
  BY DEF SensorConfig, SensorState
<1>2. slot \in Nat /\ slot <= t /\ t < slot + cfg.rest
  BY <1>1, SlotBounds DEF SlotOf
<1>3. s.lastMeasurement + cfg.rest <= t
  BY <1>1 DEF Rested, TimeDiff, SensorOK, GateOK
<1>4. \A a \in acc : /\ SlotOf(a, cfg) \in Nat
                     /\ SlotOf(a, cfg) + cfg.rest <= slot
                     /\ a <= t
  <2> TAKE a \in acc
  <2>1. SlotOf(a, cfg) \in Nat /\ a <= t /\ SlotOf(a, cfg) <= s.lastMeasurement
    BY <1>1, SlotBounds DEF SlotOf, SensorOK, GateOK
  <2>2. SlotOf(a, cfg) + cfg.rest <= t
    BY <1>1, <1>3, <2>1
  <2>3. SlotOf(a, cfg) + cfg.rest <= slot
    BY <1>1, <2>2, SlotStep DEF SlotOf
  <2> QED
    BY <2>1, <2>3
<1>5. kept \in SUBSET Nat /\ HasNewest(kept) /\ kept \subseteq s.stored
  <2>1. slot - cfg.keep \in Int
    BY <1>1, <1>2
  <2>2. HasNewest(kept)
    BY <1>1, <2>1, CleanKeepsNewest DEF SensorOK, StoreOK
  <2> QED
    BY <1>1, <2>2 DEF Clean
<1>6. \A u \in kept : u + cfg.rest <= slot
  BY <1>4, <1>5 DEF SensorOK, StoreOK
<1>7. cfg.rest <= slot
  <2>1. Timeslot(0, cfg.rest) = 0
    BY <1>1 DEF Timeslot
  <2>2. Timeslot(0, cfg.rest) + cfg.rest <= t
    BY <1>1, <2>1
  <2> QED
    BY <1>1, <2>1, <2>2, SlotStep DEF SlotOf
<1> DEFINE store == IF cfg.isCounter THEN SetOnlyValue(slot)
                    ELSE AddValue(kept, slot, cfg.rest)
<1>8. /\ slot \in store
      /\ store \subseteq kept \cup {slot}
      /\ \A u \in store : u <= slot
  <2>1. CASE cfg.isCounter
    BY <1>2, <2>1 DEF SetOnlyValue
  <2>2. CASE ~cfg.isCounter
    BY <1>1, <1>2, <1>5, <1>6, <1>7, <2>2, AddValueStores
  <2> QED
    BY <1>1, <2>1, <2>2
<1>9. n = [lastMeasurement |-> slot, stored |-> store,
           readFailures |-> 0, lastValuePublished |-> FALSE]
  BY DEF AddRawMeasurement, SlotOf
<1> HIDE DEF n, store, slot, kept
<1>10. n \in SensorState
  BY <1>2, <1>5, <1>8, <1>9 DEF SensorState
<1>11. GateOK(n, cfg, acc \cup {t}, t)
  BY <1>1, <1>2, <1>4, <1>9 DEF GateOK, slot
<1>12. StoreOK(n, cfg, acc \cup {t})
  <2>1. \A u \in store : \E a \in acc \cup {t} : u = SlotOf(a, cfg)
    BY <1>5, <1>8 DEF SensorOK, StoreOK, slot
  <2>2. HasNewest(store)
    BY <1>8 DEF HasNewest
  <2> QED
    BY <1>9, <2>1, <2>2 DEF StoreOK
<1>13. NewestOK(n, cfg, acc \cup {t}, t)
  <2> SUFFICES ASSUME NEW a \in acc \cup {t},
                      \A b \in acc \cup {t} : SlotOf(b, cfg) <= SlotOf(a, cfg)
               PROVE  SlotOf(a, cfg) \in store
    BY <1>9 DEF NewestOK
  <2>1. slot <= SlotOf(a, cfg)
    BY DEF slot
  <2>2. a = t
    <3> SUFFICES ASSUME a \in acc
                 PROVE  FALSE
      OBVIOUS
    <3>1. SlotOf(a, cfg) \in Nat /\ SlotOf(a, cfg) + cfg.rest <= slot
      BY <1>4
    <3> QED
      BY <1>1, <1>2, <2>1, <3>1
  <2> QED
    BY <1>8, <2>2 DEF slot
<1>14. \A a \in acc : SlotOf(a, cfg) < slot
  BY <1>1, <1>2, <1>4
<1> QED
  BY <1>8, <1>9, <1>10, <1>11, <1>12, <1>13, <1>14 DEF SensorOK, n, slot

(***************************************************************************)
(* addReadFailure() with the gate open: the failure is counted, and the    *)
(* gate moves to where it opens in time for the retry, never back and      *)
(* never into the future.                                                  *)
(***************************************************************************)
LEMMA FailedOK ==
    ASSUME NEW cfg \in SensorConfig, NEW s \in SensorState, NEW acc \in SUBSET Nat,
           NEW t \in Nat, cfg.rest + cfg.keep < t,
           SensorOK(s, cfg, acc, t), Rested(s, cfg, t)
    PROVE  LET n == AddReadFailure(s, cfg, t)
           IN  /\ n \in SensorState
               /\ SensorOK(n, cfg, acc, t)
               /\ n.readFailures = s.readFailures + 1
               /\ n.lastMeasurement + cfg.rest <= t + Lesser(cfg.retry, cfg.rest)
<1> DEFINE base == IF s.lastMeasurement = 0 THEN t - cfg.rest ELSE s.lastMeasurement
           gate == base + Lesser(cfg.retry, cfg.rest)
           c    == Cleaned(s, cfg, t)
           n    == AddReadFailure(s, cfg, t)
<1>1. /\ cfg.keep \in Nat /\ cfg.rest \in Nat \ {0} /\ cfg.retry \in Nat \ {0}
      /\ s.lastMeasurement \in Nat /\ s.readFailures \in Nat
  BY DEF SensorConfig, SensorState
<1>2. s.lastMeasurement + cfg.rest <= t
  BY <1>1 DEF Rested, TimeDiff, SensorOK, GateOK
<1>3. base \in Nat /\ s.lastMeasurement <= base /\ base + cfg.rest <= t
  BY <1>1, <1>2
<1>4. /\ Lesser(cfg.retry, cfg.rest) \in Nat
      /\ Lesser(cfg.retry, cfg.rest) <= cfg.rest
  BY <1>1 DEF Lesser
<1>5. gate \in Nat /\ s.lastMeasurement <= gate /\ gate <= t
  BY <1>1, <1>3, <1>4
<1>6. /\ c \in SensorState
      /\ SensorOK(c, cfg, acc, t)
      /\ c.readFailures = s.readFailures
  BY CleanedOK
<1>7. n = [c EXCEPT !.readFailures = s.readFailures + 1, !.lastMeasurement = gate]
  BY DEF AddReadFailure, Cleaned, SensorState
<1> HIDE DEF n, c, gate, base
<1>8. /\ n \in SensorState
      /\ n.lastMeasurement = gate
      /\ n.readFailures = s.readFailures + 1
      /\ n.stored = c.stored
  <2>1. n = [lastMeasurement    |-> gate,
             stored             |-> c.stored,
             readFailures       |-> s.readFailures + 1,
             lastValuePublished |-> c.lastValuePublished]
    BY <1>6, <1>7 DEF SensorState
  <2> QED
    BY <1>1, <1>5, <1>6, <2>1 DEF SensorState
<1>9. GateOK(n, cfg, acc, t)
  <2> SUFFICES ASSUME NEW a \in acc
               PROVE  a <= t /\ SlotOf(a, cfg) <= gate
    BY <1>5, <1>8 DEF GateOK
  <2>1. a <= t /\ SlotOf(a, cfg) <= s.lastMeasurement /\ SlotOf(a, cfg) \in Nat
    BY <1>1, SlotBounds DEF SensorOK, GateOK, SlotOf
  <2> QED
    BY <1>1, <1>5, <2>1
<1>10. StoreOK(n, cfg, acc) /\ NewestOK(n, cfg, acc, t)
  BY <1>6, <1>8 DEF SensorOK, StoreOK, NewestOK
<1>11. gate + cfg.rest <= t + Lesser(cfg.retry, cfg.rest)
  BY <1>1, <1>3, <1>4 DEF gate
<1> QED
  BY <1>8, <1>9, <1>10, <1>11 DEF SensorOK, n

-----------------------------------------------------------------------------
(***************************************************************************)
(* A store of timestamps that is not empty has an oldest one.              *)
(***************************************************************************)
LEMMA HasOldest ==
    ASSUME NEW store \in SUBSET Nat, store # {}
    PROVE  \E t \in store : \A u \in store : t <= u
<1>1. PICK t \in store : \A u \in store : ~(<<u, t>> \in OpToRel(<, Nat))
  BY NatLessThanWellFounded, WFMin
<1>2. \A u \in store : ~(u < t)
  BY <1>1 DEF OpToRel
<1> QED
  BY <1>2

(***************************************************************************)
(* A full store that takes one more loses exactly one measurement.         *)
(***************************************************************************)
LEMMA OldestGoes ==
    ASSUME NEW store \in SUBSET Nat, IsFiniteSet(store), store # {}
    PROVE  \E t \in store :
               /\ WithoutOldest(store) = store \ {t}
               /\ \A u \in store \ {t} : t < u
               /\ Cardinality(store \ {t}) = Cardinality(store) - 1
<1>1. PICK t \in store : \A u \in store : t <= u
  BY HasOldest
<1>2. \A u \in store \ {t} : t < u
  BY <1>1
<1>3. WithoutOldest(store) = store \ {t}
  <2>1. \A u \in store : ~(u < t)
    BY <1>1
  <2>2. WithoutOldest(store) \subseteq store \ {t}
    BY <2>1 DEF WithoutOldest
  <2>3. store \ {t} \subseteq WithoutOldest(store)
    BY <1>2 DEF WithoutOldest
  <2> QED
    BY <2>2, <2>3
<1>4. Cardinality(store \ {t}) = Cardinality(store) - 1
  BY FS_RemoveElement
<1> QED
  BY <1>2, <1>3, <1>4

(***************************************************************************)
(* How a store relates to the arrival times acc when the clock shows t:    *)
(* the inductive form of RetentionComplete.                                *)
(***************************************************************************)
Excused(a, store, cfg, t) ==
    \/ SlotOf(a, cfg) < t - cfg.keep
    \/ /\ Cardinality(store) = MaxMeasurements
       /\ \A u \in store : SlotOf(a, cfg) < u

Retains(store, cfg, acc, t) ==
    /\ IsFiniteSet(store)
    /\ Cardinality(store) <= MaxMeasurements
    /\ \A a \in acc : SlotOf(a, cfg) \in store \/ Excused(a, store, cfg, t)

(* A slot is a timestamp.                                                  *)
LEMMA SlotNat ==
    ASSUME NEW cfg \in SensorConfig, NEW a \in Nat
    PROVE  SlotOf(a, cfg) \in Nat
BY SlotBounds DEF SlotOf, SensorConfig

(* The relation survives the clock moving on.                              *)
LEMMA LaterRetains ==
    ASSUME NEW cfg \in SensorConfig, NEW store \in SUBSET Nat, NEW acc \in SUBSET Nat,
           NEW t \in Nat, NEW u \in Nat, t <= u, Retains(store, cfg, acc, t)
    PROVE  Retains(store, cfg, acc, u)
<1>1. cfg.keep \in Nat
  BY DEF SensorConfig
<1>2. \A a \in acc : SlotOf(a, cfg) \in Nat
  BY SlotNat
<1> QED
  BY <1>1, <1>2 DEF Retains, Excused

(***************************************************************************)
(* clean() of what no column may ask for any more.                         *)
(***************************************************************************)
LEMMA CleanRetains ==
    ASSUME NEW cfg \in SensorConfig, NEW store \in SUBSET Nat, NEW acc \in SUBSET Nat,
           NEW t \in Nat, NEW e \in Int, e <= t - cfg.keep, Retains(store, cfg, acc, t)
    PROVE  Retains(Clean(store, e), cfg, acc, t)
<1> DEFINE kept == Clean(store, e)
<1>1. cfg.keep \in Nat /\ t - cfg.keep \in Int
  BY DEF SensorConfig
<1>2. kept \subseteq store /\ \A u \in store \ kept : u < e
  BY DEF Clean
<1>3. /\ IsFiniteSet(kept) /\ Cardinality(kept) <= Cardinality(store)
      /\ Cardinality(store) \in Nat /\ Cardinality(kept) \in Nat
      /\ Cardinality(store) <= MaxMeasurements
  BY <1>2, FS_Subset, FS_CardinalityType DEF Retains
<1> HIDE DEF kept
<1>4. ASSUME NEW a \in acc PROVE SlotOf(a, cfg) \in kept \/ Excused(a, kept, cfg, t)
  <2>1. SlotOf(a, cfg) \in Nat
    BY SlotNat
  <2>2. CASE SlotOf(a, cfg) \in store
    BY <1>1, <1>2, <2>1, <2>2 DEF Excused
  <2>3. CASE Excused(a, store, cfg, t)
    <3>1. CASE kept = store
      BY <2>3, <3>1
    <3>2. CASE kept # store
      <4>1. PICK u \in store : u < e
        BY <1>2, <3>2
      <4>2. SlotOf(a, cfg) < t - cfg.keep
        BY <1>1, <2>1, <2>3, <4>1 DEF Excused
      <4> QED
        BY <4>2 DEF Excused
    <3> QED
      BY <3>1, <3>2
  <2> QED
    BY <2>2, <2>3 DEF Retains
<1> QED
  BY <1>3, <1>4, MaxMeasurementsAssumption DEF Retains, kept
(***************************************************************************)
(* addValue(): the timestamp ts of a new measurement, which is past        *)
(* everything recorded, goes into the store, and the oldest goes from a    *)
(* store that is full.                                                     *)
(***************************************************************************)
LEMMA AddRetains ==
    ASSUME NEW cfg \in SensorConfig, NEW store \in SUBSET Nat, NEW acc \in SUBSET Nat,
           NEW t \in Nat, NEW n \in Nat, Retains(store, cfg, acc, t),
           \A a \in acc : SlotOf(a, cfg) < SlotOf(n, cfg),
           \A u \in store : u < SlotOf(n, cfg),
           SlotOf(n, cfg) \in AddValue(store, SlotOf(n, cfg), cfg.rest)
    PROVE  Retains(AddValue(store, SlotOf(n, cfg), cfg.rest), cfg, acc \cup {n}, t)
<1> DEFINE ts    == SlotOf(n, cfg)
           added == store \cup {ts}
           final == AddValue(store, ts, cfg.rest)
<1>1. /\ ts \in Nat /\ ts \notin store
      /\ IsFiniteSet(store) /\ Cardinality(store) \in Nat
      /\ Cardinality(store) <= MaxMeasurements
  BY SlotNat, FS_CardinalityType DEF Retains
<1>2. IsFiniteSet(added) /\ Cardinality(added) = Cardinality(store) + 1
  BY <1>1, FS_AddElement
<1>3. final = IF Cardinality(added) > MaxMeasurements THEN WithoutOldest(added) ELSE added
  <2>1. ts \notin WithoutOldest(store)
    BY <1>1 DEF WithoutOldest
  <2> QED
    BY <1>1, <2>1 DEF AddValue
<1> HIDE DEF final, ts
<1>4. \A a \in acc : SlotOf(a, cfg) \in Nat /\ SlotOf(a, cfg) < ts
  BY SlotNat DEF ts
<1>5. CASE Cardinality(added) <= MaxMeasurements
  <2>1. final = added
    BY <1>1, <1>2, <1>3, <1>5, MaxMeasurementsAssumption
  <2>2. \A a \in acc : SlotOf(a, cfg) \in added \/ SlotOf(a, cfg) < t - cfg.keep
    BY <1>1, <1>2, <1>5, MaxMeasurementsAssumption DEF Retains, Excused
  <2> QED
    BY <1>2, <1>5, <2>1, <2>2 DEF Retains, Excused, final, ts
<1>6. CASE Cardinality(added) > MaxMeasurements
  <2>1. Cardinality(store) = MaxMeasurements /\ store # {}
    BY <1>1, <1>2, <1>6, FS_EmptySet, MaxMeasurementsAssumption
  <2>2. PICK m \in added : /\ WithoutOldest(added) = added \ {m}
                           /\ \A u \in added \ {m} : m < u
                           /\ Cardinality(added \ {m}) = Cardinality(added) - 1
    <3>1. added \in SUBSET Nat /\ added # {}
      BY <1>1
    <3> HIDE DEF added
    <3> QED
      BY <1>2, <3>1, OldestGoes
  <2>3. final = added \ {m}
    BY <1>3, <1>6, <2>2
  <2>4. /\ IsFiniteSet(final) /\ Cardinality(final) = MaxMeasurements
    BY <1>1, <1>2, <2>1, <2>2, <2>3, FS_Subset
  <2>5. ASSUME NEW a \in acc \cup {n}
        PROVE  SlotOf(a, cfg) \in final \/ Excused(a, final, cfg, t)
    <3>1. CASE a = n
      BY <3>1 DEF final, ts
    <3>2. CASE a \in acc /\ SlotOf(a, cfg) \in store
      BY <2>2, <2>3, <2>4, <3>2 DEF Excused
    <3>3. CASE a \in acc /\ Excused(a, store, cfg, t)
      BY <1>4, <2>3, <2>4, <3>3 DEF Excused
    <3> QED
      BY <3>1, <3>2, <3>3 DEF Retains
  <2> QED
    BY <2>4, <2>5, MaxMeasurementsAssumption DEF Retains, final, ts
<1> QED
  BY <1>1, <1>2, <1>5, <1>6, MaxMeasurementsAssumption

(***************************************************************************)
(* addRawMeasurement() with the gate open: clean() and addValue().         *)
(***************************************************************************)
LEMMA RecordRetains ==
    ASSUME NEW cfg \in SensorConfig, ~cfg.isCounter, NEW s \in SensorState,
           NEW acc \in SUBSET Nat, NEW t \in Nat, cfg.rest + cfg.keep < t,
           SensorOK(s, cfg, acc, t), Rested(s, cfg, t), Retains(s.stored, cfg, acc, t)
    PROVE  Retains(AddRawMeasurement(s, cfg, t).stored, cfg, acc \cup {t}, t)
<1> DEFINE slot == SlotOf(t, cfg)
           kept == Clean(s.stored, slot - cfg.keep)
<1>1. /\ cfg.keep \in Nat /\ slot \in Nat /\ slot <= t /\ s.stored \in SUBSET Nat
  BY SlotBounds DEF SlotOf, SensorConfig, SensorState
<1>2. AddRawMeasurement(s, cfg, t).stored = AddValue(kept, slot, cfg.rest)
  BY DEF AddRawMeasurement, SlotOf
<1>3. /\ slot \in AddValue(kept, slot, cfg.rest)
      /\ \A a \in acc : SlotOf(a, cfg) < slot
  BY <1>2, RecordedOK
<1>4. kept \in SUBSET Nat /\ \A u \in kept : u < slot
  BY <1>1, <1>3 DEF Clean, SensorOK, StoreOK
<1>5. Retains(kept, cfg, acc, t)
  <2>1. slot - cfg.keep \in Int /\ slot - cfg.keep <= t - cfg.keep
    BY <1>1
  <2> QED
    BY <1>1, <2>1, CleanRetains
<1> HIDE DEF kept
<1> QED
  BY <1>2, <1>3, <1>4, <1>5, AddRetains
=============================================================================
