---------------------------- MODULE Measurements ----------------------------
(***************************************************************************)
(* The measurement store of measurements.cpp.                              *)
(*                                                                         *)
(* A store is the pair of vectors _values, _timestamps.  Both rest checks  *)
(* of the sensor keep its timestamps distinct and, while the clock does    *)
(* not step back, increasing: a measurement is named by its timestamp and  *)
(* a store is a set of timestamps, ordered as the vector is.               *)
(***************************************************************************)
EXTENDS Timestamps, FiniteSets

CONSTANT MaxMeasurements      \* MAX_MEASUREMENTS of sensorlogger.h

ASSUME MaxMeasurementsAssumption == MaxMeasurements \in Nat \ {0}

(***************************************************************************)
(* The newest measurement of a store, which is the vector's last element;  *)
(* 0 stands for it in the code while the store is empty.                   *)
(***************************************************************************)
Newest(store) == CHOOSE t \in store : \A u \in store : u <= t

LastTimestamp(store) == IF store = {} THEN 0 ELSE Newest(store)

(* Mutant: a full store loses its newest measurement.                      *)
WithoutNewest(store) == {t \in store : \E u \in store : t < u}

(***************************************************************************)
(* A full store loses its oldest measurement.                              *)
(***************************************************************************)
WithoutOldest(store) == {t \in store : \E u \in store : u < t}

AddValue(store, timestamp, rest) ==
    LET added == IF TimeDiff(timestamp, LastTimestamp(store)) >= rest
                 THEN store \cup {timestamp}
                 ELSE store
    IN  IF Cardinality(added) > MaxMeasurements THEN WithoutOldest(added) ELSE added

(***************************************************************************)
(* A counter sensor keeps the last measurement only.                       *)
(***************************************************************************)
SetOnlyValue(timestamp) == {timestamp}

(* Mutant: a measurement at the limit goes.                                *)
CleanStrict(store, earliest) == {t \in store : t > earliest}

Clean(store, earliest) == {t \in store : t >= earliest}

(***************************************************************************)
(* The measurements a column evaluates: (start, newest].                   *)
(***************************************************************************)
(* Mutant: the start of the window is evaluated too.                       *)
InWindowClosed(store, start) == {t \in store : t >= start}

InWindow(store, start) == {t \in store : t > start}
=============================================================================
