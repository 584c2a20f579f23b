------------------------------- MODULE Sensor -------------------------------
(***************************************************************************)
(* The state of one sensor object (sensor.cpp) and the operations every    *)
(* kind of sensor shares, as functions from a sensor to a sensor.          *)
(*                                                                         *)
(* A configuration cfg holds what logger::loadConfig sets: rest            *)
(* (_minimumRestPeriod), retry (getRetryTime()), keep (_keepValuesFor_ms), *)
(* isCounter.  Every operator takes the clock reading the code takes.      *)
(***************************************************************************)
EXTENDS Measurements

SensorConfig == [rest : Nat \ {0}, retry : Nat \ {0}, keep : Nat, isCounter : BOOLEAN]

SensorState == [lastMeasurement    : Nat,
                stored             : SUBSET Nat,
                readFailures       : Nat,
                lastValuePublished : BOOLEAN]

NewSensor == [lastMeasurement    |-> 0,
              stored             |-> {},
              readFailures       |-> 0,
              lastValuePublished |-> FALSE]

Lesser(a, b) == IF a < b THEN a ELSE b

(***************************************************************************)
(* Has the rest period passed?  The gate of measure(), addRawMeasurement() *)
(* and addReadFailure().                                                   *)
(***************************************************************************)
(* Mutant: the gate opens one ms early.                                    *)
RestedEarly(s, cfg, timestamp) == TimeDiff(s.lastMeasurement, timestamp) + 1 >= cfg.rest

Rested(s, cfg, timestamp) == TimeDiff(s.lastMeasurement, timestamp) >= cfg.rest

Cleaned(s, cfg, timestamp) == [s EXCEPT !.stored = Clean(@, timestamp - cfg.keep)]

(***************************************************************************)
(* addRawMeasurement: a rejected value still resets the read failures.     *)
(***************************************************************************)
(* Mutant: a measurement leaves the read failures as they are.             *)
AddRawKeepingFailures(s, cfg, timestamp) ==
    LET slot == Timeslot(timestamp, cfg.rest)
        kept == Clean(s.stored, slot - cfg.keep)
    IN  IF Rested(s, cfg, timestamp)
        THEN [s EXCEPT !.lastMeasurement    = slot,
                       !.stored             = IF cfg.isCounter THEN SetOnlyValue(slot)
                                              ELSE AddValue(kept, slot, cfg.rest),
                       !.lastValuePublished = FALSE]
        ELSE s

(* Mutant: the new value still counts as published.                        *)
AddRawKeepingFlag(s, cfg, timestamp) ==
    LET slot == Timeslot(timestamp, cfg.rest)
        kept == Clean(s.stored, slot - cfg.keep)
    IN  IF Rested(s, cfg, timestamp)
        THEN [s EXCEPT !.lastMeasurement = slot,
                       !.stored          = IF cfg.isCounter THEN SetOnlyValue(slot)
                                           ELSE AddValue(kept, slot, cfg.rest),
                       !.readFailures    = 0]
        ELSE [s EXCEPT !.readFailures = 0]

AddRawMeasurement(s, cfg, timestamp) ==
    LET slot == Timeslot(timestamp, cfg.rest)
        kept == Clean(s.stored, slot - cfg.keep)
    IN  IF Rested(s, cfg, timestamp)
        THEN [lastMeasurement    |-> slot,
              stored             |-> IF cfg.isCounter THEN SetOnlyValue(slot)
                                     ELSE AddValue(kept, slot, cfg.rest),
              readFailures       |-> 0,
              lastValuePublished |-> FALSE]
        ELSE [s EXCEPT !.readFailures = 0]

(***************************************************************************)
(* addReadFailure: the gate is moved so that it opens after the retry time *)
(* or after the rest period, whichever is shorter.                         *)
(***************************************************************************)
(* Mutant: the longer of the two times is waited for.                      *)
AddReadFailureLonger(s, cfg, timestamp) ==
    LET base == IF s.lastMeasurement = 0 THEN timestamp - cfg.rest ELSE s.lastMeasurement
    IN  IF Rested(s, cfg, timestamp)
        THEN [s EXCEPT !.readFailures    = @ + 1,
                       !.lastMeasurement = base + (cfg.retry + cfg.rest)
                                                - Lesser(cfg.retry, cfg.rest),
                       !.stored          = Clean(@, timestamp - cfg.keep)]
        ELSE s

AddReadFailure(s, cfg, timestamp) ==
    LET base == IF s.lastMeasurement = 0 THEN timestamp - cfg.rest ELSE s.lastMeasurement
    IN  IF Rested(s, cfg, timestamp)
        THEN [s EXCEPT !.readFailures    = @ + 1,
                       !.lastMeasurement = base + Lesser(cfg.retry, cfg.rest),
                       !.stored          = Clean(@, timestamp - cfg.keep)]
        ELSE s

(***************************************************************************)
(* publishLastEvent, where nothing interleaves with it: an empty store     *)
(* throws and leaves the value unpublished.                                *)
(***************************************************************************)
Published(s) == [s EXCEPT !.lastValuePublished = @ \/ s.stored # {}]

ResetReadFailures(s) == [s EXCEPT !.readFailures = 0]
=============================================================================
