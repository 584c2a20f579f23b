----------------------------- MODULE Timestamps -----------------------------
(***************************************************************************)
(* Arithmetic of timestamps, which are counts of ms since 1970.            *)
(***************************************************************************)
EXTENDS Integers

(***************************************************************************)
(* Unsigned distance of two timestamps.                                    *)
(***************************************************************************)
TimeDiff(timestamp1, timestamp2) ==
    IF timestamp1 > timestamp2 THEN timestamp1 - timestamp2
                               ELSE timestamp2 - timestamp1

(***************************************************************************)
(* The full multiple of period at or before a timestamp.                   *)
(***************************************************************************)
Timeslot(timestamp, period) == timestamp - (timestamp % period)
=============================================================================
