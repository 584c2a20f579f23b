----------------------------- MODULE EventLedger -----------------------------
(***************************************************************************)
(* What a count column promises: every event is reported in exactly one    *)
(* entry.  pending are the events since the last entry, reported is the    *)
(* sum of all entries.                                                     *)
(***************************************************************************)
EXTENDS Naturals

VARIABLES pending, reported

Init == pending = 0 /\ reported = 0

Event == pending' = pending + 1 /\ UNCHANGED reported

Entry == reported' = reported + pending /\ pending' = 0

Next == Event \/ Entry

Spec == Init /\ [][Next]_<<pending, reported>>
=============================================================================
