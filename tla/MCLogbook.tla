------------------------------ MODULE MCLogbook ------------------------------
(***************************************************************************)
(* Small instances of Logbook: a cycle of two rest periods.                *)
(***************************************************************************)
EXTENDS Logbook

Column(op, period) == [op |-> op, period |-> period]

(* A count, a moving count over two cycles, a mean over one cycle.         *)
PolledColumns == <<Column("mean", 0), Column("count", 0), Column("count", 8)>>

CountColumn == <<Column("count", 0)>>
=============================================================================
