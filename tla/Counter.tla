------------------------------ MODULE Counter ------------------------------
(***************************************************************************)
(* The event counters of counter.cpp, as functions from a counter to a     *)
(* counter.  A counter is the vector of its cycles, oldest first; its last *)
(* element is _currentCounter in every state the program reaches.          *)
(***************************************************************************)
EXTENDS Timestamps, SequencesExt

(***************************************************************************)
(* cycleCounter: the counts since start and the least and the greatest     *)
(* distance of two counts, 0 standing for "none yet".                      *)
(***************************************************************************)
CycleState == [start : Nat, counts : Nat, lastCount : Nat, minDist : Nat, maxDist : Nat]

NewCycle(timestamp) ==
    [start |-> timestamp, counts |-> 0, lastCount |-> 0, minDist |-> 0, maxDist |-> 0]

(* Mutant: the distance 0 that stands for "none yet" is a least distance.  *)
CountInCycleFromZero(cycle, timestamp) ==
    LET d == TimeDiff(timestamp, cycle.lastCount)
    IN  [cycle EXCEPT
            !.counts    = @ + 1,
            !.lastCount = timestamp,
            !.maxDist   = IF d > @ THEN d ELSE @,
            !.minDist   = IF d < @ THEN d ELSE @]

CountInCycle(cycle, timestamp) ==
    LET d == TimeDiff(timestamp, cycle.lastCount)
    IN  [cycle EXCEPT
            !.counts    = @ + 1,
            !.lastCount = timestamp,
            !.maxDist   = IF @ = 0 \/ d > @ THEN d ELSE @,
            !.minDist   = IF @ = 0 \/ d < @ THEN d ELSE @]

(***************************************************************************)
(* counter: nCyclesToStore cycles are kept, 0 standing for "never start a  *)
(* new one".                                                               *)
(***************************************************************************)
CounterState == [nCyclesToStore : Nat, cycles : Seq(CycleState) \ {<<>>}]

NewCounter(timestamp) == [nCyclesToStore |-> 1, cycles |-> <<NewCycle(timestamp)>>]

ResetCounter(c, timestamp) == [c EXCEPT !.cycles = <<NewCycle(timestamp)>>]

Count(c, timestamp) ==
    [c EXCEPT !.cycles[Len(c.cycles)] = CountInCycle(@, timestamp)]

AccumulateCyclesToStore(c, n) ==
    [c EXCEPT !.nCyclesToStore = IF @ > 0 /\ (n = 0 \/ n > @) THEN n ELSE @]

(***************************************************************************)
(* The last n elements of a sequence, or all of them.                      *)
(***************************************************************************)
LastN(seq, n) == IF Len(seq) <= n THEN seq ELSE SubSeq(seq, Len(seq) - n + 1, Len(seq))

(***************************************************************************)
(* Nothing happens unless the new cycle is younger than the current one:   *)
(* of several columns that share the counter, the first starts the cycle.  *)
(***************************************************************************)
(* Mutant: every column starts a cycle of its own.                         *)
StartNewCycleAgain(c, timestamp) ==
    IF c.nCyclesToStore > 0
    THEN [c EXCEPT !.cycles =
             Append(LastN(@, c.nCyclesToStore - 1), NewCycle(timestamp))]
    ELSE c

(* Mutant: the last count, not the cycle, has to be older.                 *)
StartNewCycleIfIdle(c, timestamp) ==
    IF c.nCyclesToStore > 0 /\ timestamp > Last(c.cycles).lastCount
    THEN [c EXCEPT !.cycles =
             Append(LastN(@, c.nCyclesToStore - 1), NewCycle(timestamp))]
    ELSE c

StartNewCycle(c, timestamp) ==
    IF c.nCyclesToStore > 0 /\ timestamp > Last(c.cycles).start
    THEN [c EXCEPT !.cycles =
             Append(LastN(@, c.nCyclesToStore - 1), NewCycle(timestamp))]
    ELSE c

(***************************************************************************)
(* The cycles an evaluation over n cycles looks at: 0 means all of them.   *)
(***************************************************************************)
Evaluated(c, n) == IF n = 0 THEN c.cycles ELSE LastN(c.cycles, n)

Counts(c, n) ==
    IF n = 1 THEN Last(c.cycles).counts
             ELSE FoldLeft(LAMBDA sum, cycle : sum + cycle.counts, 0, Evaluated(c, n))
=============================================================================
