--------------------------- MODULE Logbook_proofs ---------------------------
(***************************************************************************)
(* Theorems of Logbook, for any columns, cycle time and rest period.       *)
(***************************************************************************)
EXTENDS Logbook, Sensor_proofs, SequenceTheorems

-----------------------------------------------------------------------------
(***************************************************************************)
(* The event counter.                                                      *)
(***************************************************************************)
(* The sum of the counts of a sequence of cycles.                          *)
Total(s) == FoldLeft(LAMBDA sum, cycle : sum + cycle.counts, 0, s)

LEMMA GreatestOfSome ==
    ASSUME NEW n \in Nat, NEW u \in SUBSET (1..n), u # {}
    PROVE  /\ Max(u) \in u
           /\ \A k \in u : k <= Max(u)
           /\ n \in u => Max(u) = n
<1> DEFINE S == {n - k : k \in u}
<1>1. S \in SUBSET Nat /\ S # {}
  <2>1. \A k \in u : n - k \in Nat
    OBVIOUS
  <2> QED
    BY <2>1
<1>2. PICK m \in S : \A k \in S : m <= k
  <2> HIDE DEF S
  <2> QED
    BY <1>1, HasOldest
<1>3. \E x \in u : \A y \in u : x >= y
  <2>1. PICK x \in u : m = n - x
    BY <1>2
  <2>2. \A y \in u : x >= y
    <3> TAKE y \in u
    <3>1. n - x <= n - y
      BY <1>2, <2>1
    <3> QED
      BY <3>1
  <2> QED
    BY <2>2
<1>4. Max(u) \in u /\ \A k \in u : Max(u) >= k
  BY <1>3 DEF Max
<1> HIDE DEF S
<1>5. n \in u => Max(u) >= n
  BY <1>4
<1>6. \A k \in u : k \in 1..n
  OBVIOUS
<1>7. Max(u) \in 1..n
  BY <1>4, <1>6
<1> QED
  BY <1>4, <1>5, <1>7

(* The fold adds up the counts from the first cycle to the last.           *)
LEMMA SumOfCounts ==
    ASSUME NEW s \in Seq(CycleState)
    PROVE  \E sum \in [0..Len(s) -> Nat] :
              /\ sum[0] = 0
              /\ \A k \in 1..Len(s) : sum[k] = sum[k - 1] + s[k].counts
              /\ Total(s) = sum[Len(s)]
<1> DEFINE D == 1..Len(s)
           Iter(g, n) == [u \in SUBSET (1..n) |->
                             IF u = {} THEN 0 ELSE g[u \ {Max(u)}] + s[Max(u)].counts]
           iter == CHOOSE g : g = Iter(g, Len(s))
<1>0. Len(s) \in Nat /\ DOMAIN s = D /\ \A k \in D : s[k].counts \in Nat
  <2>1. Len(s) \in Nat /\ DOMAIN s = D
    OBVIOUS
  <2>2. \A k \in D : s[k] \in CycleState
    BY ElementOfSeq
  <2> QED
    BY <2>1, <2>2 DEF CycleState
<1>1. Total(s) = iter[D]
  BY <1>0 DEF Total, FoldLeft, MapThenFoldSet
<1>2. \A n \in 0..Len(s) : \E g : g = Iter(g, n)
  <2> DEFINE bad == {n \in 0..Len(s) : ~\E g : g = Iter(g, n)}
  <2> SUFFICES ASSUME bad # {} PROVE FALSE
    OBVIOUS
  <2>1. bad \in SUBSET Nat
    BY <1>0
  <2>2. PICK m \in bad : \A n \in bad : m <= n
    <3> HIDE DEF bad
    <3> QED
      BY <2>1, HasOldest
  <2>3. CASE m = 0
    <3> DEFINE g == [u \in SUBSET (1..0) |-> 0]
    <3>1. \A u \in SUBSET (1..0) : u = {}
      OBVIOUS
    <3>2. g = Iter(g, 0)
      BY <3>1
    <3> QED
      BY <2>3, <3>2
  <2>4. CASE m # 0
    <3>1. m - 1 \in 0..Len(s) /\ m - 1 \notin bad /\ m \in Nat
      <4>1. m \in 0..Len(s)
        BY <2>2
      <4>2. m \in Nat /\ m - 1 \in 0..Len(s) /\ ~(m <= m - 1)
        BY <1>0, <2>4, <4>1
      <4> HIDE DEF bad
      <4> QED
        BY <2>2, <4>2
    <3>2. PICK g : g = Iter(g, m - 1)
      BY <3>1
    <3> DEFINE h == [u \in SUBSET (1..m) |->
                        IF m \in u THEN g[u \ {m}] + s[m].counts ELSE g[u]]
    <3>3. ASSUME NEW u \in SUBSET (1..m)
          PROVE  h[u] = IF u = {} THEN 0 ELSE h[u \ {Max(u)}] + s[Max(u)].counts
      <4>1. CASE m \in u
        <5>1. Max(u) = m
          BY <3>1, <4>1, GreatestOfSome
        <5>2. u \ {m} \in SUBSET (1..m) /\ m \notin u \ {m} /\ u # {}
          BY <4>1
        <5>3. h[u \ {m}] = g[u \ {m}]
          BY <5>2
        <5>4. h[u] = g[u \ {m}] + s[m].counts
          BY <4>1
        <5> HIDE DEF h
        <5> QED
          BY <5>1, <5>2, <5>3, <5>4
      <4>2. CASE m \notin u
        <5>1. u \in SUBSET (1..(m - 1))
          BY <3>1, <4>2
        <5>2. h[u] = g[u]
          BY <4>2
        <5>3. g[u] = IF u = {} THEN 0 ELSE g[u \ {Max(u)}] + s[Max(u)].counts
          BY <3>2, <5>1
        <5>4. u \ {Max(u)} \in SUBSET (1..m) /\ m \notin u \ {Max(u)}
          BY <4>2
        <5>5. h[u \ {Max(u)}] = g[u \ {Max(u)}]
          BY <5>4
        <5> HIDE DEF h
        <5> QED
          BY <5>2, <5>3, <5>5
      <4> QED
        BY <4>1, <4>2
    <3>4. h = Iter(h, m)
      <4>1. h = [u \in SUBSET (1..m) |-> h[u]]
        OBVIOUS
      <4> HIDE DEF h
      <4> QED
        BY <3>3, <4>1
    <3> HIDE DEF h
    <3> QED
      BY <2>2, <3>4
  <2> QED
    BY <2>3, <2>4
<1>3. iter = Iter(iter, Len(s))
  <2>1. \E g : g = Iter(g, Len(s))
    <3>1. Len(s) \in 0..Len(s)
      BY <1>0
    <3> HIDE DEF Iter
    <3> QED
      BY <1>2, <3>1
  <2> HIDE DEF Iter
  <2> QED
    BY <2>1
<1> HIDE DEF iter
<1> DEFINE sum == [k \in 0..Len(s) |-> iter[1..k]]
<1>4. \A u \in SUBSET D : iter[u] = IF u = {} THEN 0 ELSE iter[u \ {Max(u)}] + s[Max(u)].counts
  BY <1>3
<1> HIDE DEF Iter
<1>5. sum[0] = 0
  <2>1. 1..0 = {} /\ {} \in SUBSET D
    OBVIOUS
  <2> QED
    BY <1>0, <1>4, <2>1
<1>6. ASSUME NEW k \in 1..Len(s) PROVE sum[k] = sum[k - 1] + s[k].counts
  <2>1. /\ 1..k \in SUBSET D /\ 1..k # {} /\ (1..k) \ {k} = 1..(k - 1)
        /\ k - 1 \in 0..Len(s) /\ k \in 0..Len(s) /\ k \in Nat /\ k \in 1..k
    BY <1>0
  <2>2. Max(1..k) = k
    BY <2>1, GreatestOfSome
  <2>3. iter[1..k] = iter[1..(k - 1)] + s[k].counts
    BY <1>4, <2>1, <2>2
  <2> QED
    BY <2>1, <2>3
<1> HIDE DEF iter
<1>s. /\ sum = [k \in 0..Len(s) |-> sum[k]] /\ sum[Len(s)] = iter[D]
  BY <1>0
<1> HIDE DEF sum
<1>7. \A k \in 0..Len(s) : sum[k] \in Nat
  <2> DEFINE bad == {k \in 0..Len(s) : sum[k] \notin Nat}
  <2> SUFFICES ASSUME bad # {} PROVE FALSE
    OBVIOUS
  <2>1. bad \in SUBSET Nat
    BY <1>0
  <2>2. PICK m \in bad : \A n \in bad : m <= n
    <3> HIDE DEF bad
    <3> QED
      BY <2>1, HasOldest
  <2>3. m # 0
    BY <1>5, <2>2
  <2>4. m \in 1..Len(s) /\ m - 1 \in 0..Len(s) /\ m - 1 \notin bad
    <3>1. m \in 0..Len(s)
      BY <2>2
    <3>2. m \in 1..Len(s) /\ m - 1 \in 0..Len(s) /\ ~(m <= m - 1)
      BY <1>0, <2>3, <3>1
    <3> HIDE DEF bad
    <3> QED
      BY <2>2, <3>2
  <2>5. sum[m - 1] \in Nat
    BY <2>4
  <2>6. sum[m] = sum[m - 1] + s[m].counts /\ s[m].counts \in Nat
    BY <1>0, <1>6, <2>4
  <2>7. sum[m] \notin Nat
    BY <2>2
  <2> QED
    BY <2>5, <2>6, <2>7
<1>8. sum \in [0..Len(s) -> Nat]
  BY <1>7, <1>s
<1> QED
  BY <1>1, <1>5, <1>6, <1>8, <1>s

(* A column's count is a number, and over two cycles it is the sum of the  *)
(* counts of the current cycle and of the one before it.                   *)
CountBefore(c) ==
    IF Len(c.cycles) = 1 THEN 0 ELSE c.cycles[Len(c.cycles) - 1].counts

LEMMA LastNCycles ==
    ASSUME NEW s \in Seq(CycleState), NEW n \in Nat
    PROVE  /\ LastN(s, n) \in Seq(CycleState)
           /\ Len(LastN(s, n)) = IF Len(s) <= n THEN Len(s) ELSE n
           /\ \A k \in 1..Len(LastN(s, n)) :
                 LastN(s, n)[k] = s[k + (Len(s) - Len(LastN(s, n)))]
<1>1. CASE Len(s) <= n
  <2>1. LastN(s, n) = s
    BY <1>1 DEF LastN
  <2>2. Len(s) \in Nat /\ \A k \in 1..Len(s) : k + (Len(s) - Len(s)) = k
    OBVIOUS
  <2> QED
    BY <1>1, <2>1, <2>2
<1>2. CASE ~(Len(s) <= n)
  <2> DEFINE m == Len(s) - n + 1
  <2>1. Len(s) \in Nat /\ m \in 1..(Len(s) + 1) /\ Len(s) - m + 1 = n
    BY <1>2
  <2>2. LastN(s, n) = SubSeq(s, m, Len(s))
    BY <1>2 DEF LastN
  <2>3. /\ SubSeq(s, m, Len(s)) \in Seq(CycleState)
        /\ Len(SubSeq(s, m, Len(s))) = Len(s) - m + 1
        /\ \A k \in 1..(Len(s) - m + 1) : SubSeq(s, m, Len(s))[k] = s[k + m - 1]
    <3> HIDE DEF m
    <3> QED
      BY <2>1, SubSeqProperties
  <2>4. \A k \in 1..n : k + m - 1 = k + (Len(s) - n)
    BY <2>1
  <2> HIDE DEF m
  <2> QED
    BY <1>2, <2>1, <2>2, <2>3, <2>4
<1> QED
  BY <1>1, <1>2

LEMMA CountsAreNumbers ==
    ASSUME NEW c \in CounterState, NEW n \in Nat
    PROVE  Counts(c, n) \in Nat
<1>1. c.cycles \in Seq(CycleState) /\ Len(c.cycles) \in Nat \ {0}
  BY DEF CounterState
<1>2. CASE n = 1
  <2>1. c.cycles[Len(c.cycles)] \in CycleState
    BY <1>1
  <2> QED
    BY <1>2, <2>1 DEF Counts, Last, CycleState
<1>3. CASE n # 1
  <2>1. Evaluated(c, n) \in Seq(CycleState)
    BY <1>1, LastNCycles DEF Evaluated
  <2>2. Counts(c, n) = Total(Evaluated(c, n))
    BY <1>3 DEF Counts, Total
  <2>3. Len(Evaluated(c, n)) \in 0..Len(Evaluated(c, n))
    BY <2>1
  <2> QED
    BY <2>1, <2>2, <2>3, SumOfCounts
<1> QED
  BY <1>2, <1>3

LEMMA CountsOfTwo ==
    ASSUME NEW c \in CounterState
    PROVE  /\ Counts(c, 2) = Last(c.cycles).counts + CountBefore(c)
           /\ CountBefore(c) \in Nat /\ Last(c.cycles).counts \in Nat
<1>1. c.cycles \in Seq(CycleState) /\ Len(c.cycles) \in Nat \ {0}
  BY DEF CounterState
<1>n. PICK n \in Nat \ {0} : n = Len(c.cycles)
  BY <1>1
<1> DEFINE s == Evaluated(c, 2)
<1>2. s = LastN(c.cycles, 2) /\ Counts(c, 2) = Total(s)
  <2>1. 2 # 1 /\ 2 # 0
    OBVIOUS
  <2>2. Evaluated(c, 2) = LastN(c.cycles, 2)
    BY <2>1 DEF Evaluated
  <2>3. Counts(c, 2) = Total(Evaluated(c, 2))
    BY <2>1 DEF Counts, Total
  <2> QED
    BY <2>2, <2>3
<1> HIDE DEF s
<1>3. /\ s \in Seq(CycleState)
      /\ Len(s) = IF n <= 2 THEN n ELSE 2
      /\ \A k \in 1..Len(s) : s[k] = c.cycles[k + (n - Len(s))]
  BY <1>1, <1>n, <1>2, LastNCycles
<1>4. \A k \in 1..n : c.cycles[k].counts \in Nat
  <2>1. \A k \in 1..n : c.cycles[k] \in CycleState
    BY <1>1, <1>n, ElementOfSeq
  <2> QED
    BY <2>1 DEF CycleState
<1>5. n \in 1..n /\ (n # 1 => n - 1 \in 1..n)
  OBVIOUS
<1>6. CountBefore(c) \in Nat /\ Last(c.cycles).counts = c.cycles[n].counts
  BY <1>n, <1>4, <1>5 DEF CountBefore, Last
<1>7. PICK sum \in [0..Len(s) -> Nat] :
          /\ sum[0] = 0
          /\ \A k \in 1..Len(s) : sum[k] = sum[k - 1] + s[k].counts
          /\ Total(s) = sum[Len(s)]
  BY <1>3, SumOfCounts
<1>8. CASE n = 1
  <2>1. Len(s) = 1 /\ 1 \in 1..Len(s) /\ 1 + (n - Len(s)) = n
    BY <1>3, <1>8
  <2>2. s[1] = c.cycles[n]
    BY <1>3, <2>1
  <2>3. Total(s) = c.cycles[n].counts
    BY <1>4, <1>5, <1>7, <2>1, <2>2
  <2> QED
    BY <1>2, <1>4, <1>5, <1>6, <1>8, <1>n, <2>3 DEF CountBefore
<1>9. CASE n # 1
  <2>1. Len(s) = 2 /\ 1 \in 1..Len(s) /\ 2 \in 1..Len(s) /\ 1 + (n - 2) = n - 1 /\ 2 + (n - 2) = n
    BY <1>1, <1>3, <1>9
  <2>2. s[1] = c.cycles[n - 1] /\ s[2] = c.cycles[n]
    BY <1>3, <2>1
  <2>3. sum[1] = s[1].counts /\ sum[2] = sum[1] + s[2].counts
    BY <1>4, <1>5, <1>7, <1>9, <2>1, <2>2
  <2>4. Total(s) = c.cycles[n - 1].counts + c.cycles[n].counts
    BY <1>7, <2>1, <2>2, <2>3
  <2> QED
    BY <1>2, <1>4, <1>5, <1>6, <1>9, <1>n, <2>4 DEF CountBefore
<1> QED
  BY <1>6, <1>8, <1>9

LEMMA CountedOnceMore ==
    ASSUME NEW c \in CounterState, NEW t \in Nat
    PROVE  /\ Count(c, t) \in CounterState
           /\ Last(Count(c, t).cycles).counts = Last(c.cycles).counts + 1
           /\ Last(Count(c, t).cycles).start = Last(c.cycles).start
           /\ Count(c, t).nCyclesToStore = c.nCyclesToStore
<1> DEFINE n   == Len(c.cycles)
           new == CountInCycle(c.cycles[n], t)
<1>1. c.cycles \in Seq(CycleState) /\ c.cycles # <<>> /\ n \in Nat \ {0}
  BY DEF CounterState
<1>2. c.cycles[n] \in CycleState
  BY <1>1
<1>3. new \in CycleState /\ new.counts = c.cycles[n].counts + 1
      /\ new.start = c.cycles[n].start
  <2> DEFINE old == c.cycles[n]
             d   == TimeDiff(t, old.lastCount)
             hi  == IF old.maxDist = 0 \/ d > old.maxDist THEN d ELSE old.maxDist
             lo  == IF old.minDist = 0 \/ d < old.minDist THEN d ELSE old.minDist
  <2>1. d \in Nat
    BY <1>2 DEF TimeDiff, CycleState
  <2>2. hi \in Nat /\ lo \in Nat
    BY <1>2, <2>1 DEF CycleState
  <2>3. new = [old EXCEPT !.counts = @ + 1, !.lastCount = t, !.maxDist = hi, !.minDist = lo]
    BY DEF CountInCycle
  <2> HIDE DEF d, hi, lo, new
  <2>4. new = [start |-> old.start, counts |-> old.counts + 1, lastCount |-> t,
               minDist |-> lo, maxDist |-> hi]
    BY <1>2, <2>3 DEF CycleState
  <2> QED
    BY <1>2, <2>2, <2>4 DEF CycleState
<1> DEFINE cycles == [c.cycles EXCEPT ![n] = new]
<1>4. Count(c, t) = [c EXCEPT !.cycles = cycles]
  BY DEF Count
<1> HIDE DEF new
<1>5. cycles \in Seq(CycleState) /\ Len(cycles) = n /\ cycles # <<>> /\ cycles[n] = new
  BY <1>1, <1>3
<1> HIDE DEF cycles
<1>6. Count(c, t) \in CounterState /\ Count(c, t).cycles = cycles
      /\ Count(c, t).nCyclesToStore = c.nCyclesToStore
  BY <1>4, <1>5 DEF CounterState
<1>7. Last(cycles) = new
  BY <1>5 DEF Last
<1>8. Last(c.cycles) = c.cycles[n]
  BY DEF Last
<1> QED
  BY <1>3, <1>6, <1>7, <1>8

LEMMA CycleStarted ==
    ASSUME NEW c \in CounterState, NEW t \in Nat, c.nCyclesToStore > 0,
           t > Last(c.cycles).start
    PROVE  /\ StartNewCycle(c, t) \in CounterState
           /\ Last(StartNewCycle(c, t).cycles) = NewCycle(t)
           /\ StartNewCycle(c, t).nCyclesToStore = c.nCyclesToStore
<1> DEFINE n    == c.nCyclesToStore - 1
           kept == LastN(c.cycles, n)
<1>1. c.cycles \in Seq(CycleState) /\ n \in Nat
  BY DEF CounterState
<1>2. kept \in Seq(CycleState)
  BY <1>1, LastNCycles
<1> HIDE DEF kept
<1>3. NewCycle(t) \in CycleState
  BY DEF NewCycle, CycleState
<1> DEFINE cycles == Append(kept, NewCycle(t))
<1>4. cycles \in Seq(CycleState) /\ cycles # <<>> /\ Last(cycles) = NewCycle(t)
  BY <1>2, <1>3 DEF Last
<1>5. StartNewCycle(c, t) = [c EXCEPT !.cycles = cycles]
  BY DEF StartNewCycle, kept
<1> HIDE DEF cycles
<1> QED
  BY <1>4, <1>5 DEF CounterState

(* The cycle that ends stays in the store when two cycles are asked for.   *)
LEMMA CycleKept ==
    ASSUME NEW c \in CounterState, NEW t \in Nat, c.nCyclesToStore > 1,
           t > Last(c.cycles).start
    PROVE  CountBefore(StartNewCycle(c, t)) = Last(c.cycles).counts
<1> DEFINE kept == LastN(c.cycles, c.nCyclesToStore - 1)
           cycles == Append(kept, NewCycle(t))
<1>1. PICK n \in Nat : n = c.nCyclesToStore - 1 /\ n > 0
  BY DEF CounterState
<1>2. c.cycles \in Seq(CycleState) /\ Len(c.cycles) \in Nat \ {0}
  BY DEF CounterState
<1>3. /\ kept \in Seq(CycleState) /\ Len(kept) \in Nat \ {0}
      /\ kept[Len(kept)] = c.cycles[Len(c.cycles)]
  <2>1. /\ kept \in Seq(CycleState) /\ Len(kept) = IF Len(c.cycles) <= n THEN Len(c.cycles) ELSE n
        /\ \A k \in 1..Len(kept) : kept[k] = c.cycles[k + (Len(c.cycles) - Len(kept))]
    BY <1>1, <1>2, LastNCycles
  <2> HIDE DEF kept
  <2>2. Len(kept) \in Nat \ {0} /\ Len(kept) \in 1..Len(kept)
    BY <1>1, <1>2, <2>1
  <2>3. Len(kept) + (Len(c.cycles) - Len(kept)) = Len(c.cycles)
    BY <1>2, <2>2
  <2> QED
    BY <2>1, <2>2, <2>3
<1> HIDE DEF kept
<1>4. StartNewCycle(c, t) = [c EXCEPT !.cycles = cycles]
  BY <1>1 DEF StartNewCycle, kept, CounterState
<1>5. NewCycle(t) \in CycleState
  BY DEF NewCycle, CycleState
<1>6. Len(cycles) = Len(kept) + 1 /\ cycles[Len(kept)] = kept[Len(kept)]
  BY <1>3, <1>5
<1> HIDE DEF cycles
<1>7. StartNewCycle(c, t).cycles = cycles
  BY <1>4 DEF CounterState
<1>8. Len(cycles) # 1 /\ Len(cycles) - 1 = Len(kept)
  BY <1>3, <1>6
<1> QED
  BY <1>3, <1>6, <1>7, <1>8 DEF CountBefore, Last

LEMMA CountedNotBefore ==
    ASSUME NEW c \in CounterState, NEW t \in Nat
    PROVE  CountBefore(Count(c, t)) = CountBefore(c)
<1> DEFINE n == Len(c.cycles)
           cycles == [c.cycles EXCEPT ![n] = CountInCycle(@, t)]
<1>1. c.cycles \in Seq(CycleState) /\ n \in Nat \ {0}
  BY DEF CounterState
<1>2. Count(c, t) = [c EXCEPT !.cycles = cycles]
  BY DEF Count
<1>3. Len(cycles) = n /\ (n # 1 => cycles[n - 1] = c.cycles[n - 1])
  BY <1>1
<1> HIDE DEF cycles
<1>4. Count(c, t).cycles = cycles
  BY <1>2 DEF CounterState
<1> QED
  BY <1>3, <1>4 DEF CountBefore

-----------------------------------------------------------------------------
(***************************************************************************)
(* The inductive invariant.                                                *)
(***************************************************************************)
Typed ==
    /\ now \in Nat
    /\ current \in Nat
    /\ phase \in Phases
    /\ sensor \in SensorState
    /\ keep \in Nat
    /\ counter \in CounterState
    /\ next_logentry \in Nat
    /\ slot \in Nat
    /\ col \in ColumnIndex
    /\ line \in Seq(Value)
    /\ accepted \in SUBSET Nat
    /\ entries \in Seq(EntryState)
    /\ reported \in [ColumnIndex -> Nat]

(* The gate is past every recorded slot and not in the future, so that no  *)
(* measurement is recorded twice.                                          *)
Gate ==
    /\ StartTime <= now
    /\ sensor.lastMeasurement <= now
    /\ IsFiniteSet(accepted)
    /\ \A a \in accepted : Timeslot(a, Rest) <= sensor.lastMeasurement

(* The entry under way is for a slot that has begun and that is no earlier *)
(* than the scheduled one; every written entry is for a slot before that.  *)
Writing == phase \in {"evaluate", "file", "newCycle"}

NextFree == IF phase = "newCycle" THEN slot + CycleTime ELSE next_logentry

Schedule ==
    /\ \E a \in 0..now : next_logentry = NextLogentry(a)
    /\ Writing => /\ next_logentry <= slot
                  /\ \E b \in 0..now : slot = Timeslot(b, CycleTime)
    /\ \A k \in 1..Len(entries) : entries[k].slot + CycleTime <= NextFree

(* With the main thread as the only feeder: an evaluated column's value    *)
(* stays the current count until the entry is written, and then the first  *)
(* column starts the new cycle.                                            *)
PlainColumns == {i \in CountColumns : NCycles(i) = 1}

AllPlain == Feeder = "main" /\ \A i \in ColumnIndex : NCycles(i) > 0

LineLength ==
    /\ phase = "evaluate" => Len(line) = col - 1
    /\ phase = "file" => Len(line) = Len(Columns) /\ col = 1

CycleOK ==
    /\ counter.nCyclesToStore > 0
    /\ IF phase = "newCycle" /\ col > 1
       THEN Last(counter.cycles) = NewCycle(slot)
       ELSE Last(counter.cycles).start < next_logentry

LineOK ==
    phase \in {"evaluate", "file"} =>
        \A i \in PlainColumns : i <= Len(line) =>
            line[i].count = Last(counter.cycles).counts

Held == IF phase = "newCycle" THEN 0 ELSE Last(counter.cycles).counts

CountOK ==
    \A i \in PlainColumns : /\ reported[i] \in Nat
                            /\ Cardinality(accepted) = reported[i] + Held

Counting == AllPlain => CycleOK /\ LineOK /\ CountOK

IInv ==
    /\ Typed
    /\ Gate
    /\ OneEntryPerCycle
    /\ Schedule
    /\ LineLength
    /\ Counting

(***************************************************************************)
(* What the assumptions give.                                              *)
(***************************************************************************)
LEMMA Constants ==
    /\ CycleTime \in Nat \ {0}
    /\ Rest \in Nat \ {0}
    /\ Retry \in Nat \ {0}
    /\ StartTime \in Nat
    /\ MaxTime \in Nat
    /\ Rest < StartTime
    /\ Len(Columns) \in Nat \ {0}
    /\ \A i \in ColumnIndex : /\ Period(i) \in Nat
                             /\ NCycles(i) \in Nat
                             /\ Columns[i].op \in {"count", "mean"}
<1>1. Len(Columns) \in Nat \ {0}
  BY LogbookAssumption
<1>2. \A i \in ColumnIndex : Columns[i] \in [op : {"count", "mean"}, period : Nat]
  <2> DEFINE ColumnType == [op : {"count", "mean"}, period : Nat]
  <2>1. Columns \in Seq(ColumnType)
    BY LogbookAssumption
  <2> HIDE DEF ColumnType
  <2>2. \A i \in 1..Len(Columns) : Columns[i] \in ColumnType
    BY <2>1
  <2> QED
    BY <2>2 DEF ColumnType, ColumnIndex
<1>3. \A i \in ColumnIndex : Period(i) \in Nat /\ Columns[i].op \in {"count", "mean"}
  BY <1>2, LogbookAssumption DEF Period
<1>4. ASSUME NEW i \in ColumnIndex PROVE NCycles(i) \in Nat
  <2>1. \A n \in Nat : n \div CycleTime \in Nat
    <3>1. CycleTime \in Nat \ {0}
      BY LogbookAssumption
    <3> QED
      BY <3>1
  <2>2. Period(i) \in Nat
    BY <1>3
  <2> QED
    BY <2>1, <2>2, Zenon DEF NCycles
<1>5. Rest < StartTime
  <2>1. 1 \in ColumnIndex
    BY <1>1 DEF ColumnIndex
  <2>2. StartTime > Rest + Period(1) /\ Period(1) \in Nat
    BY <2>1, <1>3, StartAssumption
  <2> QED
    BY <2>2, LogbookAssumption
<1> QED
  BY <1>1, <1>3, <1>4, <1>5, LogbookAssumption

(***************************************************************************)
(* The next entry is scheduled for a later slot than any that has begun.   *)
(***************************************************************************)
LEMMA NextIsLater ==
    ASSUME NEW t \in Nat, NEW b \in Nat, b <= t
    PROVE  /\ NextLogentry(t) \in Nat
           /\ t < NextLogentry(t)
           /\ Timeslot(b, CycleTime) + CycleTime <= NextLogentry(t)
<1>1. CycleTime \in Nat \ {0}
  BY Constants
<1>2. /\ Timeslot(t, CycleTime) \in Nat /\ t < Timeslot(t, CycleTime) + CycleTime
      /\ Timeslot(b, CycleTime) \in Nat /\ Timeslot(b, CycleTime) <= b
  BY <1>1, SlotBounds
<1>3. Timeslot(b, CycleTime) <= Timeslot(t, CycleTime)
  <2> SUFFICES ASSUME Timeslot(t, CycleTime) < Timeslot(b, CycleTime) PROVE FALSE
    BY <1>2
  <2>1. PICK k \in Nat : Timeslot(t, CycleTime) = CycleTime * k
    BY <1>1, SlotIsMultiple
  <2>2. PICK j \in Nat : Timeslot(b, CycleTime) = CycleTime * j
    BY <1>1, SlotIsMultiple
  <2>3. k + 1 <= j
    BY <1>1, <2>1, <2>2
  <2>4. CycleTime * k + CycleTime <= CycleTime * j
    BY <1>1, <2>3
  <2> QED
    BY <1>1, <1>2, <2>1, <2>2, <2>4
<1> QED
  BY <1>1, <1>2, <1>3 DEF NextLogentry

(***************************************************************************)
(* The sensor's operations: types, and what becomes of the gate.           *)
(***************************************************************************)
LEMMA SensorSteps ==
    ASSUME Typed, Gate
    PROVE  /\ Cleaned(sensor, SensorCfg, current) \in SensorState
           /\ Cleaned(sensor, SensorCfg, current).lastMeasurement = sensor.lastMeasurement
           /\ AddRawMeasurement(sensor, SensorCfg, now) \in SensorState
           /\ AddRawMeasurement(sensor, SensorCfg, now).lastMeasurement
                  = IF Rested(sensor, SensorCfg, now) THEN Timeslot(now, Rest)
                                                      ELSE sensor.lastMeasurement
           /\ \A s \in SensorState : /\ Published(s) \in SensorState
                                     /\ Published(s).lastMeasurement = s.lastMeasurement
<1>1. /\ now \in Nat /\ current \in Nat /\ keep \in Nat /\ Rest \in Nat \ {0}
      /\ sensor \in SensorState
  BY Constants DEF Typed
<1>2. Timeslot(now, Rest) \in Nat
  BY <1>1, SlotBounds
<1>3. SensorCfg.rest = Rest /\ SensorCfg.keep = keep /\ ~SensorCfg.isCounter
  BY DEF SensorCfg
<1>4. /\ Cleaned(sensor, SensorCfg, current) \in SensorState
      /\ Cleaned(sensor, SensorCfg, current).lastMeasurement = sensor.lastMeasurement
  <2> DEFINE kept == Clean(sensor.stored, current - SensorCfg.keep)
  <2>1. kept \in SUBSET Nat
    BY <1>1 DEF Clean, SensorState
  <2>2. Cleaned(sensor, SensorCfg, current) = [sensor EXCEPT !.stored = kept]
    BY DEF Cleaned
  <2> HIDE DEF kept
  <2> QED
    BY <1>1, <2>1, <2>2 DEF SensorState
<1>5. /\ AddRawMeasurement(sensor, SensorCfg, now) \in SensorState
      /\ AddRawMeasurement(sensor, SensorCfg, now).lastMeasurement
             = IF Rested(sensor, SensorCfg, now) THEN Timeslot(now, Rest)
                                                 ELSE sensor.lastMeasurement
  <2> DEFINE kept  == Clean(sensor.stored, Timeslot(now, Rest) - keep)
             added == AddValue(kept, Timeslot(now, Rest), Rest)
  <2>1. kept \in SUBSET Nat
    BY <1>1 DEF Clean, SensorState
  <2>2. added \in SUBSET Nat
    <3> HIDE DEF kept
    <3> QED
      BY <1>2, <2>1 DEF AddValue, WithoutOldest
  <2>3. CASE Rested(sensor, SensorCfg, now)
    <3>1. AddRawMeasurement(sensor, SensorCfg, now)
             = [lastMeasurement |-> Timeslot(now, Rest), stored |-> added,
                readFailures |-> 0, lastValuePublished |-> FALSE]
      BY <1>3, <2>3 DEF AddRawMeasurement
    <3> HIDE DEF added
    <3> QED
      BY <1>2, <2>2, <2>3, <3>1 DEF SensorState
  <2>4. CASE ~Rested(sensor, SensorCfg, now)
    <3>1. AddRawMeasurement(sensor, SensorCfg, now) = [sensor EXCEPT !.readFailures = 0]
      BY <2>4 DEF AddRawMeasurement
    <3> QED
      BY <1>1, <2>4, <3>1 DEF SensorState
  <2> QED
    BY <2>3, <2>4
<1>6. ASSUME NEW s \in SensorState
      PROVE  Published(s) \in SensorState /\ Published(s).lastMeasurement = s.lastMeasurement
  <2> DEFINE flag == s.lastValuePublished \/ s.stored # {}
  <2>1. flag \in BOOLEAN
    OBVIOUS
  <2>2. Published(s) = [s EXCEPT !.lastValuePublished = flag]
    BY DEF Published
  <2> HIDE DEF flag
  <2> QED
    BY <2>1, <2>2 DEF SensorState
<1> QED
  BY <1>4, <1>5, <1>6

(***************************************************************************)
(* A failed reading moves the gate forward, but never into the future.     *)
(***************************************************************************)
LEMMA FailureStep ==
    ASSUME Typed, Gate
    PROVE  /\ AddReadFailure(sensor, SensorCfg, now) \in SensorState
           /\ AddReadFailure(sensor, SensorCfg, now).lastMeasurement <= now
           /\ sensor.lastMeasurement
                 <= AddReadFailure(sensor, SensorCfg, now).lastMeasurement
<1> DEFINE failed == AddReadFailure(sensor, SensorCfg, now)
           last   == sensor.lastMeasurement
           base   == IF last = 0 THEN now - Rest ELSE last
           gate   == base + Lesser(Retry, Rest)
           kept   == Clean(sensor.stored, now - keep)
<1>1. /\ now \in Nat /\ keep \in Nat /\ Rest \in Nat \ {0} /\ Retry \in Nat \ {0}
      /\ sensor \in SensorState /\ last \in Nat /\ last <= now /\ Rest < now
  BY Constants DEF Typed, Gate, SensorState
<1>2. CASE Rested(sensor, SensorCfg, now)
  <2>1. last + Rest <= now
    BY <1>1, <1>2 DEF Rested, TimeDiff, SensorCfg
  <2>2. gate \in Nat /\ gate <= now /\ last <= gate
    BY <1>1, <2>1 DEF Lesser
  <2>3. kept \in SUBSET Nat
    BY <1>1 DEF Clean, SensorState
  <2>4. failed = [sensor EXCEPT !.readFailures = @ + 1, !.lastMeasurement = gate,
                                !.stored = kept]
    BY <1>2 DEF AddReadFailure, SensorCfg
  <2> HIDE DEF failed, gate, kept, last, base
  <2>5. failed = [lastMeasurement |-> gate, stored |-> kept,
                  readFailures |-> sensor.readFailures + 1,
                  lastValuePublished |-> sensor.lastValuePublished]
    BY <1>1, <2>4 DEF SensorState
  <2>6. sensor.readFailures + 1 \in Nat /\ sensor.lastValuePublished \in BOOLEAN
    BY <1>1 DEF SensorState
  <2>7. failed \in SensorState /\ failed.lastMeasurement = gate
    BY <2>2, <2>3, <2>5, <2>6 DEF SensorState
  <2> QED
    BY <2>2, <2>7 DEF failed, last
<1>3. CASE ~Rested(sensor, SensorCfg, now)
  BY <1>1, <1>3 DEF AddReadFailure
<1> QED
  BY <1>2, <1>3

-----------------------------------------------------------------------------
(***************************************************************************)
(* The initial states.                                                     *)
(***************************************************************************)
LEMMA InitInvariant == Init => IInv
<1> SUFFICES ASSUME Init PROVE IInv
  OBVIOUS
<1> USE DEF Init
<1>1. StartTime \in Nat /\ 1 \in ColumnIndex
  BY Constants DEF ColumnIndex
<1>2. NextLogentry(StartTime) \in Nat /\ StartTime < NextLogentry(StartTime)
  BY <1>1, NextIsLater
<1>3. /\ counter \in CounterState
      /\ counter.nCyclesToStore = 1
      /\ Last(counter.cycles) = NewCycle(StartTime)
  <2> DEFINE first == NewCycle(StartTime)
  <2>1. first \in CycleState
    BY <1>1 DEF NewCycle, CycleState
  <2>2. counter = [nCyclesToStore |-> 1, cycles |-> <<first>>]
    BY DEF NewCounter
  <2> HIDE DEF first
  <2>3. <<first>> \in Seq(CycleState) \ {<<>>} /\ Last(<<first>>) = first
    BY <2>1 DEF Last
  <2>4. counter \in CounterState /\ counter.nCyclesToStore = 1
        /\ Last(counter.cycles) = first
    BY <2>2, <2>3 DEF CounterState
  <2> QED
    BY <2>4 DEF first
<1>4. Typed
  <2>1. sensor \in SensorState
    BY DEF NewSensor, SensorState
  <2>2. phase \in Phases
    BY DEF Phases
  <2> QED
    BY <1>1, <1>2, <1>3, <2>1, <2>2 DEF Typed
<1>5. Gate
  BY <1>1, FS_EmptySet DEF Gate, NewSensor
<1>6. OneEntryPerCycle /\ Schedule /\ LineLength
  BY <1>1 DEF OneEntryPerCycle, Schedule, Writing, LineLength
<1>7. Counting
  <2>1. CycleOK
    BY <1>2, <1>3 DEF CycleOK, NewCycle
  <2>2. LineOK
    BY DEF LineOK
  <2>3. CountOK
    <3>1. Held = 0
      BY <1>3 DEF Held, NewCycle
    <3>2. \A i \in PlainColumns : reported[i] = 0
      BY DEF PlainColumns, CountColumns
    <3> QED
      BY <3>1, <3>2, FS_EmptySet DEF CountOK
  <2> QED
    BY <2>1, <2>2, <2>3 DEF Counting
<1> QED
  BY <1>4, <1>5, <1>6, <1>7 DEF IInv

(***************************************************************************)
(* Steps of the main thread outside of write() that record nothing.        *)
(***************************************************************************)
LEMMA QuietStep ==
    ASSUME IInv, Typed', Gate',
           UNCHANGED <<now, counter, accepted, writeVars>>,
           phase \in {"pause", "measure", "reading", "write"},
           phase' \in {"pause", "measure", "reading", "write"}
    PROVE  IInv'
<1> USE DEF IInv, writeVars
<1>1. OneEntryPerCycle'
  BY DEF OneEntryPerCycle
<1>2. Schedule'
  BY DEF Schedule, Writing, NextFree
<1>3. LineLength'
  BY DEF LineLength
<1>4. Counting'
  BY DEF Counting, CycleOK, LineOK, CountOK, Held
<1> QED
  BY <1>1, <1>2, <1>3, <1>4

LEMMA TriggerStep == IInv /\ Trigger => IInv'
<1> SUFFICES ASSUME IInv, Trigger PROVE IInv'
  OBVIOUS
<1>1. Typed'
  BY DEF IInv, Trigger, Typed, Phases, sensorVars, writeVars
<1>2. Gate'
  BY DEF IInv, Trigger, Gate, sensorVars
<1> QED
  BY <1>1, <1>2, QuietStep DEF Trigger, sensorVars

LEMMA NotDueStep == IInv /\ NotDue => IInv'
<1> SUFFICES ASSUME IInv, NotDue PROVE IInv'
  OBVIOUS
<1>1. Typed'
  BY DEF IInv, NotDue, Typed, Phases, sensorVars, writeVars
<1>2. Gate'
  BY DEF IInv, NotDue, Gate, sensorVars
<1> QED
  BY <1>1, <1>2, QuietStep DEF NotDue, sensorVars

LEMMA NoEntryStep == IInv /\ NoEntry => IInv'
<1> SUFFICES ASSUME IInv, NoEntry PROVE IInv'
  OBVIOUS
<1>1. Typed'
  BY DEF IInv, NoEntry, Typed, Phases, sensorVars, writeVars
<1>2. Gate'
  BY DEF IInv, NoEntry, Gate, sensorVars
<1> QED
  BY <1>1, <1>2, QuietStep DEF NoEntry, sensorVars

LEMMA MeasureCallbackStep == IInv /\ MeasureCallback => IInv'
<1> SUFFICES ASSUME IInv, MeasureCallback PROVE IInv'
  OBVIOUS
<1>1. sensor \in SensorState
  BY DEF IInv, Typed
<1>2. sensor' \in SensorState /\ sensor'.lastMeasurement = sensor.lastMeasurement
  BY <1>1, SensorSteps DEF IInv, MeasureCallback
<1>3. Typed'
  BY <1>2 DEF IInv, MeasureCallback, Typed, Phases, writeVars
<1>4. Gate'
  BY <1>2 DEF IInv, MeasureCallback, Gate
<1> QED
  BY <1>3, <1>4, QuietStep DEF MeasureCallback

LEMMA StartReadStep == IInv /\ StartRead => IInv'
<1> SUFFICES ASSUME IInv, StartRead PROVE IInv'
  OBVIOUS
<1>1. sensor' \in SensorState /\ sensor'.lastMeasurement = sensor.lastMeasurement
  BY SensorSteps DEF IInv, StartRead
<1>2. Typed'
  BY <1>1 DEF IInv, StartRead, Typed, Phases, writeVars
<1>3. Gate'
  BY <1>1 DEF IInv, StartRead, Gate
<1> QED
  BY <1>2, <1>3, QuietStep DEF StartRead

LEMMA ReadFailStep == IInv /\ ReadFail => IInv'
<1> SUFFICES ASSUME IInv, ReadFail PROVE IInv'
  OBVIOUS
<1>1. /\ sensor' \in SensorState /\ sensor'.lastMeasurement <= now
      /\ sensor.lastMeasurement <= sensor'.lastMeasurement
  BY FailureStep DEF IInv, ReadFail
<1>2. Typed'
  BY <1>1 DEF IInv, ReadFail, Typed, Phases, writeVars
<1>3. Gate'
  <2>1. \A a \in accepted : Timeslot(a, Rest) \in Nat
    BY Constants, SlotBounds DEF IInv, Typed
  <2>2. sensor.lastMeasurement \in Nat /\ sensor'.lastMeasurement \in Nat
    BY <1>1 DEF IInv, Typed, SensorState
  <2> QED
    BY <1>1, <2>1, <2>2 DEF IInv, ReadFail, Gate
<1> QED
  BY <1>2, <1>3, QuietStep DEF ReadFail

(***************************************************************************)
(* The clock moves, the configuration is read, nothing changes.            *)
(***************************************************************************)
LEMMA TickStep == IInv /\ Tick => IInv'
<1> SUFFICES ASSUME IInv, Tick PROVE IInv'
  OBVIOUS
<1> USE DEF Tick, sensorVars, writeVars
<1>1. now \in Nat /\ now' = now + 1
  BY DEF IInv, Typed
<1>2. Typed'
  BY <1>1 DEF IInv, Typed
<1>3. Gate'
  BY <1>1, Constants DEF IInv, Gate, Typed, SensorState
<1>4. OneEntryPerCycle' /\ LineLength'
  BY DEF IInv, OneEntryPerCycle, LineLength
<1>5. Schedule'
  <2>1. 0..now \subseteq 0..now'
    BY <1>1
  <2> QED
    BY <2>1 DEF IInv, Schedule, Writing, NextFree
<1>6. Counting'
  BY DEF IInv, Counting, CycleOK, LineOK, CountOK, Held
<1> QED
  BY <1>2, <1>3, <1>4, <1>5, <1>6 DEF IInv

LEMMA AddColumnStep == IInv /\ AddColumn => IInv'
<1> SUFFICES ASSUME IInv, AddColumn PROVE IInv'
  OBVIOUS
<1> USE DEF AddColumn
<1>1. counter \in CounterState /\ col \in ColumnIndex /\ NCycles(col) \in Nat
      /\ Period(col) \in Nat
  BY Constants DEF IInv, Typed
<1>2. /\ counter' \in CounterState
      /\ counter'.cycles = counter.cycles
      /\ NCycles(col) > 0 /\ counter.nCyclesToStore > 0 => counter'.nCyclesToStore > 0
  <2> DEFINE n    == NCycles(col)
             most == IF counter.nCyclesToStore > 0 /\ (n = 0 \/ n > counter.nCyclesToStore)
                     THEN n ELSE counter.nCyclesToStore
  <2>1. most \in Nat /\ (n > 0 /\ counter.nCyclesToStore > 0 => most > 0)
    BY <1>1 DEF CounterState
  <2>2. counter' = [counter EXCEPT !.nCyclesToStore = most]
    BY DEF AccumulateCyclesToStore
  <2> HIDE DEF most
  <2> QED
    BY <1>1, <2>1, <2>2 DEF CounterState
<1>3. col' \in ColumnIndex
  BY <1>1, Constants DEF ColumnIndex
<1>4. Typed'
  BY <1>1, <1>2, <1>3 DEF IInv, Typed, Phases
<1>5. Gate' /\ OneEntryPerCycle' /\ LineLength' /\ Schedule'
  BY DEF IInv, Gate, OneEntryPerCycle, LineLength, Schedule, Writing, NextFree
<1>6. Counting'
  BY <1>1, <1>2 DEF IInv, Counting, AllPlain, CycleOK, LineOK, CountOK, Held
<1> QED
  BY <1>4, <1>5, <1>6 DEF IInv

LEMMA StutterStep == IInv /\ UNCHANGED vars => IInv'
BY DEF vars, IInv, Typed, Gate, OneEntryPerCycle, Schedule, Writing, NextFree, LineLength,
       Counting, CycleOK, LineOK, CountOK, Held

-----------------------------------------------------------------------------
(***************************************************************************)
(* A measurement arrives: it is recorded for the first time and counted    *)
(* once, or neither.                                                       *)
(***************************************************************************)
LEMMA RecordStep ==
    ASSUME IInv, Record, UNCHANGED now, sensor' \in SensorState,
           sensor'.lastMeasurement
               = AddRawMeasurement(sensor, SensorCfg, now).lastMeasurement
    PROVE  /\ Gate'
           /\ accepted' \in SUBSET Nat
           /\ counter' \in CounterState
           /\ counter'.nCyclesToStore = counter.nCyclesToStore
           /\ Last(counter'.cycles).start = Last(counter.cycles).start
           /\ \A n \in Nat :
                 Cardinality(accepted) = n + Last(counter.cycles).counts
                     => Cardinality(accepted') = n + Last(counter'.cycles).counts
<1>1. /\ now \in Nat /\ Rest \in Nat \ {0} /\ Gate /\ accepted \in SUBSET Nat
      /\ counter \in CounterState /\ sensor.lastMeasurement \in Nat
      /\ sensor.lastMeasurement <= now
      /\ Rested(sensor, SensorCfg, now) <=> sensor.lastMeasurement + Rest <= now
  <2>1. /\ now \in Nat /\ Rest \in Nat \ {0} /\ Gate /\ accepted \in SUBSET Nat
        /\ counter \in CounterState /\ sensor \in SensorState
    BY Constants DEF IInv, Typed
  <2>2. sensor.lastMeasurement \in Nat /\ sensor.lastMeasurement <= now
    BY <2>1 DEF Gate, SensorState
  <2>3. SensorCfg.rest = Rest
    BY DEF SensorCfg
  <2>4. Rested(sensor, SensorCfg, now) <=> sensor.lastMeasurement + Rest <= now
    BY <2>1, <2>2, <2>3 DEF Rested, TimeDiff
  <2> QED
    BY <2>1, <2>2, <2>4
<1>2. \A a \in accepted \cup {now} :
         Timeslot(a, Rest) \in Nat /\ Timeslot(a, Rest) <= a /\ a < Timeslot(a, Rest) + Rest
  BY <1>1, SlotBounds
<1>3. sensor'.lastMeasurement = IF Rested(sensor, SensorCfg, now) THEN Timeslot(now, Rest)
                                                                ELSE sensor.lastMeasurement
  BY SensorSteps DEF IInv
<1>4. CASE Rested(sensor, SensorCfg, now)
  <2>1. counter' = Count(counter, Timeslot(now, Rest)) /\ accepted' = accepted \cup {now}
    BY <1>4 DEF Record
  <2>2. sensor.lastMeasurement < Timeslot(now, Rest)
    BY <1>1, <1>2, <1>4
  <2>3. now \notin accepted
    BY <1>1, <1>2, <2>2 DEF Gate
  <2>4. IsFiniteSet(accepted') /\ Cardinality(accepted') = Cardinality(accepted) + 1
    BY <1>1, <2>1, <2>3, FS_AddElement DEF Gate
  <2>5. Gate'
    <3>1. \A a \in accepted' : Timeslot(a, Rest) <= sensor'.lastMeasurement
      BY <1>1, <1>2, <1>3, <1>4, <2>1, <2>2 DEF Gate
    <3> QED
      BY <1>1, <1>2, <1>3, <1>4, <2>4, <3>1 DEF Gate
  <2>6. Timeslot(now, Rest) \in Nat
    BY <1>2
  <2>7. /\ counter' \in CounterState
        /\ Last(counter'.cycles).counts = Last(counter.cycles).counts + 1
        /\ Last(counter'.cycles).start = Last(counter.cycles).start
        /\ counter'.nCyclesToStore = counter.nCyclesToStore
    BY <1>1, <2>1, <2>6, CountedOnceMore
  <2>8. Last(counter.cycles).counts \in Nat
    <3>1. Last(counter.cycles) \in CycleState
      BY <1>1 DEF CounterState, Last
    <3> QED
      BY <3>1 DEF CycleState
  <2> QED
    BY <1>1, <2>1, <2>4, <2>5, <2>7, <2>8
<1>5. CASE ~Rested(sensor, SensorCfg, now)
  <2>1. UNCHANGED <<counter, accepted>>
    BY <1>5 DEF Record
  <2> QED
    BY <1>1, <1>3, <1>5, <2>1 DEF Gate
<1> QED
  BY <1>4, <1>5

LEMMA ReadOkStep == IInv /\ ReadOk => IInv'
<1> SUFFICES ASSUME IInv, ReadOk PROVE IInv'
  OBVIOUS
<1>1. /\ sensor' \in SensorState
      /\ sensor'.lastMeasurement
             = AddRawMeasurement(sensor, SensorCfg, now).lastMeasurement
  BY SensorSteps DEF IInv, ReadOk
<1>2. Record /\ UNCHANGED <<now, current, keep, registerVars, writeVars>>
      /\ phase = "reading" /\ phase' = "write"
  BY DEF ReadOk
<1>3. /\ Gate' /\ accepted' \in SUBSET Nat /\ counter' \in CounterState
      /\ counter'.nCyclesToStore = counter.nCyclesToStore
      /\ Last(counter'.cycles).start = Last(counter.cycles).start
      /\ \A n \in Nat : Cardinality(accepted) = n + Last(counter.cycles).counts
                           => Cardinality(accepted') = n + Last(counter'.cycles).counts
  BY <1>1, <1>2, RecordStep
<1>4. Typed'
  BY <1>1, <1>2, <1>3 DEF IInv, Typed, Phases, writeVars
<1>5. OneEntryPerCycle' /\ Schedule' /\ LineLength'
  BY <1>2 DEF IInv, OneEntryPerCycle, Schedule, Writing, NextFree, LineLength, writeVars
<1>6. Counting'
  <2> SUFFICES ASSUME AllPlain PROVE CycleOK' /\ LineOK' /\ CountOK'
    BY DEF Counting, AllPlain
  <2>1. CycleOK' /\ LineOK'
    BY <1>2, <1>3 DEF IInv, Counting, CycleOK, LineOK, writeVars
  <2>2. CountOK'
    <3> SUFFICES ASSUME NEW i \in PlainColumns
                 PROVE  /\ reported[i] \in Nat
                        /\ Cardinality(accepted') = reported[i] + Last(counter'.cycles).counts
      BY <1>2 DEF CountOK, Held, writeVars
    <3>1. /\ reported[i] \in Nat
          /\ Cardinality(accepted) = reported[i] + Last(counter.cycles).counts
      BY <1>2 DEF IInv, Counting, CountOK, Held
    <3> QED
      BY <1>3, <3>1
  <2> QED
    BY <2>1, <2>2
<1> QED
  BY <1>3, <1>4, <1>5, <1>6 DEF IInv

LEMMA CallbackEventStep == IInv /\ CallbackEvent => IInv'
<1> SUFFICES ASSUME IInv, CallbackEvent PROVE IInv'
  OBVIOUS
<1>1. /\ sensor' \in SensorState
      /\ sensor'.lastMeasurement
             = AddRawMeasurement(sensor, SensorCfg, now).lastMeasurement
  BY SensorSteps DEF IInv, CallbackEvent
<1>2. Record /\ UNCHANGED <<now, current, phase, keep, registerVars, writeVars>> /\ Feeder = "callback"
  BY DEF CallbackEvent
<1>3. Gate' /\ accepted' \in SUBSET Nat /\ counter' \in CounterState
  BY <1>1, <1>2, RecordStep
<1>4. Typed'
  BY <1>1, <1>2, <1>3 DEF IInv, Typed, writeVars
<1>5. OneEntryPerCycle' /\ Schedule' /\ LineLength'
  BY <1>2 DEF IInv, OneEntryPerCycle, Schedule, Writing, NextFree, LineLength, writeVars
<1>6. Counting'
  BY <1>2 DEF Counting, AllPlain
<1> QED
  BY <1>3, <1>4, <1>5, <1>6 DEF IInv

(***************************************************************************)
(* The two steps of a registration: the counter changes as it likes, which *)
(* only a polled sensor's counts would notice.                             *)
(***************************************************************************)
LEMMA RegisterPollStep == IInv /\ RegisterPoll => IInv'
<1> SUFFICES ASSUME IInv, RegisterPoll PROVE IInv'
  OBVIOUS
<1>1. UNCHANGED <<now, current, phase, keep, accepted, writeVars>> /\ Feeder = "callback"
  BY DEF RegisterPoll
<1>2. /\ sensor' \in SensorState
      /\ sensor'.lastMeasurement <= now
      /\ sensor.lastMeasurement <= sensor'.lastMeasurement
  <2>1. /\ now \in Nat /\ sensor \in SensorState /\ sensor.lastMeasurement \in Nat
        /\ sensor.lastMeasurement <= now
    BY DEF IInv, Typed, Gate, SensorState
  <2>2. CASE sensor' = AddRawMeasurement(sensor, SensorCfg, now)
    <3>1. /\ Timeslot(now, Rest) \in Nat /\ Timeslot(now, Rest) <= now
          /\ now < Timeslot(now, Rest) + Rest /\ Rest \in Nat
      BY <2>1, Constants, SlotBounds
    <3>2. Rested(sensor, SensorCfg, now) => sensor.lastMeasurement + Rest <= now
      BY <2>1, <3>1 DEF Rested, TimeDiff, SensorCfg
    <3>3. Rested(sensor, SensorCfg, now) => sensor.lastMeasurement <= Timeslot(now, Rest)
      BY <2>1, <3>1, <3>2
    <3> QED
      BY <2>1, <2>2, <3>1, <3>3, SensorSteps DEF IInv
  <2>3. CASE sensor' = AddReadFailure(sensor, SensorCfg, now)
    BY <2>3, FailureStep DEF IInv
  <2>4. CASE sensor' = sensor
    BY <2>1, <2>4
  <2> QED
    BY <2>2, <2>3, <2>4 DEF RegisterPoll
<1>3. counter' \in CounterState
  <2>1. Timeslot(now, Rest) \in Nat /\ counter \in CounterState
    BY Constants, SlotBounds DEF IInv, Typed
  <2> QED
    BY <2>1, CountedOnceMore DEF RegisterPoll
<1>4. Typed'
  BY <1>1, <1>2, <1>3 DEF IInv, Typed, writeVars
<1>5. Gate'
  <2>1. \A a \in accepted : Timeslot(a, Rest) \in Nat
    BY Constants, SlotBounds DEF IInv, Typed
  <2>2. sensor.lastMeasurement \in Nat /\ sensor'.lastMeasurement \in Nat
    BY <1>2 DEF IInv, Typed, SensorState
  <2> QED
    BY <1>1, <1>2, <2>1, <2>2 DEF IInv, Gate
<1>6. OneEntryPerCycle' /\ Schedule' /\ LineLength'
  BY <1>1 DEF IInv, OneEntryPerCycle, Schedule, Writing, NextFree, LineLength, writeVars
<1>7. Counting'
  BY <1>1 DEF Counting, AllPlain
<1> QED
  BY <1>4, <1>5, <1>6, <1>7 DEF IInv

LEMMA CounterIsReset ==
    ASSUME NEW c \in CounterState, NEW t \in Nat
    PROVE  /\ ResetCounter(c, t) \in CounterState
           /\ Last(ResetCounter(c, t).cycles) = NewCycle(t)
<1> DEFINE first == NewCycle(t)
<1>1. first \in CycleState
  BY DEF NewCycle, CycleState
<1>2. ResetCounter(c, t) = [c EXCEPT !.cycles = <<first>>]
  BY DEF ResetCounter
<1> HIDE DEF first
<1>3. <<first>> \in Seq(CycleState) \ {<<>>} /\ Last(<<first>>) = first
  BY <1>1 DEF Last
<1>4. ResetCounter(c, t) \in CounterState /\ Last(ResetCounter(c, t).cycles) = first
  BY <1>2, <1>3 DEF CounterState
<1> QED
  BY <1>4 DEF first

LEMMA ResetCountersStep == IInv /\ ResetCounters => IInv'
<1> SUFFICES ASSUME IInv, ResetCounters PROVE IInv'
  OBVIOUS
<1>1. UNCHANGED <<now, current, phase, sensor, keep, accepted, writeVars>> /\ Feeder = "callback"
  BY DEF ResetCounters
<1>2. counter' \in CounterState
  BY CounterIsReset DEF ResetCounters, IInv, Typed
<1>3. Typed'
  BY <1>1, <1>2 DEF IInv, Typed, writeVars
<1>4. Gate' /\ OneEntryPerCycle' /\ Schedule' /\ LineLength'
  BY <1>1 DEF IInv, Gate, OneEntryPerCycle, Schedule, Writing, NextFree, LineLength, writeVars
<1>5. Counting'
  BY <1>1 DEF Counting, AllPlain
<1> QED
  BY <1>3, <1>4, <1>5 DEF IInv

-----------------------------------------------------------------------------
(***************************************************************************)
(* logbook::write().                                                       *)
(***************************************************************************)
LEMMA StartEntryStep == IInv /\ StartEntry => IInv'
<1> SUFFICES ASSUME IInv, StartEntry PROVE IInv'
  OBVIOUS
<1> USE DEF StartEntry, sensorVars
<1>1. /\ now \in Nat /\ next_logentry \in Nat /\ CycleTime \in Nat \ {0}
      /\ 1 \in ColumnIndex /\ slot' = Timeslot(now, CycleTime)
  BY Constants DEF IInv, Typed, ColumnIndex
<1>2. slot' \in Nat /\ slot' <= now /\ next_logentry <= now
  BY <1>1, SlotBounds
<1>3. Typed'
  BY <1>1, <1>2 DEF IInv, Typed, Phases
<1>4. Gate' /\ OneEntryPerCycle' /\ LineLength'
  BY DEF IInv, Gate, OneEntryPerCycle, LineLength
<1>5. Schedule'
  <2>1. next_logentry <= slot'
    <3>1. PICK a \in 0..now : next_logentry = NextLogentry(a)
      BY DEF IInv, Schedule
    <3> QED
      BY <1>1, <1>2, <3>1, SlotStep DEF NextLogentry
  <2>2. now \in 0..now
    BY <1>1
  <2> QED
    BY <1>1, <2>1, <2>2 DEF IInv, Schedule, Writing, NextFree
<1>6. Counting'
  <2> SUFFICES ASSUME AllPlain PROVE CycleOK' /\ LineOK' /\ CountOK'
    BY DEF Counting, AllPlain
  <2>1. CycleOK' /\ CountOK'
    BY DEF IInv, Counting, CycleOK, CountOK, Held
  <2>2. LineOK'
    <3>1. Len(line') = 0 /\ \A i \in PlainColumns : i > 0
      BY DEF PlainColumns, CountColumns, ColumnIndex
    <3> QED
      BY <3>1 DEF LineOK, PlainColumns, CountColumns, ColumnIndex
  <2> QED
    BY <2>1, <2>2
<1> QED
  BY <1>3, <1>4, <1>5, <1>6 DEF IInv

LEMMA EvaluateStep == IInv /\ Evaluate => IInv'
<1> SUFFICES ASSUME IInv, Evaluate PROVE IInv'
  OBVIOUS
<1> DEFINE v == ColumnValue(col)
<1> USE DEF sensorVars
<1>1. /\ phase = "evaluate" /\ col \in ColumnIndex /\ line \in Seq(Value)
      /\ counter \in CounterState /\ sensor \in SensorState
      /\ Len(line) = col - 1 /\ NCycles(col) \in Nat /\ Len(Columns) \in Nat \ {0}
  BY Constants DEF IInv, Typed, LineLength, Evaluate
<1>2. v \in Value
  <2>1. Counts(counter, NCycles(col)) \in Nat
    BY <1>1, CountsAreNumbers
  <2>2. InWindow(sensor.stored, slot - Period(col)) \in SUBSET Nat
    BY <1>1 DEF InWindow, SensorState
  <2>3. {} \in SUBSET Nat
    OBVIOUS
  <2> QED
    BY <2>1, <2>2, <2>3 DEF ColumnValue, Value
<1>3. line' = Append(line, v)
  BY DEF Evaluate
<1>4. /\ line' \in Seq(Value) /\ Len(line') = col /\ line'[col] = v
      /\ \A k \in 1..(col - 1) : line'[k] = line[k]
  <2> HIDE DEF v
  <2> QED
    BY <1>1, <1>2, <1>3, AppendProperties DEF ColumnIndex
<1>5. /\ col' \in ColumnIndex
      /\ phase' = "evaluate" => col' = col + 1
      /\ phase' = "file" => col = Len(Columns) /\ col' = 1
      /\ phase' \in {"evaluate", "file"}
  BY <1>1 DEF Evaluate, ColumnIndex
<1>6. UNCHANGED <<now, current, sensorVars, registerVars, next_logentry, slot, entries, reported>>
  BY DEF Evaluate
<1> HIDE DEF v
<1>7. Typed'
  BY <1>4, <1>5, <1>6 DEF IInv, Typed, Phases
<1>8. Gate' /\ OneEntryPerCycle'
  BY <1>6 DEF IInv, Gate, OneEntryPerCycle
<1>9. LineLength'
  <2>1. col \in Nat /\ Len(line') = col
    BY <1>1, <1>4 DEF ColumnIndex
  <2>2. phase' = "evaluate" => Len(line') = col' - 1
    BY <1>5, <2>1
  <2>3. phase' = "file" => Len(line') = Len(Columns) /\ col' = 1
    BY <1>5, <2>1
  <2> QED
    BY <2>2, <2>3 DEF LineLength
<1>10. Schedule'
  BY <1>1, <1>5, <1>6 DEF IInv, Schedule, Writing, NextFree
<1>11. Counting'
  <2> SUFFICES ASSUME AllPlain PROVE CycleOK' /\ LineOK' /\ CountOK'
    BY DEF Counting, AllPlain
  <2>1. CycleOK' /\ CountOK'
    BY <1>1, <1>5, <1>6 DEF IInv, Counting, CycleOK, CountOK, Held
  <2>2. LineOK'
    <3> SUFFICES ASSUME NEW i \in PlainColumns, i <= Len(line')
                 PROVE  line'[i].count = Last(counter.cycles).counts
      BY <1>6 DEF LineOK
    <3>1. i \in 1..col
      BY <1>1, <1>4 DEF PlainColumns, CountColumns, ColumnIndex
    <3>2. CASE i = col
      <4>1. Columns[col].op = "count" /\ NCycles(col) = 1
        BY <3>2 DEF PlainColumns, CountColumns
      <4>2. v.count = Counts(counter, 1)
        BY <4>1 DEF v, ColumnValue
      <4>3. Counts(counter, 1) = Last(counter.cycles).counts
        BY DEF Counts
      <4> QED
        BY <1>4, <3>2, <4>2, <4>3
    <3>3. CASE i # col
      <4>1. i \in 1..(col - 1)
        BY <1>1, <3>1, <3>3 DEF ColumnIndex
      <4>2. line[i].count = Last(counter.cycles).counts
        BY <1>1, <4>1 DEF IInv, Counting, LineOK
      <4> QED
        BY <1>4, <4>1, <4>2
    <3> QED
      BY <3>2, <3>3
  <2> QED
    BY <2>1, <2>2
<1> QED
  BY <1>7, <1>8, <1>9, <1>10, <1>11 DEF IInv

LEMMA WriteFileStep == IInv /\ WriteFile => IInv'
<1> SUFFICES ASSUME IInv, WriteFile PROVE IInv'
  OBVIOUS
<1> DEFINE e == [slot |-> slot, at |-> now, values |-> line, known |-> Slots(accepted)]
<1> USE DEF sensorVars
<1>1. /\ phase = "file" /\ phase' = "newCycle" /\ entries' = Append(entries, e)
      /\ reported' = [i \in ColumnIndex |-> reported[i] + line[i].count]
      /\ UNCHANGED <<now, current, sensorVars, next_logentry, slot, col, line>>
  BY DEF WriteFile
<1>2. /\ now \in Nat /\ slot \in Nat /\ line \in Seq(Value) /\ accepted \in SUBSET Nat
      /\ entries \in Seq(EntryState) /\ Rest \in Nat \ {0} /\ CycleTime \in Nat \ {0}
      /\ next_logentry \in Nat
  BY Constants DEF IInv, Typed
<1>3. e \in EntryState
  <2>1. Slots(accepted) \in SUBSET Nat
    BY <1>2, SlotBounds DEF Slots
  <2> QED
    BY <1>2, <2>1 DEF EntryState
<1> DEFINE n == Len(entries)
<1>4. /\ entries' \in Seq(EntryState) /\ Len(entries') = n + 1 /\ n \in Nat
      /\ entries'[n + 1] = e /\ \A k \in 1..n : entries'[k] = entries[k]
  <2> HIDE DEF e
  <2> QED
    BY <1>1, <1>2, <1>3, AppendProperties
<1>5. /\ next_logentry <= slot /\ slot <= now
      /\ \A k \in 1..n : entries[k].slot \in Nat /\ entries[k].slot + CycleTime <= slot
  <2>1. next_logentry <= slot
    BY <1>1 DEF IInv, Schedule, Writing
  <2>2. PICK b \in 0..now : slot = Timeslot(b, CycleTime)
    BY <1>1 DEF IInv, Schedule, Writing
  <2>3. slot <= b
    BY <1>2, <2>2, SlotBounds
  <2>4. \A k \in 1..n : entries[k].slot \in Nat /\ entries[k].slot + CycleTime <= next_logentry
    <3> SUFFICES ASSUME NEW k \in 1..n
                 PROVE  entries[k].slot \in Nat /\ entries[k].slot + CycleTime <= next_logentry
      OBVIOUS
    <3>1. entries[k] \in EntryState
      BY <1>2
    <3>2. entries[k].slot + CycleTime <= NextFree /\ NextFree = next_logentry
      BY <1>1 DEF IInv, Schedule, NextFree
    <3> QED
      BY <3>1, <3>2 DEF EntryState
  <2> QED
    BY <1>2, <2>1, <2>2, <2>3, <2>4
<1>6. Typed'
  <2>1. \A i \in ColumnIndex : reported[i] \in Nat /\ line[i].count \in Nat
    <3>1. ColumnIndex = 1..Len(line)
      BY <1>1 DEF ColumnIndex, IInv, LineLength
    <3>2. \A i \in ColumnIndex : line[i] \in Value
      BY <1>2, <3>1, ElementOfSeq
    <3> QED
      BY <3>2 DEF IInv, Typed, Value
  <2>2. reported' \in [ColumnIndex -> Nat]
    BY <1>1, <2>1
  <2> HIDE DEF e
  <2> QED
    BY <1>1, <1>4, <2>2 DEF IInv, Typed, Phases
<1>7. Gate' /\ LineLength'
  BY <1>1 DEF IInv, Gate, LineLength
<1>8. OneEntryPerCycle'
  <2>1. DOMAIN entries' = 1..(n + 1) /\ DOMAIN entries = 1..n
    BY <1>2, <1>4
  <2>2. ASSUME NEW k \in DOMAIN entries', NEW m \in DOMAIN entries', k < m
        PROVE  entries'[k].slot + CycleTime <= entries'[m].slot
    <3>1. k \in 1..n
      BY <1>4, <2>1, <2>2
    <3>2. CASE m = n + 1
      BY <1>4, <1>5, <3>1, <3>2
    <3>3. CASE m # n + 1
      <4>1. m \in 1..n
        BY <1>4, <2>1, <3>3
      <4> QED
        BY <1>4, <2>1, <2>2, <3>1, <4>1 DEF IInv, OneEntryPerCycle
    <3> QED
      BY <3>2, <3>3
  <2>3. ASSUME NEW k \in DOMAIN entries' PROVE entries'[k].slot <= entries'[k].at
    <3>1. CASE k = n + 1
      BY <1>4, <1>5, <3>1
    <3>2. CASE k # n + 1
      <4>1. k \in 1..n
        BY <1>4, <2>1, <3>2
      <4> QED
        BY <1>4, <2>1, <4>1 DEF IInv, OneEntryPerCycle
    <3> QED
      BY <3>1, <3>2
  <2> QED
    BY <2>2, <2>3 DEF OneEntryPerCycle
<1>9. Schedule'
  <2>1. NextFree' = slot + CycleTime /\ Writing
    BY <1>1 DEF NextFree, Writing
  <2>2. \A k \in 1..Len(entries') : entries'[k].slot + CycleTime <= slot + CycleTime
    <3> SUFFICES ASSUME NEW k \in 1..Len(entries') PROVE entries'[k].slot <= slot /\ entries'[k].slot \in Nat
      BY <1>2
    <3>1. CASE k = n + 1
      BY <1>2, <1>4, <3>1
    <3>2. CASE k # n + 1
      <4>1. k \in 1..n
        BY <1>4, <3>2
      <4> QED
        BY <1>2, <1>4, <1>5, <4>1
    <3> QED
      BY <3>1, <3>2
  <2> QED
    BY <1>1, <2>1, <2>2 DEF IInv, Schedule
<1>10. Counting'
  <2> SUFFICES ASSUME AllPlain PROVE CycleOK' /\ LineOK' /\ CountOK'
    BY DEF Counting, AllPlain
  <2> HIDE DEF e
  <2>1. CycleOK /\ LineOK /\ CountOK
    BY DEF IInv, Counting
  <2>2. CycleOK'
    <3>1. col = 1
      BY <1>1 DEF IInv, LineLength
    <3> QED
      BY <1>1, <2>1, <3>1 DEF CycleOK
  <2>3. LineOK'
    BY <1>1 DEF LineOK
  <2>4. CountOK'
    <3> SUFFICES ASSUME NEW i \in PlainColumns
                 PROVE  reported'[i] \in Nat /\ Cardinality(accepted') = reported'[i] + 0
      BY <1>1 DEF CountOK, Held
    <3>1. i \in ColumnIndex /\ i <= Len(line)
      BY <1>1, Constants DEF PlainColumns, CountColumns, ColumnIndex, IInv, LineLength
    <3>2. line[i].count = Last(counter.cycles).counts
      BY <1>1, <2>1, <3>1 DEF LineOK
    <3>3. /\ reported[i] \in Nat
          /\ Cardinality(accepted) = reported[i] + Last(counter.cycles).counts
      BY <1>1, <2>1 DEF CountOK, Held
    <3>4. Last(counter.cycles).counts \in Nat
      <4>1. Last(counter.cycles) \in CycleState
        BY DEF IInv, Typed, CounterState, Last
      <4> QED
        BY <4>1 DEF CycleState
    <3> QED
      BY <1>1, <3>1, <3>2, <3>3, <3>4
  <2> QED
    BY <2>2, <2>3, <2>4
<1> QED
  BY <1>6, <1>7, <1>8, <1>9, <1>10 DEF IInv

LEMMA StartCycleStep == IInv /\ StartCycle => IInv'
<1> SUFFICES ASSUME IInv, StartCycle PROVE IInv'
  OBVIOUS
<1>1. /\ phase = "newCycle" /\ counter' = StartNewCycle(counter, slot)
      /\ UNCHANGED <<now, current, sensor, keep, accepted, entries, reported>>
  BY DEF StartCycle
<1>2. /\ now \in Nat /\ slot \in Nat /\ counter \in CounterState /\ col \in ColumnIndex
      /\ CycleTime \in Nat \ {0} /\ next_logentry \in Nat /\ next_logentry <= slot
      /\ Len(Columns) \in Nat \ {0}
  BY <1>1, Constants DEF IInv, Typed, Schedule, Writing
<1>3. /\ NextLogentry(now) \in Nat /\ slot + CycleTime <= NextLogentry(now)
  <2>1. PICK b \in 0..now : slot = Timeslot(b, CycleTime)
    BY <1>1 DEF IInv, Schedule, Writing
  <2>2. b \in Nat /\ b <= now
    BY <1>2
  <2>3. NextLogentry(now) \in Nat /\ Timeslot(b, CycleTime) + CycleTime <= NextLogentry(now)
    BY <1>2, <2>2, NextIsLater
  <2> QED
    BY <2>1, <2>3
<1>4. \/ /\ col = Len(Columns) /\ next_logentry' = NextLogentry(now)
         /\ phase' = "pause" /\ col' = 1 /\ slot' = 0 /\ line' = <<>>
      \/ /\ col # Len(Columns) /\ col' = col + 1
         /\ UNCHANGED <<next_logentry, phase, slot, line>>
  BY DEF StartCycle
<1>5. counter' \in CounterState
  <2>1. CASE counter.nCyclesToStore > 0 /\ slot > Last(counter.cycles).start
    BY <1>1, <1>2, <2>1, CycleStarted
  <2>2. CASE ~(counter.nCyclesToStore > 0 /\ slot > Last(counter.cycles).start)
    BY <1>1, <1>2, <2>2 DEF StartNewCycle
  <2> QED
    BY <2>1, <2>2
<1>6. Typed'
  <2>1. 1 \in ColumnIndex /\ (col # Len(Columns) => col + 1 \in ColumnIndex)
    BY <1>2 DEF ColumnIndex
  <2>2. <<>> \in Seq(Value)
    OBVIOUS
  <2>3. /\ next_logentry' \in Nat /\ phase' \in Phases /\ col' \in ColumnIndex
        /\ slot' \in Nat /\ line' \in Seq(Value)
    <3>1. line \in Seq(Value) /\ phase \in Phases /\ "pause" \in Phases
      BY DEF IInv, Typed, Phases
    <3>2. CASE col = Len(Columns)
      BY <1>3, <1>4, <2>1, <2>2, <3>1, <3>2
    <3>3. CASE col # Len(Columns)
      BY <1>2, <1>4, <2>1, <3>1, <3>3
    <3> QED
      BY <3>2, <3>3
  <2> QED
    BY <1>1, <1>5, <2>3 DEF IInv, Typed
<1>7. Gate' /\ OneEntryPerCycle' /\ LineLength'
  BY <1>1, <1>4 DEF IInv, Gate, OneEntryPerCycle, LineLength
<1>8. Schedule'
  <2>1. \E a \in 0..now : next_logentry' = NextLogentry(a)
    BY <1>2, <1>4 DEF IInv, Schedule
  <2>2. Writing' => /\ next_logentry' <= slot'
                    /\ \E b \in 0..now : slot' = Timeslot(b, CycleTime)
    BY <1>1, <1>4 DEF IInv, Schedule, Writing
  <2>3. ASSUME NEW k \in 1..Len(entries) PROVE entries[k].slot + CycleTime <= NextFree'
    <3>1. entries[k].slot + CycleTime <= slot + CycleTime /\ entries[k] \in EntryState
      BY <1>1 DEF IInv, Schedule, NextFree, Typed
    <3>2. slot + CycleTime <= NextFree' /\ NextFree' \in Nat
      BY <1>1, <1>2, <1>3, <1>4 DEF NextFree
    <3>3. entries[k].slot \in Nat
      BY <3>1 DEF EntryState
    <3> QED
      BY <1>2, <3>1, <3>2, <3>3
  <2> QED
    BY <1>1, <2>1, <2>2, <2>3 DEF Schedule
<1>9. Counting'
  <2> SUFFICES ASSUME AllPlain PROVE CycleOK' /\ LineOK' /\ CountOK'
    BY DEF Counting, AllPlain
  <2>1. CycleOK /\ CountOK
    BY DEF IInv, Counting
  <2>2. /\ Last(counter'.cycles) = NewCycle(slot)
        /\ counter'.nCyclesToStore > 0
    <3>1. CASE col > 1
      <4>1. Last(counter.cycles).start = slot
        BY <1>1, <2>1, <3>1 DEF CycleOK, NewCycle
      <4>2. counter' = counter
        BY <1>1, <1>2, <4>1 DEF StartNewCycle
      <4> QED
        BY <1>1, <2>1, <3>1, <4>2 DEF CycleOK
    <3>2. CASE ~(col > 1)
      <4>1. Last(counter.cycles).start < next_logentry
        BY <1>1, <2>1, <3>2 DEF CycleOK
      <4>2. Last(counter.cycles).start \in Nat
        <5>1. Last(counter.cycles) \in CycleState
          BY <1>2 DEF CounterState, Last
        <5> QED
          BY <5>1 DEF CycleState
      <4>3. slot > Last(counter.cycles).start /\ counter.nCyclesToStore > 0
        BY <1>2, <2>1, <4>1, <4>2 DEF CycleOK
      <4> QED
        BY <1>1, <1>2, <4>3, CycleStarted
    <3> QED
      BY <3>1, <3>2
  <2>3. CycleOK'
    <3>1. NewCycle(slot).start = slot
      BY DEF NewCycle
    <3>2. slot < NextLogentry(now)
      BY <1>2, <1>3
    <3>3. phase' = "newCycle" => col' > 1 /\ slot' = slot
      BY <1>2, <1>4 DEF ColumnIndex
    <3>4. phase' # "newCycle" => next_logentry' = NextLogentry(now)
      BY <1>1, <1>4
    <3> QED
      BY <2>2, <3>1, <3>2, <3>3, <3>4 DEF CycleOK
  <2>4. LineOK'
    BY <1>1, <1>4 DEF LineOK
  <2>5. CountOK'
    <3>1. Last(counter'.cycles).counts = 0
      BY <2>2 DEF NewCycle
    <3>2. Held' = 0 /\ Held = 0
      BY <1>1, <3>1 DEF Held
    <3> QED
      BY <1>1, <2>1, <3>2 DEF CountOK
  <2> QED
    BY <2>3, <2>4, <2>5
<1> QED
  BY <1>6, <1>7, <1>8, <1>9 DEF IInv

-----------------------------------------------------------------------------
(***************************************************************************)
(* The invariant, and what follows from it.                                *)
(***************************************************************************)
THEOREM Invariance == Spec => []IInv
<1>1. Init => IInv
  BY InitInvariant
<1>2. IInv /\ [Next]_vars => IInv'
  <2> SUFFICES ASSUME IInv, [Next]_vars PROVE IInv'
    OBVIOUS
  <2>1. CASE Next
    BY <2>1, AddColumnStep, TriggerStep, NotDueStep, MeasureCallbackStep, StartReadStep,
       ReadOkStep, ReadFailStep, CallbackEventStep, RegisterPollStep,
       ResetCountersStep, NoEntryStep, StartEntryStep,
       EvaluateStep, WriteFileStep, StartCycleStep, TickStep DEF Next
  <2>2. CASE UNCHANGED vars
    BY <2>2, StutterStep
  <2> QED
    BY <2>1, <2>2
<1> QED
  BY <1>1, <1>2, PTL DEF Spec

(***************************************************************************)
(* The state of the logbook keeps its types; in particular every value of  *)
(* an entry is a number or a set of timestamps.                            *)
(***************************************************************************)
THEOREM TypeCorrect == Spec => []TypeOK
<1> DEFINE Registering == registering \in BOOLEAN /\ registrations \in 0..MaxRegistrations
<1>1. Init => Registering
  <2>1. MaxRegistrations \in Nat
    BY LogbookAssumption
  <2>2. 0 \in 0..MaxRegistrations
    BY <2>1
  <2> QED
    BY <2>2 DEF Init
<1>2. Registering /\ [Next]_vars => Registering'
  <2> SUFFICES ASSUME Registering, [Next]_vars PROVE Registering'
    OBVIOUS
  <2>1. CASE RegisterPoll
    BY <2>1, LogbookAssumption DEF RegisterPoll
  <2>2. CASE ResetCounters
    BY <2>2 DEF ResetCounters
  <2>3. CASE UNCHANGED vars \/ ~(RegisterPoll \/ ResetCounters)
    BY <2>3 DEF Next, vars, registerVars, AddColumn, Trigger, NotDue, MeasureCallback, StartRead,
       ReadOk, ReadFail, CallbackEvent, NoEntry, StartEntry, Evaluate, WriteFile, StartCycle, Tick
  <2> QED
    BY <2>1, <2>2, <2>3
<1>3. IInv /\ Registering => TypeOK
  BY DEF IInv, Typed, TypeOK
<1> QED
  BY <1>1, <1>2, <1>3, Invariance, PTL DEF Spec

(***************************************************************************)
(* However late write() is called and however long it takes, no cycle gets *)
(* two entries, and no entry is for a cycle that has not begun: write()'s  *)
(* slot and setTimestampForNextLogEntry() agree, although each takes a     *)
(* clock reading of its own.                                               *)
(***************************************************************************)
THEOREM EntriesAreOrdered == Spec => []OneEntryPerCycle
BY Invariance, PTL DEF IInv

(***************************************************************************)
(* A polled sensor, and no column with an evaluation period shorter than   *)
(* the cycle: every recorded measurement is counted in exactly one entry,  *)
(* for any number of columns that share the counter (column::getValue,     *)
(* counter::startNewCycle).                                                *)
(***************************************************************************)
THEOREM PolledEventsAreCountedOnce ==
    ASSUME Feeder = "main", \A i \in ColumnIndex : NCycles(i) > 0
    PROVE  Spec => []EventsCountedOnce
<1>1. IInv => EventsCountedOnce
  <2> SUFFICES ASSUME IInv, phase = "pause", NEW i \in CountColumns, NCycles(i) = 1
               PROVE  Cardinality(accepted) = reported[i] + Last(counter.cycles).counts
    BY DEF EventsCountedOnce
  <2>1. CountOK
    BY DEF IInv, Counting, AllPlain
  <2> QED
    BY <2>1 DEF CountOK, PlainColumns, Held
<1> QED
  BY <1>1, Invariance, PTL

-----------------------------------------------------------------------------
(***************************************************************************)
(* What the current cycle counts.                                          *)
(***************************************************************************)
Own == Last(counter.cycles).start <= now /\ CountsItsOwn

\* The arrivals a cycle with this start may have counted.
Since(start) == {a \in accepted : a >= start}

LEMMA OwnMembers ==
    ASSUME IInv
    PROVE  /\ now \in Nat /\ accepted \in SUBSET Nat /\ IsFiniteSet(accepted)
           /\ Last(counter.cycles).start \in Nat /\ Last(counter.cycles).counts \in Nat
           /\ \A start : /\ IsFiniteSet(Since(start))
                         /\ Cardinality(Since(start)) \in Nat
<1>1. /\ now \in Nat /\ accepted \in SUBSET Nat /\ IsFiniteSet(accepted)
      /\ counter \in CounterState
  BY DEF IInv, Typed, Gate
<1>2. Last(counter.cycles) \in CycleState
  BY <1>1 DEF CounterState, Last
<1>3. ASSUME NEW start
      PROVE  IsFiniteSet(Since(start)) /\ Cardinality(Since(start)) \in Nat
  <2>1. Since(start) \subseteq accepted
    BY DEF Since
  <2>2. IsFiniteSet(Since(start))
    BY <1>1, <2>1, FS_Subset
  <2> QED
    BY <2>2, FS_CardinalityType
<1> QED
  BY <1>1, <1>2, <1>3 DEF CycleState

(* A measurement that passes the gate arrives at a time of its own.        *)
LEMMA NewArrival ==
    ASSUME IInv, Rested(sensor, SensorCfg, now)
    PROVE  now \notin accepted
<1>1. /\ now \in Nat /\ Rest \in Nat \ {0} /\ accepted \in SUBSET Nat
      /\ sensor.lastMeasurement \in Nat /\ sensor.lastMeasurement <= now
  BY Constants DEF IInv, Typed, Gate, SensorState
<1>2. sensor.lastMeasurement + Rest <= now
  BY <1>1 DEF Rested, TimeDiff, SensorCfg
<1>3. Timeslot(now, Rest) \in Nat /\ now < Timeslot(now, Rest) + Rest
  BY <1>1, SlotBounds
<1>4. sensor.lastMeasurement < Timeslot(now, Rest)
  BY <1>1, <1>2, <1>3
<1> QED
  BY <1>1, <1>3, <1>4 DEF IInv, Gate

LEMMA OwnRecord ==
    ASSUME IInv, Own, Record, UNCHANGED <<now, registering>>
    PROVE  Own'
<1> DEFINE start == Last(counter.cycles).start
<1>1. now \in Nat /\ Rest \in Nat \ {0} /\ counter \in CounterState
      /\ Timeslot(now, Rest) \in Nat
  BY Constants, SlotBounds DEF IInv, Typed
<1>2. CASE Rested(sensor, SensorCfg, now)
  <2>1. counter' = Count(counter, Timeslot(now, Rest)) /\ accepted' = accepted \cup {now}
    BY <1>2 DEF Record
  <2>2. /\ Last(counter'.cycles).counts = Last(counter.cycles).counts + 1
        /\ Last(counter'.cycles).start = start
    BY <1>1, <2>1, CountedOnceMore
  <2>3. start <= now
    BY DEF Own
  <2>4. /\ {a \in accepted' : a >= start} = Since(start) \cup {now}
        /\ now \notin Since(start)
    BY <1>1, <1>2, <2>1, <2>3, NewArrival, OwnMembers DEF Since
  <2>5. Cardinality(Since(start) \cup {now}) = Cardinality(Since(start)) + 1
    BY <2>4, OwnMembers, FS_AddElement
  <2>6. ~registering => Last(counter.cycles).counts <= Cardinality(Since(start))
    BY DEF Own, CountsItsOwn, Since
  <2>7. ~registering => Last(counter'.cycles).counts
                            <= Cardinality({a \in accepted' : a >= start})
    BY <2>2, <2>4, <2>5, <2>6, OwnMembers
  <2> QED
    BY <2>2, <2>3, <2>7 DEF Own, CountsItsOwn
<1>3. CASE ~Rested(sensor, SensorCfg, now)
  BY <1>3 DEF Record, Own, CountsItsOwn
<1> QED
  BY <1>2, <1>3

LEMMA OwnStartCycle ==
    ASSUME IInv, Own, StartCycle
    PROVE  Own'
<1>1. UNCHANGED <<now, registering, accepted>> /\ counter' = StartNewCycle(counter, slot)
      /\ phase = "newCycle"
  BY DEF StartCycle, registerVars
<1>2. slot \in Nat /\ slot <= now /\ counter \in CounterState
  <2>1. PICK b \in 0..now : slot = Timeslot(b, CycleTime)
    BY <1>1 DEF IInv, Schedule, Writing
  <2>2. b \in Nat /\ b <= now /\ now \in Nat /\ CycleTime \in Nat \ {0}
    BY Constants DEF IInv, Typed
  <2>3. Timeslot(b, CycleTime) <= b /\ Timeslot(b, CycleTime) \in Nat
    BY <2>2, SlotBounds
  <2> QED
    BY <2>1, <2>2, <2>3 DEF IInv, Typed
<1>3. CASE counter.nCyclesToStore > 0 /\ slot > Last(counter.cycles).start
  <2>1. Last(counter'.cycles) = NewCycle(slot)
    BY <1>1, <1>2, <1>3, CycleStarted
  <2>2. Last(counter'.cycles).start = slot /\ Last(counter'.cycles).counts = 0
    BY <2>1 DEF NewCycle
  <2>3. Cardinality(Since(slot)) \in Nat
    BY OwnMembers
  <2>4. 0 <= Cardinality({a \in accepted' : a >= slot})
    BY <1>1, <2>3 DEF Since
  <2> QED
    BY <1>1, <1>2, <2>2, <2>4 DEF Own, CountsItsOwn
<1>4. CASE ~(counter.nCyclesToStore > 0 /\ slot > Last(counter.cycles).start)
  <2>1. counter' = counter
    BY <1>1, <1>4 DEF StartNewCycle
  <2> QED
    BY <1>1, <2>1 DEF Own, CountsItsOwn
<1> QED
  BY <1>3, <1>4

LEMMA OwnReset ==
    ASSUME IInv, Own, ResetCounters
    PROVE  Own'
<1>1. UNCHANGED <<now, accepted>> /\ counter' = ResetCounter(counter, now)
  BY DEF ResetCounters
<1>2. now \in Nat /\ counter \in CounterState
  BY DEF IInv, Typed
<1>3. Last(counter'.cycles) = NewCycle(now)
  BY <1>1, <1>2, CounterIsReset
<1>4. Last(counter'.cycles).start = now /\ Last(counter'.cycles).counts = 0
  BY <1>3 DEF NewCycle
<1>5. 0 <= Cardinality({a \in accepted' : a >= now})
  <2>1. Cardinality(Since(now)) \in Nat
    BY OwnMembers
  <2> QED
    BY <1>1, <2>1 DEF Since
<1> QED
  BY <1>1, <1>2, <1>4, <1>5 DEF Own, CountsItsOwn

LEMMA OwnPoll ==
    ASSUME IInv, Own, RegisterPoll
    PROVE  Own'
<1>1. now \in Nat /\ counter \in CounterState /\ Timeslot(now, Rest) \in Nat
  BY Constants, SlotBounds DEF IInv, Typed
<1>2. Last(counter'.cycles).start = Last(counter.cycles).start
  BY <1>1, CountedOnceMore DEF RegisterPoll
<1> QED
  BY <1>2 DEF RegisterPoll, Own, CountsItsOwn

(* Every other step leaves the counts and the arrivals alone.              *)
LEMMA OwnQuiet ==
    ASSUME IInv, Own, UNCHANGED <<accepted, registering>>, counter'.cycles = counter.cycles,
           now' \in Nat, now <= now'
    PROVE  Own'
<1>1. Last(counter.cycles).start \in Nat /\ now \in Nat
  BY OwnMembers
<1> QED
  BY <1>1 DEF Own, CountsItsOwn

(***************************************************************************)
(* The current cycle counts only events that happened since it began, for  *)
(* any columns and any feeder: neither the poll of a registration nor an   *)
(* event of an earlier cycle is left in it (counter::startNewCycle,        *)
(* counter::reset, sensorTinkerforge::registerCallback).                   *)
(***************************************************************************)
THEOREM CyclesCountTheirOwn == Spec => []CountsItsOwn
<1>1. Init => Own
  <2> SUFFICES ASSUME Init PROVE Own
    OBVIOUS
  <2>1. Last(counter.cycles) = NewCycle(StartTime)
    BY DEF Init, NewCounter, Last
  <2>2. accepted = {} /\ now = StartTime /\ StartTime \in Nat
    BY Constants DEF Init
  <2>3. Cardinality({a \in accepted : a >= StartTime}) = 0
    BY <2>2, FS_EmptySet
  <2> QED
    BY <2>1, <2>2, <2>3 DEF Own, CountsItsOwn, NewCycle
<1>2. IInv /\ Own /\ [Next]_vars => Own'
  <2> SUFFICES ASSUME IInv, Own, [Next]_vars PROVE Own'
    OBVIOUS
  <2>1. now \in Nat
    BY DEF IInv, Typed
  <2>2. CASE AddColumn
    <3>1. counter'.cycles = counter.cycles
      BY <2>2 DEF AddColumn, AccumulateCyclesToStore, IInv, Typed, CounterState
    <3> QED
      BY <2>1, <2>2, <3>1, OwnQuiet DEF AddColumn, registerVars
  <2>3. CASE Trigger \/ NotDue \/ MeasureCallback \/ StartRead \/ ReadFail
    BY <2>1, <2>3, OwnQuiet
       DEF Trigger, NotDue, MeasureCallback, StartRead, ReadFail, sensorVars, registerVars
  <2>4. CASE NoEntry \/ StartEntry \/ Evaluate \/ WriteFile
    BY <2>1, <2>4, OwnQuiet
       DEF NoEntry, StartEntry, Evaluate, WriteFile, sensorVars, registerVars
  <2>5. CASE Tick
    BY <2>1, <2>5, OwnQuiet DEF Tick, sensorVars, registerVars
  <2>6. CASE ReadOk \/ CallbackEvent
    BY <2>6, OwnRecord DEF ReadOk, CallbackEvent, registerVars
  <2>7. CASE RegisterPoll \/ ResetCounters \/ StartCycle
    BY <2>7, OwnPoll, OwnReset, OwnStartCycle
  <2>8. CASE UNCHANGED vars
    BY <2>1, <2>8, OwnQuiet DEF vars
  <2> QED
    BY <2>2, <2>3, <2>4, <2>5, <2>6, <2>7, <2>8 DEF Next
<1>3. Own => CountsItsOwn
  BY DEF Own
<1> QED
  BY <1>1, <1>2, <1>3, Invariance, PTL DEF Spec

-----------------------------------------------------------------------------
(***************************************************************************)
(* The refinement of EventLedger, for a polled sensor, columns of at least *)
(* a cycle, and a count column of one cycle.                               *)
(***************************************************************************)
LEMMA LedgerColumn ==
    ASSUME IInv, AllPlain, PlainColumns # {}
    PROVE  /\ TheColumn \in PlainColumns /\ TheColumn \in ColumnIndex
           /\ col \in ColumnIndex /\ Len(Columns) \in Nat \ {0}
           /\ Last(counter.cycles).counts \in Nat
           /\ reported[TheColumn] \in Nat
           /\ InLine => line[TheColumn].count = Last(counter.cycles).counts
<1>1. TheColumn \in PlainColumns
  BY DEF TheColumn, PlainColumns
<1>2. /\ TheColumn \in ColumnIndex /\ col \in ColumnIndex
      /\ Len(Columns) \in Nat \ {0} /\ Last(counter.cycles).counts \in Nat
  BY <1>1, Constants, OwnMembers DEF PlainColumns, CountColumns, IInv, Typed
<1>3. reported[TheColumn] \in Nat
  BY <1>1 DEF IInv, Counting, CountOK
<1>4. ASSUME InLine PROVE line[TheColumn].count = Last(counter.cycles).counts
  <2>1. phase \in {"evaluate", "file"} /\ TheColumn <= Len(line)
    BY <1>2, <1>4 DEF InLine, IInv, LineLength, ColumnIndex
  <2> QED
    BY <1>1, <2>1 DEF IInv, Counting, LineOK
<1> QED
  BY <1>1, <1>2, <1>3, <1>4

(* Steps that the ledger does not see.                                     *)
LEMMA LedgerQuiet ==
    ASSUME UNCHANGED <<line, col, reported>>, counter'.cycles = counter.cycles,
           phase' = phase \/ phase' \notin {"evaluate", "file", "newCycle"},
           phase' = phase \/ phase \notin {"evaluate", "file", "newCycle"}
    PROVE  UNCHANGED <<LedgerPending, LedgerReported>>
BY DEF LedgerPending, LedgerReported, InLine, InEntry

LEMMA LedgerReading ==
    ASSUME IInv, AllPlain, PlainColumns # {}, ReadOk
    PROVE  [Ledger!Next]_<<LedgerPending, LedgerReported>>
<1>1. /\ counter \in CounterState /\ Timeslot(now, Rest) \in Nat
      /\ UNCHANGED <<line, col, reported>> /\ phase = "reading" /\ phase' = "write"
  BY Constants, SlotBounds DEF ReadOk, writeVars, IInv, Typed
<1>2. CASE Rested(sensor, SensorCfg, now)
  <2>1. Last(counter'.cycles).counts = Last(counter.cycles).counts + 1
    BY <1>1, <1>2, CountedOnceMore DEF ReadOk, Record
  <2>2. LedgerPending' = LedgerPending + 1 /\ UNCHANGED LedgerReported
    BY <1>1, <2>1 DEF LedgerPending, LedgerReported, InLine, InEntry
  <2> QED
    BY <2>2 DEF Ledger!Next, Ledger!Event
<1>3. CASE ~Rested(sensor, SensorCfg, now)
  BY <1>1, <1>3, LedgerQuiet DEF ReadOk, Record
<1> QED
  BY <1>2, <1>3

LEMMA LedgerEvaluates ==
    ASSUME IInv, IInv', AllPlain, AllPlain', PlainColumns # {}, Evaluate
    PROVE  [Ledger!Next]_<<LedgerPending, LedgerReported>>
<1>1. /\ phase = "evaluate" /\ UNCHANGED <<counter, reported>>
      /\ IF col = Len(Columns) THEN phase' = "file" /\ col' = 1
                               ELSE col' = col + 1 /\ phase' = phase
  BY DEF Evaluate, sensorVars
<1>2. /\ TheColumn \in ColumnIndex /\ col \in ColumnIndex /\ Len(Columns) \in Nat \ {0}
      /\ Last(counter.cycles).counts \in Nat /\ reported[TheColumn] \in Nat
      /\ InLine => line[TheColumn].count = Last(counter.cycles).counts
  BY LedgerColumn
<1>3. InLine' => line'[TheColumn].count = Last(counter.cycles).counts
  <2> SUFFICES ASSUME InLine' PROVE line'[TheColumn].count = Last(counter'.cycles).counts
    BY <1>1
  <2>1. phase' \in {"evaluate", "file"} /\ TheColumn <= Len(line')
    <3>1. col' \in ColumnIndex /\ LineLength'
      BY DEF IInv, Typed
    <3>2. /\ phase' = "evaluate" => Len(line') = col' - 1
          /\ phase' = "file" => Len(line') = Len(Columns)
      BY <3>1 DEF LineLength
    <3>3. (phase' = "evaluate" /\ col' > TheColumn) \/ phase' = "file"
      BY DEF InLine
    <3>4. CASE phase' = "file"
      BY <1>2, <3>2, <3>4 DEF ColumnIndex
    <3>5. CASE phase' = "evaluate" /\ col' > TheColumn
      BY <1>2, <3>1, <3>2, <3>5 DEF ColumnIndex
    <3> QED
      BY <3>3, <3>4, <3>5
  <2>2. TheColumn \in PlainColumns
    BY LedgerColumn
  <2> QED
    BY <2>1, <2>2 DEF IInv, Counting, LineOK
<1>4. InLine' <=> TheColumn <= col
  BY <1>1, <1>2 DEF InLine, ColumnIndex
<1>5. InLine <=> TheColumn < col
  BY <1>1 DEF InLine
<1>6. ~InEntry /\ ~InEntry'
  BY <1>1 DEF InEntry
<1>7. CASE TheColumn = col
  <2>1. LedgerPending = Last(counter.cycles).counts /\ LedgerReported = reported[TheColumn]
    BY <1>2, <1>5, <1>6, <1>7 DEF LedgerPending, LedgerReported, ColumnIndex
  <2>2. LedgerPending' = 0
    BY <1>2, <1>4, <1>7 DEF LedgerPending, ColumnIndex
  <2>3. LedgerReported' = reported[TheColumn] + Last(counter.cycles).counts
    BY <1>1, <1>2, <1>3, <1>4, <1>7 DEF LedgerReported, ColumnIndex
  <2> QED
    BY <2>1, <2>2, <2>3 DEF Ledger!Next, Ledger!Entry
<1>8. CASE TheColumn # col
  <2>1. InLine' <=> InLine
    BY <1>2, <1>4, <1>5, <1>8 DEF ColumnIndex
  <2> QED
    BY <1>1, <1>2, <1>3, <1>6, <2>1 DEF LedgerPending, LedgerReported
<1> QED
  BY <1>7, <1>8

LEMMA LedgerWrites ==
    ASSUME IInv, AllPlain, PlainColumns # {}, WriteFile
    PROVE  UNCHANGED <<LedgerPending, LedgerReported>>
<1>1. /\ phase = "file" /\ phase' = "newCycle" /\ UNCHANGED <<counter, col, line>> /\ col = 1
      /\ reported'[TheColumn] = reported[TheColumn] + line[TheColumn].count
  BY LedgerColumn DEF WriteFile, IInv, LineLength, sensorVars
<1>2. InLine /\ ~InLine' /\ InEntry'
  BY <1>1 DEF InLine, InEntry
<1>3. reported'[TheColumn] \in Nat
  BY <1>1, <1>2, LedgerColumn
<1> QED
  BY <1>1, <1>2, <1>3 DEF LedgerPending, LedgerReported

(* The evaluated counts have been moved to the entry; the cycle they came  *)
(* from ends with the first column and no other one.                       *)
LEMMA LedgerNewCycle ==
    ASSUME IInv, AllPlain, PlainColumns # {}, StartCycle
    PROVE  UNCHANGED <<LedgerPending, LedgerReported>>
<1>1. /\ phase = "newCycle" /\ counter' = StartNewCycle(counter, slot) /\ UNCHANGED reported
      /\ IF col = Len(Columns) THEN phase' = "pause" /\ col' = 1
                               ELSE phase' = phase /\ col' = col + 1
  BY DEF StartCycle
<1>2. /\ col \in ColumnIndex /\ slot \in Nat /\ counter \in CounterState
      /\ counter.nCyclesToStore > 0
  BY DEF IInv, Typed, Counting, CycleOK
<1>3. Last(counter'.cycles).counts = 0
  <2>1. CASE col = 1
    <3>1. slot > Last(counter.cycles).start
      BY <1>1, <1>2, <2>1, OwnMembers DEF IInv, Typed, Counting, CycleOK, Schedule, Writing
    <3>2. Last(counter'.cycles) = NewCycle(slot)
      BY <1>1, <1>2, <3>1, CycleStarted
    <3> QED
      BY <3>2 DEF NewCycle
  <2>2. CASE col # 1
    <3>1. Last(counter.cycles) = NewCycle(slot)
      BY <1>1, <1>2, <2>2 DEF IInv, Counting, CycleOK, ColumnIndex
    <3>2. ~(slot > Last(counter.cycles).start)
      BY <1>2, <3>1 DEF NewCycle
    <3>3. counter' = counter
      BY <1>1, <3>2 DEF StartNewCycle
    <3> QED
      BY <3>1, <3>3 DEF NewCycle
  <2> QED
    BY <2>1, <2>2
<1>4. InEntry \/ Last(counter.cycles).counts = 0
  <2>1. col # 1 => Last(counter.cycles) = NewCycle(slot)
    BY <1>1, <1>2 DEF IInv, Counting, CycleOK, ColumnIndex
  <2> QED
    BY <1>1, <2>1 DEF InEntry, NewCycle
<1>5. ~InLine /\ ~InLine'
  BY <1>1 DEF InLine
<1> QED
  BY <1>1, <1>3, <1>4, <1>5 DEF LedgerPending, LedgerReported

LEMMA LedgerStep ==
    ASSUME IInv, IInv', AllPlain, AllPlain', PlainColumns # {}, [Next]_vars
    PROVE  [Ledger!Next]_<<LedgerPending, LedgerReported>>
<1>1. CASE AddColumn
  <2>1. counter'.cycles = counter.cycles
    BY <1>1 DEF AddColumn, AccumulateCyclesToStore, IInv, Typed, CounterState
  <2>2. UNCHANGED <<line, reported>> /\ phase = "config" /\ phase' \in {"config", "pause"}
    BY <1>1 DEF AddColumn
  <2> QED
    BY <2>1, <2>2 DEF LedgerPending, LedgerReported, InLine, InEntry
<1>2. CASE Trigger \/ NotDue \/ MeasureCallback \/ StartRead \/ ReadFail \/ NoEntry
  BY <1>2, LedgerQuiet
     DEF Trigger, NotDue, MeasureCallback, StartRead, ReadFail, NoEntry, sensorVars, writeVars
<1>3. CASE ReadOk
  BY <1>3, LedgerReading
<1>4. CASE CallbackEvent \/ RegisterPoll \/ ResetCounters
  BY <1>4 DEF CallbackEvent, RegisterPoll, ResetCounters, AllPlain
<1>5. CASE StartEntry
  <2>1. phase = "write" /\ phase' = "evaluate" /\ col' = 1 /\ UNCHANGED <<counter, reported>>
    BY <1>5 DEF StartEntry, sensorVars
  <2>2. ~InLine /\ ~InLine' /\ ~InEntry /\ ~InEntry'
    BY <2>1, LedgerColumn DEF InLine, InEntry, ColumnIndex
  <2> QED
    BY <2>1, <2>2 DEF LedgerPending, LedgerReported
<1>6. CASE Evaluate
  BY <1>6, LedgerEvaluates
<1>7. CASE WriteFile
  BY <1>7, LedgerWrites
<1>8. CASE StartCycle
  BY <1>8, LedgerNewCycle
<1>9. CASE Tick \/ UNCHANGED vars
  BY <1>9, LedgerQuiet DEF Tick, vars, sensorVars, writeVars
<1> QED
  BY <1>1, <1>2, <1>3, <1>4, <1>5, <1>6, <1>7, <1>8, <1>9 DEF Next

(***************************************************************************)
(* A polled sensor, columns of at least a cycle, one of them a count of    *)
(* one cycle: every step of the program either leaves the ledger as it is, *)
(* adds one event, or makes an entry of all events since the last one      *)
(* (sensor::addRawMeasurement, column::getValue, logbook::write,           *)
(* counter::startNewCycle).                                                *)
(***************************************************************************)
THEOREM LedgerIsKept ==
    ASSUME Feeder = "main", \A i \in ColumnIndex : NCycles(i) > 0,
           \E i \in CountColumns : NCycles(i) = 1
    PROVE  Spec => KeepsLedger
<1>1. AllPlain /\ PlainColumns # {}
  BY DEF AllPlain, PlainColumns
<1>2. Init => Ledger!Init
  <2> SUFFICES ASSUME Init PROVE Ledger!Init
    OBVIOUS
  <2>1. Last(counter.cycles).counts = 0
    BY DEF Init, NewCounter, NewCycle, Last
  <2>2. reported[TheColumn] = 0
    BY <1>1 DEF Init, TheColumn, PlainColumns, CountColumns
  <2> QED
    BY <2>1, <2>2 DEF Init, Ledger!Init, LedgerPending, LedgerReported, InLine, InEntry
<1>3. IInv /\ IInv' /\ [Next]_vars => [Ledger!Next]_<<LedgerPending, LedgerReported>>
  BY <1>1, LedgerStep DEF AllPlain
<1> QED
  BY <1>2, <1>3, Invariance, PTL DEF Spec, KeepsLedger, Ledger!Spec

-----------------------------------------------------------------------------
(***************************************************************************)
(* A sensor fed by any thread, before any callback is registered anew: an  *)
(* event may come between the evaluation of a column and the end of the    *)
(* cycle, and is lost then, but the cycle that ends is never older than    *)
(* the entry's slot, so that nothing reported is kept.                     *)
(***************************************************************************)
NotRegistered ==
    /\ registrations \in Nat
    /\ registrations = 0 => ~registering

CycleEnds ==
    /\ counter.nCyclesToStore > 0
    /\ IF phase = "newCycle" /\ col > 1
       THEN Last(counter.cycles).start = slot
       ELSE Last(counter.cycles).start < next_logentry

Kept == IF phase = "newCycle" /\ col = 1 THEN 0 ELSE Last(counter.cycles).counts

NoneTwice ==
    \A i \in PlainColumns :
        /\ reported[i] \in Nat
        /\ reported[i] + Kept <= Cardinality(accepted)
        /\ phase \in {"evaluate", "file"} /\ i <= Len(line) =>
              line[i].count \in Nat /\ line[i].count <= Last(counter.cycles).counts

Over == NotRegistered /\ (registrations = 0 => CycleEnds /\ NoneTwice)

LEMMA OverRecord ==
    ASSUME IInv, Over, Record,
           UNCHANGED <<registrations, registering, line, next_logentry, slot, reported, col>>,
           phase' = phase \/ (phase = "reading" /\ phase' = "write")
    PROVE  Over'
<1>1. /\ counter \in CounterState /\ Timeslot(now, Rest) \in Nat
      /\ IsFiniteSet(accepted) /\ Cardinality(accepted) \in Nat
      /\ Last(counter.cycles).counts \in Nat
  BY Constants, SlotBounds, OwnMembers, FS_CardinalityType DEF IInv, Typed
<1>2. CASE ~Rested(sensor, SensorCfg, now)
  <2>1. UNCHANGED <<counter, accepted>>
    BY <1>2 DEF Record
  <2> QED
    BY <2>1 DEF Over, NotRegistered, CycleEnds, NoneTwice, Kept
<1>3. CASE Rested(sensor, SensorCfg, now)
  <2>1. counter' = Count(counter, Timeslot(now, Rest)) /\ accepted' = accepted \cup {now}
    BY <1>3 DEF Record
  <2>2. /\ Last(counter'.cycles).counts = Last(counter.cycles).counts + 1
        /\ Last(counter'.cycles).start = Last(counter.cycles).start
        /\ counter'.nCyclesToStore = counter.nCyclesToStore
    BY <1>1, <2>1, CountedOnceMore
  <2>3. Cardinality(accepted') = Cardinality(accepted) + 1
    BY <1>1, <1>3, <2>1, NewArrival, FS_AddElement
  <2>4. registrations' = 0 => CycleEnds'
    BY <2>2 DEF Over, CycleEnds
  <2>5. ASSUME registrations' = 0, NEW i \in PlainColumns
        PROVE  /\ reported'[i] \in Nat
               /\ reported'[i] + Kept' <= Cardinality(accepted')
               /\ phase' \in {"evaluate", "file"} /\ i <= Len(line') =>
                     line'[i].count \in Nat /\ line'[i].count <= Last(counter'.cycles).counts
    <3>1. /\ reported[i] \in Nat /\ reported[i] + Kept <= Cardinality(accepted)
          /\ phase \in {"evaluate", "file"} /\ i <= Len(line) =>
                line[i].count \in Nat /\ line[i].count <= Last(counter.cycles).counts
      BY <2>5 DEF Over, NoneTwice
    <3>2. Kept \in Nat /\ Kept' \in Nat /\ Kept' <= Kept + 1
      BY <1>1, <2>2 DEF Kept
    <3>3. reported'[i] + Kept' <= Cardinality(accepted')
      BY <1>1, <2>3, <3>1, <3>2
    <3>4. phase' \in {"evaluate", "file"} => phase' = phase
      OBVIOUS
    <3> QED
      BY <1>1, <2>2, <3>1, <3>3, <3>4
  <2>6. registrations' = 0 => NoneTwice'
    BY <2>5 DEF NoneTwice
  <2>7. NotRegistered'
    BY DEF Over, NotRegistered
  <2> QED
    BY <2>4, <2>6, <2>7 DEF Over
<1> QED
  BY <1>2, <1>3

(* A column's value is what its counter holds when it is evaluated.        *)
LEMMA OverEvaluate ==
    ASSUME IInv, Over, Evaluate
    PROVE  Over'
<1> DEFINE v == ColumnValue(col)
<1>1. /\ phase = "evaluate" /\ col \in ColumnIndex /\ line \in Seq(Value)
      /\ Len(line) = col - 1 /\ Len(Columns) \in Nat \ {0} /\ line' = Append(line, v)
      /\ phase' \in {"evaluate", "file"}
      /\ UNCHANGED <<registrations, registering, next_logentry, slot, reported, accepted, counter>>
  BY Constants DEF IInv, Typed, LineLength, Evaluate, sensorVars, registerVars
<1> HIDE DEF v
<1>2. /\ Len(line') = col /\ line'[col] = v
      /\ \A k \in 1..(col - 1) : line'[k] = line[k]
  BY <1>1 DEF ColumnIndex
<1>3. Kept' = Kept /\ NotRegistered' /\ (registrations' = 0 => CycleEnds')
  BY <1>1 DEF Kept, Over, NotRegistered, CycleEnds
<1>4. ASSUME registrations = 0, NEW i \in PlainColumns, i <= Len(line')
      PROVE  line'[i].count \in Nat /\ line'[i].count <= Last(counter.cycles).counts
  <2>1. i \in 1..col
    BY <1>1, <1>2, <1>4 DEF PlainColumns, CountColumns, ColumnIndex
  <2>2. CASE i = col
    <3>1. v.count = Last(counter.cycles).counts
      BY <2>2 DEF v, ColumnValue, Counts, PlainColumns, CountColumns
    <3> QED
      BY <1>2, <2>2, <3>1, OwnMembers
  <2>3. CASE i # col
    BY <1>1, <1>2, <1>4, <2>1, <2>3 DEF Over, NoneTwice, ColumnIndex
  <2> QED
    BY <2>2, <2>3
<1> QED
  BY <1>1, <1>3, <1>4 DEF Over, NoneTwice

LEMMA OverWriteFile ==
    ASSUME IInv, Over, WriteFile
    PROVE  Over'
<1>1. /\ phase = "file" /\ phase' = "newCycle" /\ col = 1 /\ Len(line) = Len(Columns)
      /\ reported' = [i \in ColumnIndex |-> reported[i] + line[i].count]
      /\ UNCHANGED <<registrations, registering, next_logentry, slot, accepted, counter, col, line>>
  BY DEF IInv, LineLength, WriteFile, sensorVars, registerVars
<1>2. NotRegistered' /\ (registrations' = 0 => CycleEnds')
  BY <1>1 DEF Over, NotRegistered, CycleEnds
<1>3. ASSUME registrations = 0, NEW i \in PlainColumns
      PROVE  reported'[i] \in Nat /\ reported'[i] <= Cardinality(accepted)
  <2>1. i \in ColumnIndex /\ i <= Len(line)
    BY <1>1, Constants DEF PlainColumns, CountColumns, ColumnIndex
  <2>2. /\ reported[i] \in Nat /\ reported[i] + Last(counter.cycles).counts <= Cardinality(accepted)
        /\ line[i].count \in Nat /\ line[i].count <= Last(counter.cycles).counts
    BY <1>1, <1>3, <2>1 DEF Over, NoneTwice, Kept
  <2>3. Cardinality(accepted) \in Nat /\ Last(counter.cycles).counts \in Nat
    BY OwnMembers, FS_CardinalityType
  <2> QED
    BY <1>1, <2>1, <2>2, <2>3
<1>4. registrations' = 0 => NoneTwice'
  <2>1. Kept' = 0 /\ phase' \notin {"evaluate", "file"}
    BY <1>1 DEF Kept
  <2>2. registrations' = registrations /\ accepted' = accepted
    BY <1>1
  <2> QED
    BY <1>3, <2>1, <2>2 DEF NoneTwice
<1> QED
  BY <1>2, <1>4 DEF Over

LEMMA OverStartCycle ==
    ASSUME IInv, Over, StartCycle
    PROVE  Over'
<1>1. /\ phase = "newCycle" /\ counter' = StartNewCycle(counter, slot)
      /\ UNCHANGED <<registrations, registering, reported, accepted, now>>
      /\ \/ phase' = "pause" /\ next_logentry' = NextLogentry(now)
         \/ phase' = phase /\ col' = col + 1 /\ UNCHANGED <<slot, next_logentry>>
  BY DEF StartCycle, registerVars
<1>2. /\ slot \in Nat /\ next_logentry \in Nat /\ next_logentry <= slot /\ col \in ColumnIndex
      /\ counter \in CounterState /\ slot < NextLogentry(now) /\ NextLogentry(now) \in Nat
      /\ Last(counter.cycles).counts \in Nat /\ Last(counter.cycles).start \in Nat
  <2>1. PICK b \in 0..now : slot = Timeslot(b, CycleTime)
    BY <1>1 DEF IInv, Schedule, Writing
  <2>2. b \in Nat /\ b <= now /\ now \in Nat /\ CycleTime \in Nat \ {0}
    BY Constants DEF IInv, Typed
  <2>3. slot \in Nat /\ slot + CycleTime <= NextLogentry(now) /\ NextLogentry(now) \in Nat
    BY <2>1, <2>2, SlotBounds, NextIsLater
  <2> QED
    BY <1>1, <2>2, <2>3, OwnMembers DEF IInv, Typed, Schedule, Writing
<1>3. NotRegistered'
  BY <1>1 DEF Over, NotRegistered
<1>4. ASSUME registrations = 0
      PROVE  /\ Last(counter'.cycles).start = slot
             /\ counter'.nCyclesToStore > 0
             /\ \A i \in PlainColumns :
                   reported[i] + Last(counter'.cycles).counts <= Cardinality(accepted)
  <2>1. CycleEnds /\ NoneTwice
    BY <1>4 DEF Over
  <2>2. CASE col = 1
    <3>1. slot > Last(counter.cycles).start /\ counter.nCyclesToStore > 0
      BY <1>1, <1>2, <2>1, <2>2 DEF CycleEnds
    <3>2. Last(counter'.cycles) = NewCycle(slot)
          /\ counter'.nCyclesToStore = counter.nCyclesToStore
      BY <1>1, <1>2, <3>1, CycleStarted
    <3>3. \A i \in PlainColumns : reported[i] + 0 <= Cardinality(accepted)
      BY <1>1, <2>1, <2>2 DEF NoneTwice, Kept
    <3> QED
      BY <3>1, <3>2, <3>3 DEF NewCycle
  <2>3. CASE col # 1
    <3>1. Last(counter.cycles).start = slot /\ counter.nCyclesToStore > 0
      BY <1>1, <1>2, <2>1, <2>3 DEF CycleEnds, ColumnIndex
    <3>2. counter' = counter
      BY <1>1, <1>2, <3>1 DEF StartNewCycle
    <3> QED
      BY <1>1, <2>1, <2>3, <3>1, <3>2 DEF NoneTwice, Kept
  <2> QED
    BY <2>2, <2>3
<1>5. col' = col + 1 => col' > 1
  BY <1>2 DEF ColumnIndex
<1>6. registrations' = 0 => CycleEnds'
  BY <1>1, <1>2, <1>4, <1>5 DEF CycleEnds
<1>7. phase' = phase => Kept' = Last(counter'.cycles).counts
  BY <1>1, <1>2, <1>5 DEF Kept, ColumnIndex
<1>8. phase' = "pause" => Kept' = Last(counter'.cycles).counts
  BY DEF Kept
<1>9. registrations' = 0 => NoneTwice'
  BY <1>1, <1>4, <1>7, <1>8 DEF Over, NoneTwice
<1> QED
  BY <1>3, <1>6, <1>9 DEF Over

LEMMA OverStep ==
    ASSUME IInv, Over, \A i \in ColumnIndex : NCycles(i) > 0, [Next]_vars
    PROVE  Over'
<1>0. /\ counter \in CounterState /\ col \in ColumnIndex
      /\ \A i \in ColumnIndex : NCycles(i) \in Nat /\ NCycles(i) > 0
  BY Constants DEF IInv, Typed
<1>1. CASE AddColumn
  <2>1. counter'.cycles = counter.cycles /\ counter'.nCyclesToStore \in Nat
        /\ (counter.nCyclesToStore > 0 => counter'.nCyclesToStore > 0)
    BY <1>0, <1>1 DEF AddColumn, AccumulateCyclesToStore, CounterState
  <2>2. /\ phase = "config" /\ phase' \in {"config", "pause"}
        /\ UNCHANGED <<registrations, registering, line, next_logentry, slot, reported, accepted>>
    BY <1>1 DEF AddColumn, registerVars
  <2> QED
    BY <2>1, <2>2 DEF Over, NotRegistered, CycleEnds, NoneTwice, Kept
<1>2. CASE Trigger \/ NotDue \/ MeasureCallback \/ StartRead \/ ReadFail \/ NoEntry
  BY <1>2 DEF Trigger, NotDue, MeasureCallback, StartRead, ReadFail, NoEntry, sensorVars,
     writeVars, registerVars, Over, NotRegistered, CycleEnds, NoneTwice, Kept
<1>3. CASE ReadOk \/ CallbackEvent
  BY <1>3, OverRecord DEF ReadOk, CallbackEvent, registerVars, writeVars
<1>4. CASE RegisterPoll
  BY <1>4 DEF RegisterPoll, Over, NotRegistered
<1>5. CASE ResetCounters
  BY <1>5 DEF ResetCounters, Over, NotRegistered
<1>6. CASE StartEntry
  <2>1. /\ phase = "write" /\ phase' = "evaluate" /\ line' = <<>>
        /\ UNCHANGED <<registrations, registering, next_logentry, reported, accepted, counter>>
    BY <1>6 DEF StartEntry, sensorVars, registerVars
  <2>2. \A i \in PlainColumns : ~(i <= Len(line'))
    BY <2>1 DEF PlainColumns, CountColumns, ColumnIndex
  <2> QED
    BY <2>1, <2>2 DEF Over, NotRegistered, CycleEnds, NoneTwice, Kept
<1>7. CASE Evaluate \/ WriteFile \/ StartCycle
  BY <1>7, OverEvaluate, OverWriteFile, OverStartCycle
<1>8. CASE Tick \/ UNCHANGED vars
  BY <1>8 DEF Tick, vars, sensorVars, registerVars, writeVars, Over, NotRegistered, CycleEnds,
     NoneTwice, Kept
<1> QED
  BY <1>1, <1>2, <1>3, <1>4, <1>5, <1>6, <1>7, <1>8 DEF Next

(***************************************************************************)
(* No column with an evaluation period shorter than the cycle: no event is *)
(* reported twice, whichever thread it comes from and whenever, as long as *)
(* no callback is registered anew (counter::startNewCycle compares the     *)
(* entry's slot with the start of the current cycle).                      *)
(***************************************************************************)
THEOREM EventsAreNeverReportedTwice ==
    ASSUME \A i \in ColumnIndex : NCycles(i) > 0
    PROVE  Spec => []NeverOvercounted
<1>1. Init => Over
  <2> SUFFICES ASSUME Init PROVE Over
    OBVIOUS
  <2>1. Last(counter.cycles) = NewCycle(StartTime) /\ counter.nCyclesToStore = 1
    BY DEF Init, NewCounter, Last
  <2>2. StartTime \in Nat /\ StartTime < NextLogentry(StartTime)
    BY Constants, NextIsLater
  <2>3. CycleEnds
    BY <2>1, <2>2 DEF Init, CycleEnds, NewCycle
  <2>4. Cardinality(accepted) = 0
    BY FS_EmptySet DEF Init
  <2>5. \A i \in PlainColumns : reported[i] = 0
    BY DEF Init, PlainColumns, CountColumns
  <2>6. NoneTwice
    BY <2>1, <2>4, <2>5 DEF Init, NoneTwice, Kept, NewCycle
  <2> QED
    BY <2>3, <2>6 DEF Init, Over, NotRegistered
<1>2. IInv /\ Over /\ [Next]_vars => Over'
  BY OverStep
<1>3. Over => NeverOvercounted
  BY DEF Over, NeverOvercounted, NoneTwice, Kept, PlainColumns
<1> QED
  BY <1>1, <1>2, <1>3, Invariance, PTL DEF Spec

-----------------------------------------------------------------------------
(***************************************************************************)
(* Moving counts, for a polled sensor and columns of at least a cycle: the *)
(* cycle before the current one stays in the counter and is what the last  *)
(* entry counted.                                                          *)
(***************************************************************************)
DoubleColumns == {j \in CountColumns : NCycles(j) = 2}

\* What the last entry says of column i.
LastCount(i) == IF entries = <<>> THEN 0 ELSE entries[Len(entries)].values[i].count

(* The counter stores as many cycles as any column added so far asks for.  *)
Stores ==
    \A j \in ColumnIndex : phase # "config" \/ j < col => NCycles(j) <= counter.nCyclesToStore

PreviousKept ==
    \A i \in PlainColumns :
        LastCount(i) = IF phase = "newCycle" /\ col = 1 THEN Last(counter.cycles).counts
                                                        ELSE CountBefore(counter)

DoubleLine ==
    phase \in {"evaluate", "file"} =>
        \A j \in DoubleColumns : j <= Len(line) =>
            line[j].count = Last(counter.cycles).counts + CountBefore(counter)

Moving ==
    /\ Stores
    /\ DoubleColumns # {} => PreviousKept /\ DoubleLine
    /\ MovingCountIsSum

LEMMA MovingColumns ==
    /\ \A i \in PlainColumns : i \in ColumnIndex /\ i \in CountColumns /\ NCycles(i) = 1
    /\ \A j \in DoubleColumns : j \in ColumnIndex /\ j \in CountColumns /\ NCycles(j) = 2
    /\ \A i \in ColumnIndex : i \in Nat /\ NCycles(i) \in Nat
BY Constants DEF PlainColumns, DoubleColumns, CountColumns, ColumnIndex

LEMMA MovingAddColumn == ASSUME IInv, AllPlain, Moving, AddColumn PROVE Moving'
<1>1. /\ counter \in CounterState /\ col \in ColumnIndex /\ col \in Nat
      /\ \A j \in ColumnIndex : j \in Nat /\ NCycles(j) \in Nat
      /\ counter.nCyclesToStore \in Nat /\ counter.nCyclesToStore > 0 /\ NCycles(col) > 0
  BY MovingColumns DEF IInv, Typed, CounterState, Counting, CycleOK, AllPlain
<1>2. /\ phase = "config" /\ phase' \in {"config", "pause"}
      /\ entries' = entries /\ line' = line
      /\ phase' = "config" => col' = col + 1
      /\ phase' = "pause" => col = Len(Columns)
  BY DEF AddColumn
<1>3. /\ counter'.cycles = counter.cycles
      /\ counter'.nCyclesToStore = IF NCycles(col) > counter.nCyclesToStore
                                   THEN NCycles(col) ELSE counter.nCyclesToStore
  BY <1>1 DEF AddColumn, AccumulateCyclesToStore, CounterState
<1>4. Stores'
  <2> SUFFICES ASSUME NEW j \in ColumnIndex, phase' # "config" \/ j < col'
               PROVE  NCycles(j) <= counter'.nCyclesToStore
    BY DEF Stores
  <2>1. j < col \/ j = col
    BY <1>1, <1>2 DEF ColumnIndex
  <2>2. j < col => NCycles(j) <= counter.nCyclesToStore
    BY DEF Moving, Stores
  <2>3. NCycles(col) <= counter'.nCyclesToStore
        /\ counter.nCyclesToStore <= counter'.nCyclesToStore /\ counter'.nCyclesToStore \in Nat
    BY <1>1, <1>3
  <2>4. CASE j = col
    BY <2>3, <2>4
  <2>5. CASE j < col
    <3>1. NCycles(j) \in Nat
      BY <1>1
    <3> QED
      BY <1>1, <2>2, <2>3, <2>5, <3>1
  <2> QED
    BY <2>1, <2>4, <2>5
<1>5. DoubleColumns # {} => PreviousKept' /\ DoubleLine'
  BY <1>2, <1>3 DEF Moving, PreviousKept, DoubleLine, LastCount, CountBefore
<1> QED
  BY <1>2, <1>4, <1>5 DEF Moving, MovingCountIsSum

(* Steps that change neither cycles nor entries and evaluate nothing.      *)
LEMMA MovingQuiet ==
    ASSUME Moving, UNCHANGED <<counter, entries>>,
           \/ UNCHANGED <<phase, col, line>>
           \/ /\ phase \in {"pause", "measure", "reading", "write"}
              /\ phase' \in {"pause", "measure", "reading", "write"}
              /\ UNCHANGED line
           \/ phase = "write" /\ phase' = "evaluate" /\ line' = << >>
    PROVE  Moving'
<1>1. Stores' /\ MovingCountIsSum'
  BY DEF Moving, Stores, MovingCountIsSum
<1>2. DoubleColumns # {} => PreviousKept'
  BY DEF Moving, PreviousKept, LastCount, CountBefore
<1>3. \A j \in DoubleColumns : ~(j <= 0)
  BY MovingColumns DEF ColumnIndex
<1>4. DoubleColumns # {} => DoubleLine'
  BY <1>3 DEF Moving, DoubleLine
<1> QED
  BY <1>1, <1>2, <1>4 DEF Moving

LEMMA MovingReadOk == ASSUME IInv, Moving, ReadOk PROVE Moving'
<1>1. /\ counter \in CounterState /\ Timeslot(now, Rest) \in Nat
      /\ phase = "reading" /\ phase' = "write" /\ UNCHANGED <<col, line, entries>>
      /\ counter' = counter \/ counter' = Count(counter, Timeslot(now, Rest))
  BY Constants, SlotBounds DEF IInv, Typed, ReadOk, Record, writeVars
<1>2. CountBefore(counter') = CountBefore(counter)
      /\ counter'.nCyclesToStore = counter.nCyclesToStore
  BY <1>1, CountedNotBefore, CountedOnceMore
<1> QED
  BY <1>1, <1>2 DEF Moving, Stores, PreviousKept, DoubleLine, LastCount, MovingCountIsSum

LEMMA MovingEvaluate == ASSUME IInv, Moving, Evaluate PROVE Moving'
<1> DEFINE v == ColumnValue(col)
<1>1. /\ phase = "evaluate" /\ col \in ColumnIndex /\ line \in Seq(Value)
      /\ counter \in CounterState /\ Len(line) = col - 1 /\ line' = Append(line, v)
      /\ phase' \in {"evaluate", "file"} /\ UNCHANGED <<counter, entries>>
  BY DEF IInv, Typed, LineLength, Evaluate, sensorVars
<1> HIDE DEF v
<1>2. /\ Len(line') = col /\ line'[col] = v
      /\ \A k \in 1..(col - 1) : line'[k] = line[k]
  BY <1>1 DEF ColumnIndex
<1>3. ASSUME NEW j \in DoubleColumns, j <= Len(line')
      PROVE  line'[j].count = Last(counter.cycles).counts + CountBefore(counter)
  <2>1. j \in 1..col
    BY <1>1, <1>2, <1>3, MovingColumns DEF ColumnIndex
  <2>2. CASE j = col
    <3>1. v.count = Counts(counter, 2)
      BY <2>2, MovingColumns DEF v, ColumnValue, CountColumns
    <3> QED
      BY <1>1, <1>2, <2>2, <3>1, CountsOfTwo
  <2>3. CASE j # col
    <3>1. j \in 1..(col - 1) /\ j <= Len(line)
      BY <1>1, <2>1, <2>3 DEF ColumnIndex
    <3>2. line[j].count = Last(counter.cycles).counts + CountBefore(counter)
      BY <1>1, <3>1 DEF Moving, DoubleLine
    <3> QED
      BY <1>2, <3>1, <3>2
  <2> QED
    BY <2>2, <2>3
<1>4. DoubleLine'
  BY <1>1, <1>3 DEF DoubleLine
<1> QED
  BY <1>1, <1>4 DEF Moving, Stores, PreviousKept, LastCount, MovingCountIsSum

LEMMA MovingWriteFile == ASSUME IInv, AllPlain, Moving, WriteFile PROVE Moving'
<1> DEFINE e == [slot |-> slot, at |-> now, values |-> line, known |-> Slots(accepted)]
           n == Len(entries)
<1>1. /\ phase = "file" /\ phase' = "newCycle" /\ entries' = Append(entries, e)
      /\ Len(line) = Len(Columns) /\ col = 1 /\ UNCHANGED <<counter, col, line>>
      /\ entries \in Seq(EntryState) /\ counter \in CounterState
  BY DEF IInv, Typed, LineLength, WriteFile, sensorVars
<1>2. e.values = line
  OBVIOUS
<1> HIDE DEF e
<1>3. /\ n \in Nat /\ Len(entries') = n + 1 /\ entries'[n + 1] = e
      /\ \A k \in 1..n : entries'[k] = entries[k]
  BY <1>1
<1>4. entries' # << >> /\ \A i : LastCount(i)' = line[i].count
  BY <1>2, <1>3 DEF LastCount
<1>5. \A i \in PlainColumns : line[i].count = Last(counter.cycles).counts
  <2>1. \A i \in PlainColumns : i <= Len(line)
    BY <1>1, MovingColumns DEF ColumnIndex
  <2> QED
    BY <1>1, <2>1 DEF IInv, Counting, LineOK
<1>6. \A j \in DoubleColumns :
          line[j].count = Last(counter.cycles).counts + CountBefore(counter)
  <2>1. \A j \in DoubleColumns : j <= Len(line)
    BY <1>1, MovingColumns DEF ColumnIndex
  <2> QED
    BY <1>1, <2>1 DEF Moving, DoubleLine
<1>7. PreviousKept' /\ DoubleLine' /\ Stores'
  BY <1>1, <1>4, <1>5 DEF PreviousKept, DoubleLine, Stores, Moving
<1>8. MovingCountIsSum'
  <2> SUFFICES ASSUME NEW i \in CountColumns, NEW j \in CountColumns,
                      NCycles(i) = 1, NCycles(j) = 2, NEW k \in 1..(n + 1)
               PROVE  entries'[k].values[j].count =
                          entries'[k].values[i].count
                              + (IF k = 1 THEN 0 ELSE entries'[k-1].values[i].count)
    <3>1. DOMAIN entries' = 1..(n + 1)
      BY <1>1, <1>3
    <3> QED
      BY <3>1 DEF MovingCountIsSum
  <2>0. i \in PlainColumns /\ j \in DoubleColumns
    BY DEF PlainColumns, DoubleColumns
  <2>1. CASE k \in 1..n
    <3>1. /\ entries'[k] = entries[k] /\ k \in DOMAIN entries
          /\ k # 1 => entries'[k - 1] = entries[k - 1]
      BY <1>1, <1>3, <2>1
    <3> QED
      BY <3>1 DEF Moving, MovingCountIsSum
  <2>2. CASE k = n + 1
    <3>1. LastCount(i) = IF k = 1 THEN 0 ELSE entries'[k - 1].values[i].count
      <4>1. CASE n = 0
        BY <1>1, <2>2, <4>1 DEF LastCount
      <4>2. CASE n # 0
        <5>1. k # 1 /\ k - 1 = n /\ n \in 1..n /\ entries # << >>
          BY <1>1, <1>3, <2>2, <4>2
        <5> QED
          BY <1>3, <5>1 DEF LastCount
      <4> QED
        BY <4>1, <4>2
    <3>2. LastCount(i) = CountBefore(counter)
      BY <1>1, <2>0 DEF Moving, PreviousKept
    <3>3. entries'[k].values = line
      BY <1>2, <1>3, <2>2
    <3> QED
      BY <1>5, <1>6, <2>0, <3>1, <3>2, <3>3
  <2> QED
    BY <1>3, <2>1, <2>2
<1> QED
  BY <1>7, <1>8 DEF Moving

LEMMA MovingStartCycle == ASSUME IInv, AllPlain, Moving, StartCycle PROVE Moving'
<1>1. /\ phase = "newCycle" /\ counter' = StartNewCycle(counter, slot)
      /\ phase' = "pause" \/ (phase' = "newCycle" /\ col' = col + 1)
      /\ UNCHANGED entries
  BY DEF StartCycle
<1>2. /\ counter \in CounterState /\ slot \in Nat /\ col \in ColumnIndex
      /\ next_logentry <= slot /\ next_logentry \in Nat
      /\ Last(counter.cycles).start \in Nat /\ counter.nCyclesToStore > 0
  BY <1>1, OwnMembers DEF IInv, Typed, Schedule, Writing, Counting, CycleOK
<1>3. counter'.nCyclesToStore = counter.nCyclesToStore
  BY <1>1, <1>2, CycleStarted DEF StartNewCycle
<1>4. Stores' /\ MovingCountIsSum'
  BY <1>1, <1>3 DEF Moving, Stores, MovingCountIsSum
<1>5. DoubleLine'
  BY <1>1 DEF DoubleLine
<1>6. ASSUME DoubleColumns # {} PROVE PreviousKept'
  <2>1. counter.nCyclesToStore > 1
    <3>1. PICK j \in DoubleColumns : TRUE
      BY <1>6
    <3>2. 2 <= counter.nCyclesToStore
      BY <1>1, <3>1, MovingColumns DEF Moving, Stores
    <3> QED
      BY <1>2, <3>2 DEF CounterState
  <2>2. ~(phase' = "newCycle" /\ col' = 1)
    BY <1>1, <1>2 DEF ColumnIndex
  <2>3. CASE col = 1
    <3>1. Last(counter.cycles).start < slot
      <4>1. Last(counter.cycles).start < next_logentry
        BY <1>1, <2>3 DEF IInv, Counting, CycleOK
      <4> QED
        BY <1>2, <4>1
    <3>2. CountBefore(counter') = Last(counter.cycles).counts
      BY <1>1, <1>2, <2>1, <3>1, CycleKept
    <3> QED
      BY <1>1, <1>6, <2>2, <2>3, <3>2 DEF Moving, PreviousKept, LastCount
  <2>4. CASE col # 1
    <3>1. Last(counter.cycles).start = slot
      BY <1>1, <1>2, <2>4 DEF IInv, Counting, CycleOK, NewCycle, ColumnIndex
    <3>2. counter' = counter
      BY <1>1, <1>2, <3>1 DEF StartNewCycle
    <3> QED
      BY <1>1, <1>6, <2>2, <2>4, <3>2 DEF Moving, PreviousKept, LastCount
  <2> QED
    BY <2>3, <2>4
<1> QED
  BY <1>4, <1>5, <1>6 DEF Moving

(***************************************************************************)
(* For any columns of at least a cycle that share the counter of a polled  *)
(* sensor: a count over two cycles is the sum of the counts of its entry   *)
(* and of the entry before (counter::evaluate, counter::startNewCycle).    *)
(***************************************************************************)
THEOREM MovingCountsAreSums ==
    ASSUME Feeder = "main", \A i \in ColumnIndex : NCycles(i) > 0
    PROVE  Spec => []MovingCountIsSum
<1>0. AllPlain
  BY DEF AllPlain
<1>1. Init => Moving
  <2> SUFFICES ASSUME Init PROVE Moving
    OBVIOUS
  <2>1. Len(counter.cycles) = 1 /\ entries = << >> /\ phase = "config" /\ col = 1
    BY DEF Init, NewCounter
  <2>2. Stores
    BY <2>1, MovingColumns DEF Stores, ColumnIndex
  <2> QED
    BY <2>1, <2>2 DEF Moving, PreviousKept, DoubleLine, LastCount, CountBefore, MovingCountIsSum
<1>2. IInv /\ Moving /\ [Next]_vars => Moving'
  <2> SUFFICES ASSUME IInv, Moving, [Next]_vars PROVE Moving'
    OBVIOUS
  <2>1. CASE AddColumn
    BY <1>0, <2>1, MovingAddColumn
  <2>2. CASE Trigger \/ NotDue \/ StartRead \/ ReadFail \/ NoEntry \/ StartEntry
    BY <2>2, MovingQuiet
       DEF Trigger, NotDue, StartRead, ReadFail, NoEntry, StartEntry, sensorVars, writeVars
  <2>3. CASE ReadOk
    BY <2>3, MovingReadOk
  <2>4. CASE MeasureCallback \/ CallbackEvent \/ RegisterPoll \/ ResetCounters
    BY <2>4 DEF MeasureCallback, CallbackEvent, RegisterPoll, ResetCounters
  <2>5. CASE Evaluate \/ WriteFile \/ StartCycle
    BY <1>0, <2>5, MovingEvaluate, MovingWriteFile, MovingStartCycle
  <2>6. CASE Tick \/ UNCHANGED vars
    BY <2>6, MovingQuiet DEF Tick, vars, sensorVars, writeVars
  <2> QED
    BY <2>1, <2>2, <2>3, <2>4, <2>5, <2>6 DEF Next
<1>3. Moving => MovingCountIsSum
  BY DEF Moving
<1> QED
  BY <1>1, <1>2, <1>3, Invariance, PTL DEF Spec

-----------------------------------------------------------------------------
(***************************************************************************)
(* The shortest distance of two events of the current cycle.               *)
(***************************************************************************)
\* The newest n of the timestamps S.
Recent(S, n) == {s \in S : Cardinality({u \in S : u >= s}) <= n}

GapsOf(C) == {g \in {u - s : u, s \in C} :
                 \E s, u \in C : /\ s < u
                                 /\ g = u - s
                                 /\ ~\E v \in C : s < v /\ v < u}

LEMMA NoneRecent ==
    ASSUME NEW S \in SUBSET Nat, IsFiniteSet(S)
    PROVE  Recent(S, 0) = {}
<1> SUFFICES ASSUME NEW s \in S PROVE ~(Cardinality({u \in S : u >= s}) <= 0)
  BY DEF Recent
<1> DEFINE up == {u \in S : u >= s}
<1>1. s \in up /\ up \subseteq S
  OBVIOUS
<1> HIDE DEF up
<1>2. IsFiniteSet(up) /\ Cardinality(up) \in Nat
  BY <1>1, FS_Subset, FS_CardinalityType
<1>3. Cardinality(up) # 0
  BY <1>1, <1>2, FS_EmptySet
<1> QED
  BY <1>2, <1>3 DEF up

LEMMA OneMoreRecent ==
    ASSUME NEW S \in SUBSET Nat, IsFiniteSet(S), NEW t \in Nat, \A s \in S : s < t,
           NEW n \in Nat
    PROVE  Recent(S \cup {t}, n + 1) = Recent(S, n) \cup {t}
<1> DEFINE T == S \cup {t}
<1>1. \A s \in S : /\ {u \in T : u >= s} = {u \in S : u >= s} \cup {t}
                   /\ t \notin {u \in S : u >= s}
                   /\ {u \in S : u >= s} \subseteq S
  OBVIOUS
<1>2. ASSUME NEW s \in S
      PROVE  Cardinality({u \in T : u >= s}) <= n + 1 <=> Cardinality({u \in S : u >= s}) <= n
  <2> DEFINE up == {u \in S : u >= s}
  <2>1. IsFiniteSet(up) /\ Cardinality(up) \in Nat
    BY <1>1, FS_Subset, FS_CardinalityType
  <2>2. Cardinality(up \cup {t}) = Cardinality(up) + 1
    BY <1>1, <2>1, FS_AddElement
  <2>3. {u \in T : u >= s} = up \cup {t}
    BY <1>1
  <2> HIDE DEF up
  <2> QED
    BY <2>1, <2>2, <2>3 DEF up
<1>3. Cardinality({u \in T : u >= t}) <= n + 1
  <2>1. {u \in T : u >= t} = {t}
    <3>1. \A u \in S : ~(u >= t)
      OBVIOUS
    <3>2. t >= t
      OBVIOUS
    <3>3. \A u : u \in T /\ u >= t <=> u = t
      BY <3>1, <3>2
    <3> QED
      BY <3>3
  <2>2. Cardinality({t}) = 1
    BY FS_Singleton
  <2> QED
    BY <2>1, <2>2
<1> HIDE DEF T
<1>4. \A s : s \in Recent(T, n + 1) <=> s \in T /\ Cardinality({u \in T : u >= s}) <= n + 1
  BY DEF Recent
<1>5. \A s : s \in Recent(S, n) <=> s \in S /\ Cardinality({u \in S : u >= s}) <= n
  BY DEF Recent
<1>6. \A s : s \in T <=> s \in S \/ s = t
  BY DEF T
<1>7. Recent(T, n + 1) = Recent(S, n) \cup {t}
  BY <1>2, <1>3, <1>4, <1>5, <1>6
<1> QED
  BY <1>7 DEF T

LEMMA NoGaps ==
    ASSUME NEW t \in Nat
    PROVE  GapsOf({}) = {} /\ GapsOf({t}) = {}
BY DEF GapsOf

LEMMA OneMoreGap ==
    ASSUME NEW C \in SUBSET Nat, NEW t \in Nat, \A s \in C : s < t,
           NEW l \in C, \A s \in C : s <= l
    PROVE  GapsOf(C \cup {t}) = GapsOf(C) \cup {t - l}
<1> DEFINE D == C \cup {t}
           Gap(B, g) == \E s, u \in B : /\ s < u
                                        /\ g = u - s
                                        /\ ~\E v \in B : s < v /\ v < u
<1>1. \A B, g : g \in GapsOf(B) <=> Gap(B, g)
  BY DEF GapsOf
<1>2. ASSUME NEW g, Gap(D, g) PROVE Gap(C, g) \/ g = t - l
  <2>1. PICK s \in D, u \in D : s < u /\ g = u - s /\ ~\E v \in D : s < v /\ v < u
    BY <1>2
  <2>2. CASE u = t
    <3>1. s \in C /\ s <= l /\ ~(s < l)
      BY <2>1, <2>2
    <3>2. s = l
      BY <3>1
    <3> QED
      BY <2>1, <2>2, <3>2
  <2>3. CASE u # t
    <3>1. u \in C /\ s \in C
      BY <2>1, <2>3
    <3> QED
      BY <2>1, <3>1
  <2> QED
    BY <2>2, <2>3
<1>3. ASSUME NEW g, Gap(C, g) PROVE Gap(D, g)
  <2>1. PICK s \in C, u \in C : s < u /\ g = u - s /\ ~\E v \in C : s < v /\ v < u
    BY <1>3
  <2>2. ~\E v \in D : s < v /\ v < u
    BY <2>1
  <2> QED
    BY <2>1, <2>2
<1>4. Gap(D, t - l)
  <2>1. l \in D /\ t \in D /\ l < t /\ ~\E v \in D : l < v /\ v < t
    OBVIOUS
  <2> QED
    BY <2>1
<1> HIDE DEF Gap, D
<1>5. GapsOf(D) = GapsOf(C) \cup {t - l}
  BY <1>1, <1>2, <1>3, <1>4
<1> QED
  BY <1>5 DEF D

LEMMA CountedInLast ==
    ASSUME NEW c \in CounterState, NEW t \in Nat
    PROVE  LET old == Last(c.cycles)
               new == Last(Count(c, t).cycles)
               d == TimeDiff(t, old.lastCount)
           IN  /\ new.counts = old.counts + 1
               /\ new.lastCount = t
               /\ new.minDist = IF old.minDist = 0 \/ d < old.minDist THEN d ELSE old.minDist
               /\ old \in CycleState
<1> DEFINE n == Len(c.cycles)
           cycles == [c.cycles EXCEPT ![n] = CountInCycle(@, t)]
           old == c.cycles[n]
           d == TimeDiff(t, old.lastCount)
           hi == IF old.maxDist = 0 \/ d > old.maxDist THEN d ELSE old.maxDist
           lo == IF old.minDist = 0 \/ d < old.minDist THEN d ELSE old.minDist
<1>1. c.cycles \in Seq(CycleState) /\ n \in Nat \ {0} /\ old \in CycleState
  BY DEF CounterState
<1>2. Count(c, t) = [c EXCEPT !.cycles = cycles]
  BY DEF Count
<1>3. Len(cycles) = n /\ cycles[n] = CountInCycle(old, t)
  BY <1>1
<1> HIDE DEF cycles
<1>4. Count(c, t).cycles = cycles
  BY <1>2 DEF CounterState
<1>5. Last(Count(c, t).cycles) = CountInCycle(old, t) /\ Last(c.cycles) = old
  BY <1>3, <1>4 DEF Last
<1>6. CountInCycle(old, t)
          = [old EXCEPT !.counts = @ + 1, !.lastCount = t, !.maxDist = hi, !.minDist = lo]
  BY DEF CountInCycle
<1> HIDE DEF hi, lo, old
<1>7. /\ CountInCycle(old, t).counts = old.counts + 1
      /\ CountInCycle(old, t).lastCount = t
      /\ CountInCycle(old, t).minDist = lo
  BY <1>1, <1>6 DEF CycleState
<1> QED
  BY <1>1, <1>5, <1>7 DEF lo

(* What the current cycle knows of its events, given all recorded slots.   *)
FirstOnly(cycle, S) ==
    /\ Recent(S, cycle.counts) = {cycle.lastCount}
    /\ cycle.minDist = cycle.lastCount

LeastGap(cycle, S) ==
    /\ GapsOf(Recent(S, cycle.counts)) # {}
    /\ cycle.minDist \in GapsOf(Recent(S, cycle.counts))
    /\ \A g \in GapsOf(Recent(S, cycle.counts)) : cycle.minDist <= g

CycleKnows(cycle, S) ==
    IF cycle.counts = 0
    THEN cycle.lastCount = 0 /\ cycle.minDist = 0
    ELSE /\ cycle.lastCount \in Recent(S, cycle.counts)
         /\ \A s \in S : s <= cycle.lastCount
         /\ FirstOnly(cycle, S) \/ LeastGap(cycle, S)

LEMMA GapNumbers ==
    ASSUME NEW C \in SUBSET Nat
    PROVE  GapsOf(C) \in SUBSET (Nat \ {0})
<1> SUFFICES ASSUME NEW g \in GapsOf(C) PROVE g \in Nat \ {0}
  OBVIOUS
<1>1. PICK s \in C, u \in C : s < u /\ g = u - s
  BY DEF GapsOf
<1>2. s \in Nat /\ u \in Nat
  OBVIOUS
<1> QED
  BY <1>1, <1>2

(* The least distance is less than the first event's time since 1970 only  *)
(* while the clock shows less than twice that.                             *)
LEMMA CycleKnowsMore ==
    ASSUME NEW c \in CounterState, NEW S \in SUBSET Nat, IsFiniteSet(S),
           NEW t \in Nat, t > 0, \A s \in S : s < t /\ t - s <= s,
           CycleKnows(Last(c.cycles), S)
    PROVE  CycleKnows(Last(Count(c, t).cycles), S \cup {t})
<1> DEFINE old == Last(c.cycles)
           new == Last(Count(c, t).cycles)
           d   == TimeDiff(t, old.lastCount)
           E   == Recent(S, old.counts)
<1>1. /\ new.counts = old.counts + 1 /\ new.lastCount = t
      /\ new.minDist = IF old.minDist = 0 \/ d < old.minDist THEN d ELSE old.minDist
      /\ old \in CycleState
  BY CountedInLast
<1>2. old.counts \in Nat /\ old.lastCount \in Nat /\ old.minDist \in Nat
  BY <1>1 DEF CycleState
<1>3. CycleKnows(old, S)
  OBVIOUS
<1> HIDE DEF old, new
<1>4. Recent(S \cup {t}, new.counts) = E \cup {t}
  BY <1>1, <1>2, OneMoreRecent
<1>5. E \in SUBSET Nat /\ \A s \in E : s \in S /\ s < t /\ t - s <= s
  BY DEF Recent
<1>6. new.lastCount \in Recent(S \cup {t}, new.counts) /\ \A s \in S \cup {t} : s <= new.lastCount
  BY <1>1, <1>4
<1>7. new.counts # 0
  BY <1>1, <1>2
<1>8. CASE old.counts = 0
  <2>1. E = {}
    BY <1>8, NoneRecent
  <2>2. new.minDist = t
    BY <1>1, <1>3, <1>8 DEF CycleKnows, TimeDiff
  <2>3. Recent(S \cup {t}, new.counts) = {t}
    BY <1>4, <2>1
  <2>4. FirstOnly(new, S \cup {t})
    BY <1>1, <2>2, <2>3 DEF FirstOnly
  <2>5. CycleKnows(new, S \cup {t})
    BY <1>6, <1>7, <2>4 DEF CycleKnows
  <2> QED
    BY <2>5 DEF new
<1>9. CASE old.counts # 0
  <2> DEFINE l == old.lastCount
  <2>1. l \in E /\ l \in Nat /\ l < t /\ t - l <= l /\ \A s \in E : s <= l
    BY <1>2, <1>3, <1>5, <1>9 DEF CycleKnows
  <2>2. d = t - l /\ d \in Nat
    BY <2>1 DEF TimeDiff
  <2> HIDE DEF E, d, l
  <2>3. GapsOf(E \cup {t}) = GapsOf(E) \cup {d}
    BY <1>5, <2>1, <2>2, OneMoreGap
  <2>4. FirstOnly(old, S) \/ LeastGap(old, S)
    BY <1>3, <1>9 DEF CycleKnows
  <2>5. new.minDist \in GapsOf(E \cup {t}) /\ \A g \in GapsOf(E \cup {t}) : new.minDist <= g
    <3>1. CASE FirstOnly(old, S)
      <4>1. E = {l} /\ old.minDist = l
        BY <3>1 DEF FirstOnly, E, l
      <4>2. GapsOf(E \cup {t}) = {d}
        BY <2>1, <2>3, <4>1, NoGaps
      <4>3. new.minDist = d
        BY <1>1, <2>1, <2>2, <4>1
      <4>4. d <= d
        BY <2>2
      <4> QED
        BY <4>2, <4>3, <4>4
    <3>2. CASE LeastGap(old, S)
      <4>1. old.minDist \in GapsOf(E) /\ \A g \in GapsOf(E) : old.minDist <= g
        BY <3>2 DEF LeastGap, E
      <4>2. GapsOf(E) \in SUBSET (Nat \ {0})
        BY <1>5, GapNumbers
      <4>3. old.minDist # 0
        BY <4>1, <4>2
      <4>4. CASE d < old.minDist
        <5>1. new.minDist = d
          BY <1>1, <4>4
        <5>2. \A g \in GapsOf(E) : d <= g
          BY <1>2, <2>2, <4>1, <4>2, <4>4
        <5>3. d <= d
          BY <2>2
        <5> QED
          BY <2>3, <5>1, <5>2, <5>3
      <4>5. CASE ~(d < old.minDist)
        <5>1. new.minDist = old.minDist
          BY <1>1, <4>3, <4>5
        <5>2. old.minDist <= d
          BY <1>2, <2>2, <4>5
        <5> QED
          BY <2>3, <4>1, <5>1, <5>2
      <4> QED
        BY <4>4, <4>5
    <3> QED
      BY <2>4, <3>1, <3>2
  <2>6. LeastGap(new, S \cup {t})
    BY <1>4, <2>5 DEF LeastGap, E
  <2>7. CycleKnows(new, S \cup {t})
    BY <1>6, <1>7, <2>6 DEF CycleKnows
  <2> QED
    BY <2>7 DEF new
<1> QED
  BY <1>8, <1>9

LEMMA KnowsShortest ==
    ASSUME IInv, IsFiniteSet(Slots(accepted)), Slots(accepted) \in SUBSET Nat,
           CycleKnows(Last(counter.cycles), Slots(accepted))
    PROVE  ShortestGap
<1> DEFINE cycle == Last(counter.cycles)
           S == Slots(accepted)
<1>1. CycleEvents = Recent(S, cycle.counts)
  BY DEF CycleEvents, Recent
<1>2. Gaps = GapsOf(CycleEvents)
  BY DEF Gaps, GapsOf
<1>3. CASE cycle.counts = 0
  <2>1. CycleEvents = {}
    BY <1>1, <1>3, NoneRecent
  <2>2. Gaps = {}
    BY <1>2, <2>1 DEF GapsOf
  <2> QED
    BY <2>2 DEF ShortestGap
<1>4. CASE cycle.counts # 0
  <2>1. FirstOnly(cycle, S) \/ LeastGap(cycle, S)
    BY <1>4 DEF CycleKnows
  <2>2. CASE FirstOnly(cycle, S)
    <3>1. CycleEvents = {cycle.lastCount} /\ cycle.lastCount \in Nat
      BY <1>1, <2>2 DEF FirstOnly, Recent
    <3>2. Gaps = {}
      BY <1>2, <3>1, NoGaps
    <3> QED
      BY <3>2 DEF ShortestGap
  <2>3. CASE LeastGap(cycle, S)
    BY <1>1, <1>2, <2>3 DEF LeastGap, ShortestGap
  <2> QED
    BY <2>1, <2>2, <2>3
<1> QED
  BY <1>3, <1>4

Arrivals ==
    /\ now = StartTime \/ now <= MaxTime
    /\ \A a \in accepted : StartTime <= a
    /\ IsFiniteSet(Slots(accepted))

Known ==
    /\ Arrivals
    /\ Feeder = "main" => ~registering
    /\ phase = "reading" => Feeder = "main"
    /\ ~registering => CycleKnows(Last(counter.cycles), Slots(accepted))

FewYears == MaxTime <= 2 * (StartTime - Rest + 1)

(* A measurement that passes the gate is in a slot after all others.       *)
LEMMA NewSlot ==
    ASSUME IInv, Arrivals, FewYears, Rested(sensor, SensorCfg, now)
    PROVE  LET t == Timeslot(now, Rest)
           IN  /\ t \in Nat /\ t > 0
               /\ Slots(accepted) \in SUBSET Nat
               /\ Slots(accepted \cup {now}) = Slots(accepted) \cup {t}
               /\ \A s \in Slots(accepted) : s < t /\ t - s <= s
<1> DEFINE t == Timeslot(now, Rest)
<1>1. /\ now \in Nat /\ Rest \in Nat \ {0} /\ accepted \in SUBSET Nat
      /\ sensor.lastMeasurement \in Nat /\ sensor.lastMeasurement <= now
      /\ StartTime \in Nat /\ MaxTime \in Nat /\ StartTime <= now /\ Rest < StartTime
  BY Constants DEF IInv, Typed, Gate, SensorState
<1>2. sensor.lastMeasurement + Rest <= now
  BY <1>1 DEF Rested, TimeDiff, SensorCfg
<1>3. t \in Nat /\ t <= now /\ now < t + Rest
  BY <1>1, SlotBounds
<1>4. t > 0
  BY <1>1, <1>3
<1>5. ASSUME NEW a \in accepted
      PROVE  /\ Timeslot(a, Rest) \in Nat
             /\ Timeslot(a, Rest) < t
             /\ t - Timeslot(a, Rest) <= Timeslot(a, Rest)
  <2> DEFINE s == Timeslot(a, Rest)
  <2>1. s \in Nat /\ s <= a /\ a < s + Rest /\ a \in Nat
    BY <1>1, SlotBounds
  <2>2. s <= sensor.lastMeasurement
    BY DEF IInv, Gate
  <2>3. StartTime <= a
    BY DEF Arrivals
  <2> HIDE DEF s, t
  <2>4. s < t /\ a < now
    BY <1>1, <1>2, <1>3, <2>1, <2>2
  <2>5. now <= MaxTime
    BY <1>1, <2>1, <2>3, <2>4 DEF Arrivals
  <2>6. MaxTime <= 2 * (StartTime - Rest + 1) /\ StartTime - Rest + 1 <= s
    BY <1>1, <2>1, <2>3 DEF FewYears
  <2>7. t - s <= s
    BY <1>1, <1>3, <2>1, <2>5, <2>6
  <2> QED
    BY <2>1, <2>4, <2>7 DEF s
<1> HIDE DEF t
<1>6. Slots(accepted) \in SUBSET Nat /\ \A s \in Slots(accepted) : s < t /\ t - s <= s
  BY <1>5 DEF Slots
<1>7. Slots(accepted \cup {now}) = Slots(accepted) \cup {t}
  BY DEF Slots, t
<1> QED
  BY <1>3, <1>4, <1>6, <1>7 DEF t

LEMMA SlotsAreNumbers ==
    ASSUME IInv
    PROVE  Slots(accepted) \in SUBSET Nat
BY Constants, SlotBounds DEF IInv, Typed, Slots

LEMMA KnownRecord ==
    ASSUME IInv, Known, FewYears, Record, ~registering, UNCHANGED <<now, registering>>,
           phase' = phase \/ phase' = "write"
    PROVE  Known'
<1>1. CASE ~Rested(sensor, SensorCfg, now)
  BY <1>1 DEF Record, Known, Arrivals
<1>2. CASE Rested(sensor, SensorCfg, now)
  <2> DEFINE t == Timeslot(now, Rest)
             S == Slots(accepted)
  <2>1. counter' = Count(counter, t) /\ accepted' = accepted \cup {now}
    BY <1>2 DEF Record
  <2>2. /\ t \in Nat /\ t > 0 /\ S \in SUBSET Nat
        /\ Slots(accepted \cup {now}) = S \cup {t}
        /\ \A s \in S : s < t /\ t - s <= s
    BY <1>2, NewSlot DEF Known
  <2>3. IsFiniteSet(S) /\ CycleKnows(Last(counter.cycles), S) /\ counter \in CounterState
    BY DEF IInv, Typed, Known, Arrivals
  <2> HIDE DEF t, S
  <2>4. CycleKnows(Last(Count(counter, t).cycles), S \cup {t})
    BY <2>2, <2>3, CycleKnowsMore
  <2>5. IsFiniteSet(S \cup {t})
    BY <2>2, <2>3, FS_AddElement
  <2>6. StartTime <= now
    BY DEF IInv, Gate
  <2>7. Slots(accepted') = S \cup {t}
    BY <2>1, <2>2
  <2>8. Arrivals'
    BY <2>1, <2>5, <2>6, <2>7 DEF Known, Arrivals
  <2> QED
    BY <2>1, <2>4, <2>7, <2>8 DEF Known
<1> QED
  BY <1>1, <1>2

LEMMA KnownFresh ==
    ASSUME NEW t, NEW S
    PROVE  CycleKnows(NewCycle(t), S)
BY DEF CycleKnows, NewCycle

LEMMA KnownStartCycle ==
    ASSUME IInv, Known, StartCycle
    PROVE  Known'
<1>1. /\ counter' = StartNewCycle(counter, slot) /\ UNCHANGED <<now, accepted, registering>>
      /\ phase = "newCycle" /\ phase' \in {"newCycle", "pause"}
  BY DEF StartCycle, registerVars
<1>2. counter \in CounterState /\ slot \in Nat
  BY DEF IInv, Typed
<1>3. CASE counter.nCyclesToStore > 0 /\ slot > Last(counter.cycles).start
  <2>1. Last(counter'.cycles) = NewCycle(slot)
    BY <1>1, <1>2, <1>3, CycleStarted
  <2> QED
    BY <1>1, <2>1, KnownFresh DEF Known, Arrivals
<1>4. CASE ~(counter.nCyclesToStore > 0 /\ slot > Last(counter.cycles).start)
  BY <1>1, <1>4 DEF StartNewCycle, Known, Arrivals
<1> QED
  BY <1>3, <1>4

LEMMA KnownStep ==
    ASSUME IInv, Known, FewYears, [Next]_vars
    PROVE  Known'
<1>1. CASE AddColumn
  <2>1. /\ counter'.cycles = counter.cycles /\ UNCHANGED <<now, accepted, registering>>
        /\ phase' # "reading"
    BY <1>1, Constants DEF AddColumn, AccumulateCyclesToStore, registerVars, IInv, Typed, CounterState
  <2> QED
    BY <2>1 DEF Known, Arrivals
<1>2. CASE Trigger \/ NotDue \/ MeasureCallback \/ StartRead \/ ReadFail \/ NoEntry
           \/ StartEntry \/ Evaluate \/ WriteFile \/ UNCHANGED vars
  BY <1>2 DEF Trigger, NotDue, MeasureCallback, StartRead, ReadFail, NoEntry, StartEntry,
     Evaluate, WriteFile, sensorVars, writeVars, registerVars, vars, Known, Arrivals
<1>3. CASE ReadOk
  <2>1. ~registering
    BY <1>3 DEF ReadOk, Known
  <2> QED
    BY <1>3, <2>1, KnownRecord DEF ReadOk, registerVars
<1>4. CASE CallbackEvent
  BY <1>4, KnownRecord DEF CallbackEvent, registerVars
<1>5. CASE RegisterPoll
  BY <1>5 DEF RegisterPoll, Known, Arrivals
<1>6. CASE ResetCounters
  <2>1. /\ Last(counter'.cycles) = NewCycle(now)
        /\ UNCHANGED <<now, accepted, phase>> /\ Feeder # "main"
    BY <1>6, CounterIsReset DEF ResetCounters, IInv, Typed
  <2> QED
    BY <2>1, KnownFresh DEF Known, Arrivals
<1>7. CASE StartCycle
  BY <1>7, KnownStartCycle
<1>8. CASE Tick
  <2>1. now < MaxTime /\ now' = now + 1 /\ now \in Nat /\ MaxTime \in Nat
        /\ UNCHANGED <<accepted, counter, registering, phase>>
    BY <1>8, Constants DEF Tick, sensorVars, registerVars, IInv, Typed
  <2>2. now' <= MaxTime
    BY <2>1
  <2> QED
    BY <2>1, <2>2 DEF Known, Arrivals
<1> QED
  BY <1>1, <1>2, <1>3, <1>4, <1>5, <1>6, <1>7, <1>8 DEF Next

(***************************************************************************)
(* Whatever the columns: unless a callback is being registered, and that   *)
(* is never so for a polled sensor, the least distance the counter keeps   *)
(* is the shortest gap of two successive events of the current cycle       *)
(* (cycleCounter::count, counter::startNewCycle).  The first event of a    *)
(* cycle enters with its distance from 1970, and so the program must not   *)
(* run for longer than that.                                               *)
(***************************************************************************)
THEOREM ShortestGapIsKept ==
    ASSUME MaxTime <= 2 * (StartTime - Rest + 1)
    PROVE  /\ Spec => [](~registering => ShortestGap)
           /\ Feeder = "main" => (Spec => []ShortestGap)
<1>0. FewYears
  BY DEF FewYears
<1>1. Init => Known
  <2> SUFFICES ASSUME Init PROVE Known
    OBVIOUS
  <2>1. Last(counter.cycles) = NewCycle(StartTime)
    BY DEF Init, NewCounter, Last
  <2>2. Slots(accepted) = {}
    BY DEF Init, Slots
  <2> QED
    BY <2>1, <2>2, KnownFresh, FS_EmptySet DEF Init, Known, Arrivals
<1>2. IInv /\ Known /\ [Next]_vars => Known'
  BY <1>0, KnownStep
<1>3. IInv /\ Known => (~registering => ShortestGap) /\ (Feeder = "main" => ShortestGap)
  BY KnowsShortest, SlotsAreNumbers DEF Known, Arrivals
<1>4. Spec => [](~registering => ShortestGap)
  BY <1>1, <1>2, <1>3, Invariance, PTL DEF Spec
<1>5. Feeder = "main" => (Spec => []ShortestGap)
  <2> SUFFICES ASSUME Feeder = "main" PROVE Spec => []ShortestGap
    OBVIOUS
  <2>1. IInv /\ Known => ShortestGap
    BY <1>3
  <2> QED
    BY <1>1, <1>2, <2>1, Invariance, PTL DEF Spec
<1> QED
  BY <1>4, <1>5

-----------------------------------------------------------------------------
(***************************************************************************)
(* The measurements an entry evaluates, for a polled sensor.  Rest periods *)
(* divide the cycle and the columns' periods, and the store holds a period *)
(* of measurements: then a slot that clean() or addValue() has removed is  *)
(* out of every window.                                                    *)
(***************************************************************************)
Fits ==
    /\ Feeder = "main"
    /\ CycleTime % Rest = 0
    /\ \A i \in MeanColumns : Period(i) % Rest = 0 /\ Period(i) <= Rest * MaxMeasurements

LEMMA Multiple ==
    ASSUME NEW n \in Nat, NEW R \in Nat \ {0}, n % R = 0
    PROVE  \E k \in Nat : n = R * k
<1>1. n = Timeslot(n, R)
  BY DEF Timeslot
<1> QED
  BY <1>1, SlotIsMultiple

(* Multiples between a multiple and its n-th successor are n at most.      *)
LEMMA FewMultiples ==
    ASSUME NEW T, NEW R \in Nat \ {0}, NEW q \in Nat, NEW n \in Nat,
           \A u \in T : \E k \in Nat : u = R * k /\ q < k /\ k <= q + n
    PROVE  IsFiniteSet(T) /\ Cardinality(T) <= n
<1> DEFINE f == [u \in T |-> CHOOSE j \in 1..n : u = R * (q + j)]
<1>1. \A u \in T : f[u] \in 1..n /\ u = R * (q + f[u])
  <2> TAKE u \in T
  <2>1. PICK k \in Nat : u = R * k /\ q < k /\ k <= q + n
    OBVIOUS
  <2>2. k - q \in 1..n /\ q + (k - q) = k
    BY <2>1
  <2>3. \E j \in 1..n : u = R * (q + j)
    BY <2>1, <2>2
  <2> QED
    BY <2>3
<1>2. f \in [T -> 1..n]
  BY <1>1
<1> HIDE DEF f
<1>3. \A u, v \in T : f[u] = f[v] => u = v
  BY <1>1
<1>4. f \in Injection(T, 1..n)
  BY <1>2, <1>3 DEF Injection, IsInjective
<1>5. IsFiniteSet(1..n) /\ Cardinality(1..n) = n
  <2>1. 1 \in Int /\ n \in Int /\ (IF 1 > n THEN 0 ELSE n - 1 + 1) = n
    OBVIOUS
  <2> QED
    BY <2>1, FS_Interval
<1> QED
  BY <1>4, <1>5, FS_Injection

(* No multiple of R lies strictly between two neighbouring ones.           *)
LEMMA NoneBetween ==
    ASSUME NEW R \in Nat \ {0}, NEW j \in Nat, NEW k \in Nat, R * k < R * j + R
    PROVE  R * k <= R * j
<1>1. k < j + 1
  <2> SUFFICES ASSUME k >= j + 1 PROVE FALSE
    OBVIOUS
  <2>1. R * k >= R * (j + 1)
    OBVIOUS
  <2>2. R * (j + 1) = R * j + R
    OBVIOUS
  <2> QED
    BY <2>1, <2>2
<1> QED
  BY <1>1

(* The recorded slots of the period p that ends with the slot e.           *)
InPeriod(cfg, acc, e, p) ==
    {u \in {SlotOf(a, cfg) : a \in acc} : e - p < u /\ u <= e}

(* What a window of the length p that ends with the slot e holds.          *)
LEMMA WindowHolds ==
    ASSUME NEW cfg \in SensorConfig, NEW s \in SensorState, NEW acc \in SUBSET Nat,
           NEW t \in Nat, SensorOK(s, cfg, acc, t), Retains(s.stored, cfg, acc, t),
           NEW e \in Nat, NEW p \in Nat, e % cfg.rest = 0, p % cfg.rest = 0,
           t < e + cfg.rest, p <= cfg.keep, p <= cfg.rest * MaxMeasurements
    PROVE  InWindow(s.stored, e - p) = InPeriod(cfg, acc, e, p)
<1> DEFINE R == cfg.rest
           M == MaxMeasurements
           S == {SlotOf(a, cfg) : a \in acc}
<1>1. R \in Nat \ {0} /\ cfg.keep \in Nat /\ M \in Nat /\ s.stored \in SUBSET Nat
      /\ s.lastMeasurement \in Nat
  BY MaxMeasurementsAssumption DEF SensorConfig, SensorState
<1>2. PICK ke \in Nat : e = R * ke
  BY <1>1, Multiple
<1>3. PICK kp \in Nat : p = R * kp
  BY <1>1, Multiple
<1>4. \A u \in S : u \in Nat /\ u <= t /\ \E k \in Nat : u = R * k
  <2> SUFFICES ASSUME NEW a \in acc
               PROVE  LET u == SlotOf(a, cfg)
                      IN  u \in Nat /\ u <= t /\ \E k \in Nat : u = R * k
    OBVIOUS
  <2>1. SlotOf(a, cfg) \in Nat /\ \E k \in Nat : SlotOf(a, cfg) = R * k
    BY <1>1, SlotIsMultiple, SlotBounds DEF SlotOf
  <2>2. SlotOf(a, cfg) <= s.lastMeasurement /\ s.lastMeasurement <= t
    BY DEF SensorOK, GateOK
  <2> QED
    BY <1>1, <2>1, <2>2
<1>5. \A u \in S : u <= e
  <2> SUFFICES ASSUME NEW u \in S PROVE u <= e
    OBVIOUS
  <2>1. PICK k \in Nat : u = R * k /\ u <= t
    BY <1>4
  <2>2. R * k < R * ke + R
    BY <1>1, <1>2, <2>1
  <2> QED
    BY <1>1, <1>2, <2>1, <2>2, NoneBetween
<1>6. s.stored \subseteq S
  BY DEF SensorOK, StoreOK
<1>7. ASSUME NEW a \in acc, e - p < SlotOf(a, cfg)
      PROVE  SlotOf(a, cfg) \in s.stored
  <2> DEFINE u == SlotOf(a, cfg)
  <2>1. PICK k \in Nat : u = R * k
    BY <1>4
  <2>2. u \in S /\ u \in Nat /\ u <= e /\ e < u + p
    BY <1>4, <1>5, <1>7
  <2> HIDE DEF u, S
  <2>3. k <= ke /\ ke < k + kp
    <3>1. R * k <= R * ke /\ R * ke < R * k + R * kp
      BY <1>2, <1>3, <2>1, <2>2
    <3>2. R * k + R * kp = R * (k + kp)
      BY <1>1
    <3>3. ~(ke < k)
      <4> SUFFICES ASSUME ke + 1 <= k PROVE FALSE
        OBVIOUS
      <4>1. R * (ke + 1) <= R * k /\ R * (ke + 1) = R * ke + R
        BY <1>1
      <4> QED
        BY <1>1, <3>1, <4>1
    <3>4. ~(k + kp <= ke)
      <4> SUFFICES ASSUME k + kp <= ke PROVE FALSE
        OBVIOUS
      <4>1. R * (k + kp) <= R * ke
        BY <1>1
      <4> QED
        BY <1>1, <3>1, <3>2, <4>1
    <3> QED
      BY <3>3, <3>4
  <2>4. ~(u < t - cfg.keep)
    <3> SUFFICES ASSUME u < t - cfg.keep PROVE FALSE
      OBVIOUS
    <3>1. u + p < e + R
      BY <1>1, <1>2, <2>2
    <3>2. R * (k + kp) < R * ke + R
      BY <1>1, <1>2, <1>3, <2>1, <3>1
    <3>3. R * (k + kp) <= R * ke
      BY <1>1, <3>2, NoneBetween
    <3> QED
      BY <1>1, <1>2, <1>3, <2>1, <2>2, <3>3
  <2>5. ~(Cardinality(s.stored) = M /\ \A v \in s.stored : u < v)
    <3> SUFFICES ASSUME Cardinality(s.stored) = M, \A v \in s.stored : u < v PROVE FALSE
      OBVIOUS
    <3> DEFINE n == ke - k
    <3>1. n \in Nat /\ n < kp /\ k + n = ke
      BY <2>3
    <3>2. ASSUME NEW v \in s.stored
          PROVE  \E j \in Nat : v = R * j /\ k < j /\ j <= k + n
      <4>1. PICK j \in Nat : v = R * j /\ v <= e
        BY <1>4, <1>5, <1>6
      <4>2. R * k < R * j /\ R * j <= R * ke
        BY <1>2, <2>1, <3>1, <4>1
      <4>3. k < j
        <5> SUFFICES ASSUME j <= k PROVE FALSE
          OBVIOUS
        <5>1. R * j <= R * k
          BY <1>1
        <5> QED
          BY <1>1, <4>2, <5>1
      <4>4. j <= ke
        <5> SUFFICES ASSUME ke + 1 <= j PROVE FALSE
          OBVIOUS
        <5>1. R * (ke + 1) <= R * j /\ R * (ke + 1) = R * ke + R
          BY <1>1
        <5> QED
          BY <1>1, <4>2, <5>1
      <4> QED
        BY <3>1, <4>1, <4>3, <4>4
    <3> HIDE DEF n
    <3>3. M <= n
      BY <1>1, <3>1, <3>2, FewMultiples
    <3>4. kp <= M
      <4> SUFFICES ASSUME M + 1 <= kp PROVE FALSE
        BY <1>1
      <4>1. R * (M + 1) <= R * kp /\ R * (M + 1) = R * M + R
        BY <1>1
      <4> QED
        BY <1>1, <1>3, <4>1
    <3> QED
      BY <1>1, <3>1, <3>3, <3>4
  <2> QED
    BY <2>4, <2>5 DEF Retains, Excused, u
<1> HIDE DEF R
<1>8. \A u \in S : e - p < u => u \in s.stored
  BY <1>7
<1> QED
  BY <1>5, <1>6, <1>8 DEF InWindow, InPeriod

(* Every column added so far has the sensor keep its period.               *)
KeptLongEnough ==
    /\ Rest + keep < StartTime
    /\ \A i \in ColumnIndex : phase # "config" \/ i < col => Period(i) <= keep
    /\ phase = "config" => accepted = {} /\ sensor.stored = {}

SensorKnows ==
    /\ current <= now
    /\ SensorOK(sensor, SensorCfg, accepted, now)
    /\ Retains(sensor.stored, SensorCfg, accepted, now)

PeriodBefore(i) == {s \in Slots(accepted) : slot - Period(i) < s /\ s <= slot}

LineWindow ==
    phase \in {"evaluate", "file"} =>
        \A i \in MeanColumns :
            i <= Len(line) /\ now < slot + Rest => line[i].window = PeriodBefore(i)

Windows ==
    /\ KeptLongEnough
    /\ SensorKnows
    /\ LineWindow
    /\ WindowExact

LEMMA SensorCfgType ==
    ASSUME IInv
    PROVE  /\ SensorCfg \in SensorConfig
           /\ SensorCfg.rest = Rest /\ SensorCfg.retry = Retry /\ SensorCfg.keep = keep
           /\ ~SensorCfg.isCounter
           /\ \A a : SlotOf(a, SensorCfg) = Timeslot(a, Rest)
           /\ Slots(accepted) = {SlotOf(a, SensorCfg) : a \in accepted}
           /\ sensor \in SensorState /\ accepted \in SUBSET Nat
           /\ now \in Nat /\ current \in Nat /\ keep \in Nat /\ Rest \in Nat \ {0}
           /\ MeanColumns \subseteq ColumnIndex
           /\ \A i \in ColumnIndex : i \in Nat /\ Period(i) \in Nat
BY Constants DEF IInv, Typed, SensorCfg, SensorConfig, SlotOf, Slots, MeanColumns, ColumnIndex

(* Steps that leave the sensor, the line and the entries alone.            *)
LEMMA WindowsQuiet ==
    ASSUME IInv, Windows, UNCHANGED <<sensor, keep, accepted, entries, now>>, current' <= now,
           phase # "config",
           \/ UNCHANGED <<phase, slot, line>>
           \/ phase' \in {"pause", "measure", "reading", "write", "newCycle"}
           \/ phase' = "evaluate" /\ line' = << >>
    PROVE  Windows'
<1>1. phase' # "config"
  OBVIOUS
<1>2. KeptLongEnough'
  BY <1>1 DEF Windows, KeptLongEnough
<1>3. SensorKnows'
  BY DEF Windows, SensorKnows, SensorCfg
<1>4. LineWindow'
  <2>1. \A i \in MeanColumns : ~(i <= 0)
    BY DEF MeanColumns, ColumnIndex
  <2> QED
    BY <2>1 DEF Windows, LineWindow, PeriodBefore
<1>5. WindowExact'
  BY DEF Windows, WindowExact
<1> QED
  BY <1>2, <1>3, <1>4, <1>5 DEF Windows

LEMMA WindowsSensor ==
    ASSUME IInv, Windows, SensorKnows', UNCHANGED <<keep, entries>>,
           phase # "config", phase' \in {"reading", "write"}
    PROVE  Windows'
<1>1. KeptLongEnough' /\ LineWindow' /\ WindowExact'
  BY DEF Windows, KeptLongEnough, LineWindow, WindowExact
<1> QED
  BY <1>1 DEF Windows

LEMMA WindowsAddColumn ==
    ASSUME IInv, Windows, AddColumn
    PROVE  Windows'
<1>1. /\ phase = "config" /\ phase' \in {"config", "pause"}
      /\ keep' = IF keep < Period(col) THEN Period(col) ELSE keep
      /\ phase' = "config" => col' = col + 1
      /\ phase' = "pause" => col = Len(Columns)
      /\ UNCHANGED <<now, current, sensor, accepted, entries>>
  BY DEF AddColumn
<1>2. /\ col \in ColumnIndex /\ keep \in Nat /\ Rest \in Nat \ {0} /\ StartTime \in Nat
      /\ \A i \in ColumnIndex : i \in Nat /\ Period(i) \in Nat
      /\ StartTime > Rest + Period(col)
  BY Constants, StartAssumption DEF IInv, Typed, ColumnIndex
<1>3. keep' \in Nat /\ keep <= keep' /\ Period(col) <= keep' /\ Rest + keep' < StartTime
  BY <1>1, <1>2 DEF Windows, KeptLongEnough
<1>4. accepted = {} /\ sensor.stored = {}
  BY <1>1 DEF Windows, KeptLongEnough
<1>5. KeptLongEnough'
  <2>1. ASSUME NEW i \in ColumnIndex, phase' # "config" \/ i < col' PROVE Period(i) <= keep'
    <3>1. i < col \/ i = col
      BY <1>1, <1>2, <2>1 DEF ColumnIndex
    <3>2. CASE i = col
      BY <1>3, <3>2
    <3>3. CASE i < col
      <4>1. Period(i) <= keep /\ Period(i) \in Nat
        BY <1>2, <3>3 DEF Windows, KeptLongEnough
      <4> QED
        BY <1>2, <1>3, <4>1
    <3> QED
      BY <3>1, <3>2, <3>3
  <2> QED
    BY <1>1, <1>3, <1>4, <2>1 DEF KeptLongEnough
<1>6. SensorKnows'
  BY <1>1, <1>4 DEF Windows, SensorKnows, SensorOK, GateOK, StoreOK, NewestOK, Retains
<1>7. LineWindow' /\ WindowExact'
  BY <1>1 DEF Windows, LineWindow, WindowExact
<1> QED
  BY <1>5, <1>6, <1>7 DEF Windows

(* What only the gate and the store of a sensor matter to.                 *)
LEMMA SameGateAndStore ==
    ASSUME NEW s, NEW n, NEW cfg, NEW acc, NEW t, SensorOK(s, cfg, acc, t),
           n.lastMeasurement = s.lastMeasurement, n.stored = s.stored
    PROVE  SensorOK(n, cfg, acc, t)
BY DEF SensorOK, GateOK, StoreOK, NewestOK

LEMMA WindowsRead ==
    ASSUME IInv, Windows, StartRead \/ ReadOk \/ ReadFail, Feeder = "main"
    PROVE  Windows'
<1> DEFINE cfg == SensorCfg
<1>1. /\ cfg \in SensorConfig /\ cfg.rest = Rest /\ cfg.keep = keep /\ ~cfg.isCounter
      /\ sensor \in SensorState /\ accepted \in SUBSET Nat /\ now \in Nat /\ current \in Nat
      /\ keep \in Nat /\ sensor.stored \in SUBSET Nat
  BY SensorCfgType DEF SensorState
<1>2. /\ current <= now /\ SensorOK(sensor, cfg, accepted, now)
      /\ Retains(sensor.stored, cfg, accepted, now)
  BY DEF Windows, SensorKnows
<1>3. /\ UNCHANGED <<now, current, keep, entries>> /\ phase # "config"
      /\ phase' \in {"reading", "write"}
  BY DEF StartRead, ReadOk, ReadFail, writeVars
<1>4. cfg' = cfg
  BY <1>3 DEF SensorCfg
<1>5. Rest + keep < now
  <2>1. Rest + keep < StartTime /\ StartTime <= now
    BY DEF Windows, KeptLongEnough, IInv, Gate
  <2> QED
    BY <1>1, <2>1, Constants
<1> HIDE DEF cfg
<1>6. SensorOK(sensor', cfg, accepted', now) /\ Retains(sensor'.stored, cfg, accepted', now)
  <2>1. CASE StartRead
    <3>1. sensor' = Cleaned(sensor, cfg, current) /\ accepted' = accepted
      BY <2>1 DEF StartRead, cfg
    <3>2. sensor'.stored = Clean(sensor.stored, current - cfg.keep)
      BY <1>1, <3>1 DEF Cleaned, SensorState
    <3>3. current - cfg.keep \in Int /\ current - cfg.keep <= now - cfg.keep
      BY <1>1, <1>2
    <3>4. Retains(sensor'.stored, cfg, accepted, now)
      BY <1>1, <1>2, <3>2, <3>3, CleanRetains
    <3>5. SensorOK(sensor', cfg, accepted, now)
      BY <1>1, <1>2, <3>1, CleanedOK
    <3> QED
      BY <3>1, <3>4, <3>5
  <2>2. CASE ReadOk
    <3> DEFINE n == AddRawMeasurement(sensor, cfg, now)
    <3>1. CASE Rested(sensor, cfg, now)
      <4>1. sensor' = Published(n) /\ accepted' = accepted \cup {now}
        BY <2>2, <3>1 DEF ReadOk, Record, cfg
      <4>2. n \in SensorState /\ SensorOK(n, cfg, accepted \cup {now}, now)
        BY <1>1, <1>2, <1>5, <3>1, RecordedOK
      <4>3. Retains(n.stored, cfg, accepted \cup {now}, now)
        BY <1>1, <1>2, <1>5, <3>1, RecordRetains
      <4> HIDE DEF n
      <4>4. sensor'.stored = n.stored /\ sensor'.lastMeasurement = n.lastMeasurement
        BY <4>1, <4>2 DEF Published, SensorState
      <4> QED
        BY <4>1, <4>2, <4>3, <4>4, SameGateAndStore
    <3>2. CASE ~Rested(sensor, cfg, now)
      <4>1. sensor' = [sensor EXCEPT !.readFailures = 0] /\ accepted' = accepted
        BY <2>2, <3>2 DEF ReadOk, Record, cfg, AddRawMeasurement
      <4>2. sensor'.stored = sensor.stored /\ sensor'.lastMeasurement = sensor.lastMeasurement
        BY <1>1, <4>1 DEF SensorState
      <4> QED
        BY <1>2, <4>1, <4>2, SameGateAndStore
    <3> QED
      BY <3>1, <3>2
  <2>3. CASE ReadFail
    <3>1. sensor' = AddReadFailure(sensor, cfg, now) /\ accepted' = accepted
      BY <2>3 DEF ReadFail, cfg
    <3>2. CASE Rested(sensor, cfg, now)
      <4>1. SensorOK(sensor', cfg, accepted, now)
        BY <1>1, <1>2, <1>5, <3>1, <3>2, FailedOK
      <4>2. sensor'.stored = Clean(sensor.stored, now - cfg.keep)
        BY <1>1, <3>1, <3>2 DEF AddReadFailure, SensorState
      <4>3. now - cfg.keep \in Int /\ now - cfg.keep <= now - cfg.keep
        BY <1>1
      <4>4. Retains(sensor'.stored, cfg, accepted, now)
        BY <1>1, <1>2, <4>2, <4>3, CleanRetains
      <4> QED
        BY <3>1, <4>1, <4>4
    <3>3. CASE ~Rested(sensor, cfg, now)
      <4>1. sensor' = sensor
        BY <3>1, <3>3 DEF AddReadFailure
      <4> QED
        BY <1>2, <3>1, <4>1
    <3> QED
      BY <3>2, <3>3
  <2> QED
    BY <2>1, <2>2, <2>3
<1>7. SensorKnows'
  BY <1>2, <1>3, <1>4, <1>6 DEF SensorKnows, cfg
<1> QED
  BY <1>3, <1>7, WindowsSensor

(* An evaluated column: its window is the period before the slot.          *)
LEMMA WindowsEvaluate ==
    ASSUME IInv, Windows, Fits, Evaluate
    PROVE  Windows'
<1> DEFINE v == ColumnValue(col)
<1>1. /\ phase = "evaluate" /\ col \in ColumnIndex /\ line \in Seq(Value)
      /\ Len(line) = col - 1 /\ line' = Append(line, v)
      /\ phase' \in {"evaluate", "file"}
      /\ UNCHANGED <<sensor, keep, accepted, entries, now, current, slot>>
  BY DEF IInv, Typed, LineLength, Evaluate, sensorVars
<1> HIDE DEF v
<1>2. /\ Len(line') = col /\ line'[col] = v
      /\ \A k \in 1..(col - 1) : line'[k] = line[k]
  BY <1>1 DEF ColumnIndex
<1>3. ASSUME NEW i \in MeanColumns, i = col, now < slot + Rest
      PROVE  v.window = PeriodBefore(i)
  <2>1. v.window = InWindow(sensor.stored, slot - Period(i))
    BY <1>3 DEF v, ColumnValue, MeanColumns
  <2>2. /\ Period(i) % Rest = 0 /\ Period(i) <= Rest * MaxMeasurements
        /\ Period(i) \in Nat /\ Period(i) <= keep
    BY <1>1, <1>3, SensorCfgType DEF Fits, Windows, KeptLongEnough
  <2>3. slot \in Nat /\ slot % Rest = 0
    <3>1. PICK b \in 0..now : slot = Timeslot(b, CycleTime)
      BY <1>1 DEF IInv, Schedule, Writing
    <3>2. b \in Nat /\ CycleTime \in Nat \ {0} /\ Rest \in Nat \ {0}
      BY <3>1, Constants DEF IInv, Typed
    <3>3. PICK j \in Nat : slot = CycleTime * j
      BY <3>1, <3>2, SlotIsMultiple
    <3>4. PICK k \in Nat : CycleTime = Rest * k
      BY <3>2, Multiple DEF Fits
    <3>5. slot = Rest * (k * j) /\ k * j \in Nat
      BY <3>2, <3>3, <3>4
    <3>6. (Rest * (k * j)) % Rest = 0
      <4>1. PICK m \in Nat : m = k * j
        BY <3>5
      <4> QED
        BY <3>2, <4>1
    <3> QED
      BY <3>2, <3>5, <3>6
  <2>4. InWindow(sensor.stored, slot - Period(i)) = InPeriod(SensorCfg, accepted, slot, Period(i))
    <3> DEFINE cfg == SensorCfg
               p == Period(i)
    <3>1. /\ cfg \in SensorConfig /\ cfg.rest = Rest /\ cfg.keep = keep
          /\ sensor \in SensorState /\ accepted \in SUBSET Nat /\ now \in Nat
      BY SensorCfgType
    <3>2. SensorOK(sensor, cfg, accepted, now) /\ Retains(sensor.stored, cfg, accepted, now)
      BY DEF Windows, SensorKnows
    <3> HIDE DEF cfg, p
    <3>3. /\ p \in Nat /\ p % cfg.rest = 0 /\ slot % cfg.rest = 0 /\ now < slot + cfg.rest
          /\ p <= cfg.keep /\ p <= cfg.rest * MaxMeasurements
      BY <1>3, <2>2, <2>3, <3>1 DEF p
    <3>4. InWindow(sensor.stored, slot - p) = InPeriod(cfg, accepted, slot, p)
      BY <2>3, <3>1, <3>2, <3>3, WindowHolds
    <3> QED
      BY <3>4 DEF cfg, p
  <2> QED
    BY <2>1, <2>4, SensorCfgType DEF PeriodBefore, InPeriod
<1>4. LineWindow'
  <2> SUFFICES ASSUME NEW i \in MeanColumns, i <= Len(line'), now' < slot' + Rest
               PROVE  line'[i].window = PeriodBefore(i)'
    BY DEF LineWindow
  <2>1. PeriodBefore(i)' = PeriodBefore(i)
    BY <1>1 DEF PeriodBefore
  <2>2. i \in 1..col /\ col \in Nat
    BY <1>1, <1>2 DEF MeanColumns, ColumnIndex
  <2>3. CASE i = col
    BY <1>1, <1>2, <1>3, <2>1, <2>3
  <2>4. CASE i # col
    <3>1. i \in 1..(col - 1) /\ i <= Len(line)
      BY <1>1, <2>2, <2>4
    <3>2. line[i].window = PeriodBefore(i)
      BY <1>1, <3>1 DEF Windows, LineWindow
    <3> QED
      BY <1>2, <2>1, <3>1, <3>2
  <2> QED
    BY <2>3, <2>4
<1>5. KeptLongEnough' /\ SensorKnows' /\ WindowExact'
  BY <1>1 DEF Windows, KeptLongEnough, SensorKnows, SensorCfg, WindowExact
<1> QED
  BY <1>4, <1>5 DEF Windows

LEMMA WindowsWriteFile ==
    ASSUME IInv, Windows, WriteFile
    PROVE  Windows'
<1> DEFINE e == [slot |-> slot, at |-> now, values |-> line, known |-> Slots(accepted)]
<1>1. /\ phase = "file" /\ phase' = "newCycle" /\ entries' = Append(entries, e)
      /\ Len(line) = Len(Columns) /\ entries \in Seq(EntryState)
      /\ UNCHANGED <<sensor, keep, accepted, now, current>>
  BY DEF IInv, Typed, LineLength, WriteFile, sensorVars
<1>2. e.slot = slot /\ e.at = now /\ e.values = line /\ e.known = Slots(accepted)
  OBVIOUS
<1> HIDE DEF e
<1>3. /\ Len(entries) \in Nat /\ DOMAIN entries' = 1..(Len(entries) + 1)
      /\ entries'[Len(entries) + 1] = e /\ DOMAIN entries = 1..Len(entries)
      /\ \A k \in 1..Len(entries) : entries'[k] = entries[k]
  BY <1>1
<1>4. WindowExact'
  <2> SUFFICES ASSUME NEW k \in 1..(Len(entries) + 1), NEW i \in MeanColumns,
                      entries'[k].at < entries'[k].slot + Rest
               PROVE  entries'[k].values[i].window
                          = {s \in entries'[k].known :
                                entries'[k].slot - Period(i) < s /\ s <= entries'[k].slot}
    BY <1>3 DEF WindowExact
  <2>1. CASE k = Len(entries) + 1
    <3>1. i <= Len(line)
      BY <1>1 DEF MeanColumns, ColumnIndex
    <3>2. line[i].window = PeriodBefore(i)
      BY <1>1, <1>2, <1>3, <2>1, <3>1 DEF Windows, LineWindow
    <3> QED
      BY <1>2, <1>3, <2>1, <3>2 DEF PeriodBefore
  <2>2. CASE k # Len(entries) + 1
    <3>1. k \in DOMAIN entries /\ entries'[k] = entries[k]
      BY <1>3, <2>2
    <3> QED
      BY <3>1 DEF Windows, WindowExact
  <2> QED
    BY <2>1, <2>2
<1>5. KeptLongEnough' /\ SensorKnows' /\ LineWindow'
  BY <1>1 DEF Windows, KeptLongEnough, SensorKnows, SensorCfg, LineWindow
<1> QED
  BY <1>4, <1>5 DEF Windows

LEMMA WindowsTick ==
    ASSUME IInv, Windows, Tick
    PROVE  Windows'
<1>1. /\ now' = now + 1 /\ phase' = phase /\ phase # "config"
      /\ UNCHANGED <<current, sensor, keep, accepted, entries, slot, line>>
  BY DEF Tick, sensorVars, writeVars
<1>2. /\ now \in Nat /\ now' \in Nat /\ now <= now' /\ SensorCfg \in SensorConfig
      /\ sensor \in SensorState /\ accepted \in SUBSET Nat /\ current \in Nat
      /\ sensor.stored \in SUBSET Nat
  BY <1>1, SensorCfgType DEF SensorState
<1>3. SensorCfg' = SensorCfg
  BY <1>1 DEF SensorCfg
<1>4. /\ SensorOK(sensor, SensorCfg, accepted, now')
      /\ Retains(sensor.stored, SensorCfg, accepted, now')
      /\ current <= now'
  <2> DEFINE cfg == SensorCfg
  <2>1. /\ SensorOK(sensor, cfg, accepted, now) /\ Retains(sensor.stored, cfg, accepted, now)
        /\ current <= now /\ cfg \in SensorConfig
    BY <1>2 DEF Windows, SensorKnows
  <2> HIDE DEF cfg
  <2>2. SensorOK(sensor, cfg, accepted, now') /\ Retains(sensor.stored, cfg, accepted, now')
    BY <1>2, <2>1, LaterOK, LaterRetains
  <2> QED
    BY <1>2, <2>1, <2>2 DEF cfg
<1>5. SensorKnows'
  BY <1>1, <1>3, <1>4 DEF SensorKnows
<1>6. LineWindow'
  <2>1. slot \in Nat /\ Rest \in Nat \ {0}
    BY Constants DEF IInv, Typed
  <2>2. now' < slot + Rest => now < slot + Rest
    BY <1>1, <1>2, <2>1
  <2> QED
    BY <1>1, <2>2 DEF Windows, LineWindow, PeriodBefore
<1>7. KeptLongEnough' /\ WindowExact'
  BY <1>1 DEF Windows, KeptLongEnough, WindowExact
<1> QED
  BY <1>5, <1>6, <1>7 DEF Windows

LEMMA WindowsStep ==
    ASSUME IInv, Windows, Fits, [Next]_vars
    PROVE  Windows'
<1>0. current <= now /\ now <= now
  BY SensorCfgType DEF Windows, SensorKnows
<1>1. CASE AddColumn
  BY <1>1, WindowsAddColumn
<1>2. CASE Trigger \/ NotDue \/ NoEntry \/ StartEntry \/ StartCycle
  BY <1>0, <1>2, WindowsQuiet
     DEF Trigger, NotDue, NoEntry, StartEntry, StartCycle, sensorVars, writeVars
<1>3. CASE MeasureCallback \/ CallbackEvent \/ RegisterPoll \/ ResetCounters
  BY <1>3 DEF MeasureCallback, CallbackEvent, RegisterPoll, ResetCounters, Fits
<1>4. CASE StartRead \/ ReadOk \/ ReadFail
  BY <1>4, WindowsRead DEF Fits
<1>5. CASE Evaluate
  BY <1>5, WindowsEvaluate
<1>6. CASE WriteFile
  BY <1>6, WindowsWriteFile
<1>7. CASE Tick
  BY <1>7, WindowsTick
<1>8. CASE UNCHANGED vars
  BY <1>8 DEF vars, Windows, KeptLongEnough, SensorKnows, SensorCfg, LineWindow, PeriodBefore,
     WindowExact
<1> QED
  BY <1>1, <1>2, <1>3, <1>4, <1>5, <1>6, <1>7, <1>8 DEF Next

(***************************************************************************)
(* A polled sensor whose rest period divides the cycle and the periods of  *)
(* the columns, and a store that holds a period of measurements: an entry  *)
(* written before the sensor's next rest period is over evaluates exactly  *)
(* the measurements of its period (column::column and                      *)
(* sensor::accumulateMaxTimeToKeep, measurements::clean, ::addValue).       *)
(***************************************************************************)
THEOREM WindowsAreExact ==
    ASSUME Feeder = "main", CycleTime % Rest = 0,
           \A i \in MeanColumns : Period(i) % Rest = 0 /\ Period(i) <= Rest * MaxMeasurements
    PROVE  Spec => []WindowExact
<1>0. Fits
  BY DEF Fits
<1>1. Init => Windows
  <2> SUFFICES ASSUME Init PROVE Windows
    OBVIOUS
  <2>1. /\ sensor.stored = {} /\ sensor.lastMeasurement = 0 /\ accepted = {}
        /\ now \in Nat /\ keep = 0 /\ phase = "config" /\ col = 1 /\ current <= now
    BY Constants DEF Init, NewSensor
  <2>2. KeptLongEnough
    BY <2>1, Constants DEF KeptLongEnough, ColumnIndex
  <2>3. SensorKnows
    <3>1. IsFiniteSet({}) /\ Cardinality({}) = 0
      BY FS_EmptySet
    <3> QED
      BY <2>1, <3>1, MaxMeasurementsAssumption
         DEF SensorKnows, SensorOK, GateOK, StoreOK, NewestOK, HasNewest, Retains
  <2>4. LineWindow /\ WindowExact
    BY DEF Init, LineWindow, WindowExact
  <2> QED
    BY <2>2, <2>3, <2>4 DEF Windows
<1>2. IInv /\ Windows /\ [Next]_vars => Windows'
  BY <1>0, WindowsStep
<1>3. Windows => WindowExact
  BY DEF Windows
<1> QED
  BY <1>1, <1>2, <1>3, Invariance, PTL DEF Spec
=============================================================================
