------------------------- MODULE LogbookFile_proofs -------------------------
(***************************************************************************)
(* Theorems of LogbookFile, for all limits and any number of entries.      *)
(***************************************************************************)
EXTENDS LogbookFile, SequenceTheorems, WellFoundedInduction, TLAPS

(***************************************************************************)
(* The lines of a file whose first line, and no other, is the header.      *)
(***************************************************************************)
HeaderFirst(f) == \A k \in DOMAIN f : (f[k] = Header) <=> (k = 1)

\* The lines among the first n.
Rest(f, n) == [k \in 1..(n - 1) |-> f[k + 1]]

LEMMA LeastNumber ==
    ASSUME NEW S \in SUBSET Nat, S # {}
    PROVE  \E m \in S : \A n \in S : m <= n
<1>1. PICK m \in S : \A n \in S : ~(<<n, m>> \in OpToRel(<, Nat))
  BY NatLessThanWellFounded, WFMin
<1>2. \A n \in S : ~(n < m)
  BY <1>1 DEF OpToRel
<1> QED
  BY <1>2

LEMMA FunctionIsSeq ==
    ASSUME NEW S, NEW n \in Nat, NEW f \in [1..n -> S]
    PROVE  f \in Seq(S)
OBVIOUS

LEMMA RestGrows ==
    ASSUME NEW f \in Seq(Int), HeaderFirst(f), NEW n \in 1..Len(f)
    PROVE  Rest(f, n) = IF f[n] = Header THEN Rest(f, n - 1) ELSE Append(Rest(f, n - 1), f[n])
<1>1. (f[n] = Header) <=> (n = 1)
  BY DEF HeaderFirst
<1>2. CASE n = 1
  BY <1>1, <1>2 DEF Rest
<1>3. CASE n # 1
  <2>1. Rest(f, n - 1) \in Seq(Int) /\ Len(Rest(f, n - 1)) = n - 2
    BY <1>3 DEF Rest
  <2>2. Append(Rest(f, n - 1), f[n]) \in Seq(Int) /\ Len(Append(Rest(f, n - 1), f[n])) = n - 1
    BY <2>1
  <2>3. Rest(f, n) \in Seq(Int) /\ Len(Rest(f, n)) = n - 1
    BY <1>3 DEF Rest
  <2>4. \A k \in 1..(n - 1) : Rest(f, n)[k] = Append(Rest(f, n - 1), f[n])[k]
    BY <1>3, <2>1 DEF Rest
  <2>5. Rest(f, n) = Append(Rest(f, n - 1), f[n])
    BY <2>2, <2>3, <2>4, SeqEqual
  <2>6. f[n] # Header
    BY <1>1, <1>3
  <2> QED
    BY <2>5, <2>6
<1> QED
  BY <1>2, <1>3

LEMMA LinesAreRest ==
    ASSUME NEW f \in Seq(Int), HeaderFirst(f)
    PROVE  Lines(f) = Rest(f, Len(f))
<1> DEFINE Kept(g) == [n \in 0..Len(f) |->
               IF n = 0 THEN << >>
               ELSE IF f[n] = Header THEN g[n - 1] ELSE Append(g[n - 1], f[n])]
           kept == CHOOSE g : g = Kept(g)
           known == [n \in 0..Len(f) |-> Rest(f, n)]
<1>1. Lines(f) = kept[Len(f)]
  BY DEF Lines
<1>2. known = Kept(known)
  <2>1. Rest(f, 0) = << >>
    BY DEF Rest
  <2>2. ASSUME NEW n \in 0..Len(f), n # 0
        PROVE  known[n] = IF f[n] = Header THEN known[n - 1] ELSE Append(known[n - 1], f[n])
    BY <2>2, RestGrows
  <2> QED
    BY <2>1, <2>2
<1>3. kept = Kept(kept)
  BY <1>2
<1> HIDE DEF kept
<1>e. \A n \in 0..Len(f) :
          kept[n] = IF n = 0 THEN << >>
                    ELSE IF f[n] = Header THEN kept[n - 1] ELSE Append(kept[n - 1], f[n])
  BY <1>3
<1> HIDE DEF Kept
<1>4. \A n \in 0..Len(f) : kept[n] = Rest(f, n)
  <2> DEFINE bad == {n \in 0..Len(f) : kept[n] # Rest(f, n)}
  <2> SUFFICES ASSUME bad # {} PROVE FALSE
    OBVIOUS
  <2>0. bad \in SUBSET Nat
    OBVIOUS
  <2>1. PICK m \in bad : \A n \in bad : m <= n
    <3> HIDE DEF bad
    <3> QED
      BY <2>0, LeastNumber
  <2>2. m # 0
    BY <1>e DEF Rest
  <2>3. m \in 1..Len(f) /\ m - 1 \in 0..Len(f) /\ m - 1 \notin bad
    BY <2>1, <2>2
  <2>4. kept[m - 1] = Rest(f, m - 1)
    BY <2>3
  <2>5. kept[m] = IF f[m] = Header THEN kept[m - 1] ELSE Append(kept[m - 1], f[m])
    BY <1>e, <2>3
  <2> QED
    BY <2>3, <2>4, <2>5, RestGrows
<1> QED
  BY <1>1, <1>4
-----------------------------------------------------------------------------
(***************************************************************************)
(* The inductive invariant.                                                *)
(***************************************************************************)

(* The lines s are entries in order, none twice, up to number e.           *)
Table(s, e) ==
    /\ \A j, k \in DOMAIN s : j < k => Entry(s[j]) < Entry(s[k])
    /\ \A k \in DOMAIN s : s[k] # Header /\ Entry(s[k]) <= e

\* The newest entry the file may have.
Newest == IF pc \in {"read", "trim", "open"} THEN entry - 1 ELSE entry

FileOK == HeaderFirst(file) /\ Table(Lines(file), Newest)

\* The lines write() has got to read.
Found == IF readable THEN Lines(file) ELSE << >>

(* What has been read from the file waits to be written again.             *)
MemoryOK ==
    /\ pc # "idle" => entry > 0
    /\ pc = "trim" => loglines = Found
    /\ pc = "open" => loglines = WithoutOld(Found, limit)
    /\ pc \in {"open", "writing"} =>
          Table(loglines, entry - 1) /\ Len(loglines) < limit /\ least <= limit

(* While it is written the file is the beginning of the content.           *)
WritingOK ==
    pc = "writing" =>
        /\ flushed # 1
        /\ Len(file) = flushed
        /\ \A k \in 1..flushed : file[k] = Content[k]

(* The lines s are the newest entries up to e, and as many as least allows.*)
TailOf(s, e, n) ==
    /\ \A k \in DOMAIN s : s[k] = e - Len(s) + k
    /\ Len(s) = e \/ Len(s) >= n

Complete ==
    ~damaged =>
        /\ up \/ pc = "idle"
        /\ pc \in {"trim", "open"} => readable
        /\ pc \in {"idle", "read", "trim"} => TailOf(Lines(file), Newest, least)
        /\ pc \in {"open", "writing"} => TailOf(loglines, entry - 1, least - 1)

(* Nothing of the new content has gone to the file.                        *)
FlushedOK == pc \in {"read", "trim", "open"} => flushed = 0

IInv == TypeOK /\ FileOK /\ MemoryOK /\ WritingOK /\ FlushedOK /\ Complete

(***************************************************************************)
(* Dropping the oldest lines, and writing the first lines of the content.  *)
(***************************************************************************)
LEMMA NewestRemain ==
    ASSUME NEW S, NEW s \in Seq(S), NEW max \in Nat \ {0}
    PROVE  /\ WithoutOld(s, max) \in Seq(S)
           /\ Len(WithoutOld(s, max)) = IF Len(s) >= max THEN max - 1 ELSE Len(s)
           /\ Len(WithoutOld(s, max)) < max
           /\ \A k \in 1..Len(WithoutOld(s, max)) :
                 WithoutOld(s, max)[k] = s[k + (Len(s) - Len(WithoutOld(s, max)))]
<1>1. CASE Len(s) >= max
  <2> DEFINE first == Len(s) - max + 2
  <2>1. first \in 1..(Len(s) + 1) /\ Len(s) - first + 1 = max - 1
    BY <1>1
  <2>2. /\ SubSeq(s, first, Len(s)) \in Seq(S)
        /\ Len(SubSeq(s, first, Len(s))) = max - 1
        /\ \A k \in 1..(max - 1) : SubSeq(s, first, Len(s))[k] = s[k + first - 1]
    BY <2>1
  <2>3. WithoutOld(s, max) = SubSeq(s, first, Len(s))
    BY <1>1 DEF WithoutOld
  <2> QED
    BY <1>1, <2>1, <2>2, <2>3
<1>2. CASE ~(Len(s) >= max)
  <2>1. WithoutOld(s, max) = s
    BY <1>2 DEF WithoutOld
  <2>2. Len(s) \in Nat /\ Len(s) < max /\ \A k \in 1..Len(s) : k + (Len(s) - Len(s)) = k
    BY <1>2
  <2> QED
    BY <1>2, <2>1, <2>2
<1> QED
  BY <1>1, <1>2

LEMMA ContentLines ==
    ASSUME TypeOK
    PROVE  /\ Content \in Seq((-entry)..entry)
           /\ Len(Content) = Len(loglines) + 2
           /\ Content[1] = Header
           /\ \A k \in 1..Len(loglines) : Content[k + 1] = loglines[k]
           /\ Content[Len(loglines) + 2] = entry
<1>1. loglines \in Seq((-entry)..entry) /\ entry \in Nat
  BY LogbookFileAssumption DEF TypeOK
<1>2. <<Header>> \in Seq((-entry)..entry) /\ <<entry>> \in Seq((-entry)..entry)
  BY <1>1 DEF Header
<1> QED
  BY <1>1, <1>2 DEF Content

LEMMA Extended ==
    ASSUME NEW S, NEW f \in Seq(S), NEW c \in Seq(S), NEW n \in Nat,
           Len(f) <= n, n <= Len(c), \A k \in 1..Len(f) : f[k] = c[k]
    PROVE  /\ f \o SubSeq(c, Len(f) + 1, n) \in Seq(S)
           /\ Len(f \o SubSeq(c, Len(f) + 1, n)) = n
           /\ \A k \in 1..n : (f \o SubSeq(c, Len(f) + 1, n))[k] = c[k]
<1> DEFINE m == Len(f)
           new == SubSeq(c, m + 1, n)
<1>1. /\ new \in Seq(S) /\ Len(new) = n - m
      /\ \A k \in 1..(n - m) : new[k] = c[k + m]
  OBVIOUS
<1>2. f \o new \in Seq(S) /\ Len(f \o new) = n
  BY <1>1
<1>3. ASSUME NEW k \in 1..n PROVE (f \o new)[k] = c[k]
  <2>1. CASE k <= m
    BY <1>1, <2>1
  <2>2. CASE k > m
    BY <1>1, <2>2
  <2> QED
    BY <2>1, <2>2
<1> QED
  BY <1>2, <1>3

LEMMA ExtendedTorn ==
    ASSUME NEW S, NEW f \in Seq(S), NEW c \in Seq(S), NEW n \in Nat,
           Len(f) < n, n <= Len(c), \A k \in 1..Len(f) : f[k] = c[k], NEW t \in S
    PROVE  LET g == f \o Append(SubSeq(c, Len(f) + 1, n - 1), t)
           IN  /\ g \in Seq(S)
               /\ Len(g) = n
               /\ \A k \in 1..(n - 1) : g[k] = c[k]
               /\ g[n] = t
<1> DEFINE part == SubSeq(c, Len(f) + 1, n - 1)
           h == f \o part
<1>1. part \in Seq(S)
  OBVIOUS
<1>2. h \in Seq(S) /\ Len(h) = n - 1 /\ \A k \in 1..(n - 1) : h[k] = c[k]
  BY Extended
<1> HIDE DEF part
<1>3. f \o Append(part, t) = Append(h, t)
  BY <1>1, AppendIsConcat, ConcatAssociative
<1> HIDE DEF h
<1>4. /\ Append(h, t) \in Seq(S) /\ Len(Append(h, t)) = n
      /\ \A k \in 1..(n - 1) : Append(h, t)[k] = c[k]
      /\ Append(h, t)[n] = t
  BY <1>2
<1> QED
  BY <1>3, <1>4 DEF part

(* What a write that goes well, fails or stops leaves: the first lines of  *)
(* the content, of which the last may be torn.                             *)
Written(f) ==
    /\ f \in Seq(Int)
    /\ Len(f) <= Len(Content)
    /\ \A k \in 1..Len(f) :
          \/ f[k] = Content[k]
          \/ k = Len(f) /\ k > 1 /\ f[k] = Torn(Content[k])

LEMMA WrittenIsTable ==
    ASSUME TypeOK, entry > 0, Table(loglines, entry - 1), NEW f, Written(f)
    PROVE  /\ HeaderFirst(f)
           /\ Table(Lines(f), entry)
           /\ f \in Seq((-entry)..entry)
           /\ Len(Lines(f)) = IF Len(f) = 0 THEN 0 ELSE Len(f) - 1
           /\ \A k \in 1..(Len(f) - 1) : k \in DOMAIN Lines(f) /\ Lines(f)[k] = f[k + 1]
<1>1. loglines \in Seq((-entry)..entry) /\ entry \in Nat /\ Len(loglines) \in Nat
  BY LogbookFileAssumption DEF TypeOK
<1>2. /\ Content \in Seq((-entry)..entry)
      /\ Len(Content) = Len(loglines) + 2
      /\ Content[1] = Header
      /\ \A k \in 1..Len(loglines) : Content[k + 1] = loglines[k]
      /\ Content[Len(loglines) + 2] = entry
  BY ContentLines
<1>f. f \in Seq(Int) /\ Len(f) \in Nat /\ Len(f) <= Len(Content)
  BY DEF Written
<1>3. ASSUME NEW k \in 2..Len(Content)
      PROVE  /\ Content[k] \in Int /\ Content[k] # Header /\ Entry(Content[k]) <= entry
             /\ k < Len(Content) => Entry(Content[k]) < entry
             /\ \A j \in 2..(k - 1) : Entry(Content[j]) < Entry(Content[k])
  <2>1. CASE k = Len(loglines) + 2
    <3>1. Content[k] = entry /\ Entry(entry) = entry
      BY <1>1, <1>2, <2>1 DEF Entry
    <3>2. ASSUME NEW j \in 2..(k - 1) PROVE Entry(Content[j]) < entry
      <4>0. j - 1 \in 1..Len(loglines) /\ (j - 1) + 1 = j
        BY <1>1, <1>2, <2>1
      <4>1. j - 1 \in 1..Len(loglines) /\ Content[j] = loglines[j - 1]
        BY <1>2, <4>0
      <4>2. Entry(loglines[j - 1]) <= entry - 1 /\ loglines[j - 1] \in Int
        BY <1>1, <4>1 DEF Table
      <4> QED
        BY <1>1, <4>1, <4>2 DEF Entry
    <3> QED
      BY <1>1, <1>2, <2>1, <3>1, <3>2 DEF Header
  <2>2. CASE k < Len(loglines) + 2
    <3>1. k - 1 \in 1..Len(loglines) /\ Content[k] = loglines[k - 1]
      <4>1. k - 1 \in 1..Len(loglines) /\ (k - 1) + 1 = k
        BY <1>1, <1>2, <2>2
      <4> QED
        BY <1>2, <4>1
    <3>2. loglines[k - 1] \in Int /\ loglines[k - 1] # Header /\ Entry(loglines[k - 1]) <= entry - 1
      BY <1>1, <3>1 DEF Table
    <3>3. ASSUME NEW j \in 2..(k - 1) PROVE Entry(Content[j]) < Entry(Content[k])
      <4>1. j - 1 \in 1..Len(loglines) /\ (j - 1) + 1 = j
        BY <1>1, <1>2, <2>2
      <4>2. Content[j] = loglines[j - 1]
        BY <1>2, <4>1
      <4>3. j - 1 < k - 1 /\ j - 1 \in DOMAIN loglines /\ k - 1 \in DOMAIN loglines
        BY <1>1, <3>1, <4>1
      <4>4. Entry(loglines[j - 1]) < Entry(loglines[k - 1])
        BY <4>3 DEF Table
      <4> QED
        BY <3>1, <4>2, <4>4
    <3> QED
      BY <1>1, <3>1, <3>2, <3>3 DEF Entry
  <2> QED
    BY <1>1, <1>2, <2>1, <2>2
<1>4. ASSUME NEW k \in 1..Len(f)
      PROVE  /\ (f[k] = Header) <=> (k = 1)
             /\ k > 1 => f[k] # Header /\ Entry(f[k]) = Entry(Content[k])
             /\ f[k] \in (-entry)..entry
  <2>1. Content[k] \in (-entry)..entry
    <3> HIDE DEF Content
    <3>1. k \in 1..Len(Content)
      BY <1>f, <1>2, <1>1
    <3> QED
      BY <1>2, <3>1, ElementOfSeq
  <2>2. CASE k = 1
    BY <1>1, <1>2, <2>1, <2>2 DEF Written, Header
  <2>3. CASE k > 1
    <3>1. Content[k] # Header /\ Content[k] \in Int
      BY <1>2, <1>f, <1>3, <2>3
    <3>2. f[k] = Content[k] \/ f[k] = Torn(Content[k])
      BY DEF Written
    <3> QED
      BY <1>1, <2>1, <2>3, <3>1, <3>2 DEF Torn, Entry, Header
  <2> QED
    BY <2>2, <2>3
<1>5. HeaderFirst(f)
  BY <1>4, <1>f DEF HeaderFirst
<1>6. f \in Seq((-entry)..entry)
  <2>1. f \in [1..Len(f) -> (-entry)..entry]
    BY <1>4, <1>f
  <2> QED
    BY <1>f, <2>1, FunctionIsSeq
<1>7. Lines(f) = [k \in 1..(Len(f) - 1) |-> f[k + 1]]
  BY <1>5, <1>f, LinesAreRest DEF Rest
<1>8. Table(Lines(f), entry)
  <2>1. DOMAIN Lines(f) = 1..(Len(f) - 1) /\ \A k \in 1..(Len(f) - 1) : Lines(f)[k] = f[k + 1]
    BY <1>7
  <2>2. ASSUME NEW k \in 1..(Len(f) - 1)
        PROVE  Lines(f)[k] # Header /\ Entry(Lines(f)[k]) <= entry
    <3>1. k + 1 \in 2..Len(Content) /\ k + 1 \in 1..Len(f)
      BY <1>f, <1>2
    <3> QED
      BY <1>3, <1>4, <2>1, <3>1
  <2>3. ASSUME NEW j \in 1..(Len(f) - 1), NEW k \in 1..(Len(f) - 1), j < k
        PROVE  Entry(Lines(f)[j]) < Entry(Lines(f)[k])
    <3>1. /\ k + 1 \in 2..Len(Content) /\ k + 1 \in 1..Len(f)
          /\ j + 1 \in 2..k /\ j + 1 \in 1..Len(f) /\ k = (k + 1) - 1
      BY <1>f, <1>2, <2>3
    <3>2. Entry(Content[j + 1]) < Entry(Content[k + 1])
      BY <1>3, <3>1
    <3>3. Entry(f[j + 1]) = Entry(Content[j + 1]) /\ Entry(f[k + 1]) = Entry(Content[k + 1])
      BY <1>4, <3>1
    <3> QED
      BY <2>1, <3>2, <3>3
  <2> QED
    BY <2>1, <2>2, <2>3 DEF Table
<1>9. /\ Len(Lines(f)) = IF Len(f) = 0 THEN 0 ELSE Len(f) - 1
      /\ \A k \in 1..(Len(f) - 1) : k \in DOMAIN Lines(f) /\ Lines(f)[k] = f[k + 1]
  <2> HIDE DEF HeaderFirst
  <2>1. CASE Len(f) = 0
    BY <1>7, <2>1
  <2>2. CASE Len(f) # 0
    <3>1. Len(f) - 1 \in Nat
      BY <1>f, <2>2
    <3> QED
      BY <1>7, <2>2, <3>1
  <2> QED
    BY <2>1, <2>2
<1> QED
  BY <1>5, <1>6, <1>8, <1>9

-----------------------------------------------------------------------------
(***************************************************************************)
(* The steps.                                                              *)
(***************************************************************************)

(* The types of the state and of the file's lines.                         *)
LEMMA Types ==
    ASSUME IInv
    PROVE  /\ entry \in Nat /\ limit \in Nat /\ least \in Nat /\ flushed \in Nat
           /\ limit \in Limits /\ Limits \subseteq Nat /\ MaxEntry \in Nat /\ entry <= MaxEntry
           /\ Newest \in Int /\ Newest <= entry /\ entry - 1 <= Newest
           /\ file \in Seq(Int)
           /\ Lines(file) \in Seq((-entry)..entry) /\ Len(Lines(file)) \in Nat
           /\ loglines \in Seq((-entry)..entry) /\ Len(loglines) \in Nat
           /\ Len(Lines(file)) = IF Len(file) = 0 THEN 0 ELSE Len(file) - 1
<1> USE LogbookFileAssumption
<1>1. /\ entry \in Nat /\ limit \in Nat /\ least \in Nat /\ limit \in Limits
      /\ loglines \in Seq((-entry)..entry) /\ file \in Seq((-entry)..entry)
      /\ entry <= MaxEntry /\ HeaderFirst(file)
  BY DEF IInv, TypeOK, FileOK
<1>2. Len(loglines) \in Nat /\ Len(file) \in Nat
  BY <1>1
<1>3. flushed \in Nat
  BY <1>2 DEF IInv, TypeOK
<1>4. Newest \in Int /\ Newest <= entry /\ entry - 1 <= Newest
  BY <1>1 DEF Newest
<1>5. file \in Seq(Int)
  BY <1>1
<1>6. Lines(file) = [k \in 1..(Len(file) - 1) |-> file[k + 1]]
  BY <1>1, <1>5, LinesAreRest DEF Rest
<1>7. CASE Len(file) = 0
  <2>1. Lines(file) = << >>
    BY <1>6, <1>7
  <2> QED
    BY <1>1, <1>2, <1>3, <1>4, <1>5, <1>7, <2>1
<1>8. CASE Len(file) # 0
  <2>1. Len(file) - 1 \in Nat
    BY <1>2, <1>8
  <2>2. \A k \in 1..(Len(file) - 1) : file[k + 1] \in (-entry)..entry
    <3> TAKE k \in 1..(Len(file) - 1)
    <3>1. k + 1 \in 1..Len(file)
      BY <1>2
    <3> QED
      BY <1>1, <3>1, ElementOfSeq
  <2>3. Lines(file) \in [1..(Len(file) - 1) -> (-entry)..entry]
    BY <1>6, <2>2
  <2>4. Lines(file) \in Seq((-entry)..entry)
    BY <2>1, <2>3, FunctionIsSeq
  <2>5. Len(Lines(file)) = Len(file) - 1
    BY <2>1, <2>3, <2>4, LenProperties
  <2> QED
    BY <1>1, <1>2, <1>3, <1>4, <1>5, <1>8, <2>1, <2>4, <2>5
<1> QED
  BY <1>7, <1>8

LEMMA NoLines ==
    /\ HeaderFirst(<< >>) /\ Lines(<< >>) = << >>
    /\ \A e : Table(<< >>, e) /\ \A S : << >> \in Seq(S)
<1>1. HeaderFirst(<< >>)
  BY DEF HeaderFirst
<1>2. Lines(<< >>) = << >>
  <2>1. << >> \in Seq(Int) /\ Len(<< >>) = 0
    OBVIOUS
  <2>2. Lines(<< >>) = Rest(<< >>, 0)
    BY <1>1, <2>1, LinesAreRest
  <2>3. Rest(<< >>, 0) = << >>
    BY DEF Rest
  <2> QED
    BY <2>2, <2>3
<1> QED
  BY <1>1, <1>2 DEF Table

LEMMA LaterTable ==
    ASSUME NEW d \in Int, NEW e \in Int, d <= e, NEW s \in Seq(Int), Table(s, d)
    PROVE  Table(s, e)
<1>1. \A k \in DOMAIN s : Entry(s[k]) \in Int
  BY DEF Entry
<1> QED
  BY <1>1 DEF Table

LEMMA InitInvariant == Init => IInv
<1> SUFFICES ASSUME Init PROVE IInv
  OBVIOUS
<1>1. /\ up = TRUE /\ pc = "idle" /\ limit \in Limits /\ entry = 0 /\ loglines = << >>
      /\ flushed = 0 /\ file = << >> /\ damaged = FALSE /\ least = MaxEntry
      /\ readable = TRUE /\ limit \in Nat /\ MaxEntry \in Nat
  BY LogbookFileAssumption DEF Init
<1>2. Len(Lines(file)) = 0 /\ Lines(file) = << >>
  BY <1>1, NoLines
<1>3. TypeOK
  <2>1. loglines \in Seq((-entry)..entry) /\ file \in Seq((-entry)..entry)
    BY <1>1, EmptySeq
  <2>2. flushed \in 0..(Len(loglines) + 2) /\ entry \in 0..MaxEntry
    BY <1>1
  <2> QED
    BY <1>1, <2>1, <2>2 DEF TypeOK
<1>4. FileOK
  BY <1>1, <1>2, NoLines DEF FileOK
<1>5. MemoryOK /\ WritingOK /\ FlushedOK
  BY <1>1, <1>2 DEF MemoryOK, WritingOK, FlushedOK
<1>6. Complete
  BY <1>1, <1>2 DEF Complete, TailOf, Newest
<1> QED
  BY <1>3, <1>4, <1>5, <1>6 DEF IInv

LEMMA StartWriteStep == ASSUME IInv, StartWrite PROVE IInv'
<1>1. /\ up /\ pc = "idle" /\ pc' = "read" /\ entry' = entry + 1 /\ entry < MaxEntry
      /\ up' = up /\ limit' = limit /\ loglines' = loglines /\ flushed' = 0
      /\ readable' = readable /\ file' = file /\ damaged' = damaged /\ least' = least
  BY DEF StartWrite
<1>2. Newest' = Newest /\ entry \in Nat /\ MaxEntry \in Nat
  BY <1>1, Types DEF Newest
<1>3. TypeOK'
  <2>1. (-entry)..entry \subseteq (-entry')..entry'
    BY <1>1, <1>2
  <2>2. loglines' \in Seq((-entry')..entry') /\ file' \in Seq((-entry')..entry')
    BY <1>1, <2>1, SeqMonotonic DEF IInv, TypeOK
  <2>3. entry' \in 0..MaxEntry
    BY <1>1, <1>2
  <2>4. flushed' \in 0..(Len(loglines') + 2)
    BY <1>1, Types
  <2> QED
    BY <1>1, <2>2, <2>3, <2>4 DEF IInv, TypeOK
<1>4. FileOK'
  BY <1>1, <1>2 DEF IInv, FileOK
<1>5. MemoryOK' /\ WritingOK'
  BY <1>1, <1>2 DEF MemoryOK, WritingOK
<1>6. FlushedOK'
  BY <1>1 DEF IInv, FlushedOK
<1>7. Complete'
  BY <1>1, <1>2 DEF IInv, Complete
<1> QED
  BY <1>3, <1>4, <1>5, <1>6, <1>7 DEF IInv

LEMMA ReadStep == ASSUME IInv, Read PROVE IInv'
<1>1. /\ pc = "read" /\ pc' = "trim" /\ loglines' = Lines(file) /\ readable' = TRUE
      /\ up' = up /\ limit' = limit /\ entry' = entry /\ flushed' = flushed
      /\ file' = file /\ damaged' = damaged /\ least' = least
  BY DEF Read
<1>2. /\ Newest' = Newest /\ entry \in Nat /\ entry > 0 /\ flushed \in Nat
      /\ Lines(file) \in Seq((-entry)..entry) /\ Len(Lines(file)) \in Nat
  BY <1>1, Types DEF Newest, IInv, MemoryOK
<1>3. TypeOK'
  <2>1. flushed' \in 0..(Len(loglines') + 2)
    BY <1>1, <1>2 DEF IInv, FlushedOK
  <2>2. loglines' \in Seq((-entry')..entry')
    BY <1>1, <1>2
  <2> QED
    BY <1>1, <2>1, <2>2 DEF IInv, TypeOK
<1>4. FileOK'
  BY <1>1, <1>2 DEF IInv, FileOK
<1>5. MemoryOK' /\ WritingOK'
  BY <1>1, <1>2 DEF MemoryOK, WritingOK, Found
<1>6. FlushedOK'
  BY <1>1 DEF IInv, FlushedOK
<1>7. Complete'
  BY <1>1, <1>2 DEF IInv, Complete
<1> QED
  BY <1>3, <1>4, <1>5, <1>6, <1>7 DEF IInv

LEMMA ReadFailsStep == ASSUME IInv, ReadFails PROVE IInv'
<1>1. /\ pc = "read" /\ pc' = "trim" /\ loglines' = << >> /\ readable' = FALSE
      /\ up' = up /\ limit' = limit /\ entry' = entry /\ flushed' = flushed
      /\ file' = file /\ damaged' = TRUE /\ least' = least
  BY DEF ReadFails
<1>2. /\ Newest' = Newest /\ entry \in Nat /\ entry > 0 /\ flushed \in Nat
      /\ Lines(file) \in Seq((-entry)..entry) /\ Len(Lines(file)) \in Nat
  BY <1>1, Types DEF Newest, IInv, MemoryOK
<1>3. TypeOK'
  <2>1. flushed' \in 0..(Len(loglines') + 2)
    BY <1>1, <1>2 DEF IInv, FlushedOK
  <2>2. loglines' \in Seq((-entry')..entry')
    BY <1>1, EmptySeq
  <2> QED
    BY <1>1, <2>1, <2>2 DEF IInv, TypeOK
<1>4. FileOK'
  BY <1>1, <1>2 DEF IInv, FileOK
<1>5. MemoryOK' /\ WritingOK'
  BY <1>1, <1>2 DEF MemoryOK, WritingOK, Found
<1>6. FlushedOK'
  BY <1>1 DEF IInv, FlushedOK
<1>7. Complete'
  BY <1>1 DEF Complete
<1> QED
  BY <1>3, <1>4, <1>5, <1>6, <1>7 DEF IInv

LEMMA TrimStep == ASSUME IInv, Trim PROVE IInv'
<1> DEFINE lines == Found
           new == WithoutOld(lines, limit)
<1>1. /\ up /\ pc = "trim" /\ pc' = "open" /\ limit > 0 /\ readable' = readable
      /\ loglines = lines /\ loglines' = new
      /\ least' = (IF limit < least THEN limit ELSE least)
      /\ up' = up /\ limit' = limit /\ entry' = entry /\ flushed' = flushed
      /\ file' = file /\ damaged' = damaged
  BY DEF Trim, IInv, MemoryOK
<1>2. /\ entry \in Nat /\ entry > 0 /\ flushed \in Nat /\ limit \in Nat \ {0} /\ least \in Nat
      /\ lines \in Seq((-entry)..entry) /\ Len(lines) \in Nat
      /\ Found' = Found
  BY <1>1, Types DEF IInv, MemoryOK, Found
<1>3. /\ new \in Seq((-entry)..entry)
      /\ Len(new) = IF Len(lines) >= limit THEN limit - 1 ELSE Len(lines)
      /\ Len(new) < limit
      /\ \A k \in 1..Len(new) : new[k] = lines[k + (Len(lines) - Len(new))]
  BY <1>2, NewestRemain
<1>4. Newest' = Newest /\ Newest = entry - 1
  BY <1>1 DEF Newest
<1>5. Table(lines, entry - 1)
  <2>1. Table(Lines(file), entry - 1)
    BY <1>4 DEF IInv, FileOK
  <2> QED
    BY <2>1, NoLines DEF Found
<1>6. ~damaged => readable /\ TailOf(lines, entry - 1, least)
  BY <1>1, <1>4 DEF IInv, Complete, Found
<1>7. flushed = 0
  BY <1>1 DEF IInv, FlushedOK
<1> HIDE DEF lines, new
<1>8. least' \in Nat /\ least' <= limit /\ least' <= least
  BY <1>1, <1>2
<1>9. Len(new) \in Nat /\ \A k \in 1..Len(new) : k + (Len(lines) - Len(new)) \in 1..Len(lines)
  <2>1. Len(new) \in Nat /\ Len(new) <= Len(lines)
    BY <1>2, <1>3
  <2> QED
    BY <1>2, <2>1
<1>10. DOMAIN new = 1..Len(new) /\ DOMAIN lines = 1..Len(lines)
  BY <1>2, <1>3
<1>11. Table(new, entry - 1)
  <2>1. \A k \in DOMAIN new : new[k] # Header /\ Entry(new[k]) <= entry - 1
    BY <1>3, <1>5, <1>9, <1>10 DEF Table
  <2>2. ASSUME NEW j \in DOMAIN new, NEW k \in DOMAIN new, j < k
        PROVE  Entry(new[j]) < Entry(new[k])
    <3>1. j + (Len(lines) - Len(new)) < k + (Len(lines) - Len(new))
      BY <1>2, <1>9, <1>10, <2>2
    <3> QED
      BY <1>3, <1>5, <1>9, <1>10, <3>1 DEF Table
  <2> QED
    BY <2>1, <2>2 DEF Table
<1>12. ~damaged => TailOf(new, entry - 1, least' - 1)
  <2> SUFFICES ASSUME ~damaged PROVE TailOf(new, entry - 1, least' - 1)
    OBVIOUS
  <2>1. /\ \A k \in 1..Len(lines) : lines[k] = entry - 1 - Len(lines) + k
        /\ Len(lines) = entry - 1 \/ Len(lines) >= least
    BY <1>6, <1>10 DEF TailOf
  <2>2. ASSUME NEW k \in 1..Len(new) PROVE new[k] = entry - 1 - Len(new) + k
    <3>1. new[k] = entry - 1 - Len(lines) + (k + (Len(lines) - Len(new)))
      BY <1>3, <1>9, <2>1
    <3> QED
      BY <1>2, <1>9, <3>1
  <2>3. Len(new) = entry - 1 \/ Len(new) >= least' - 1
    BY <1>2, <1>3, <1>8, <2>1
  <2> QED
    BY <1>10, <2>2, <2>3 DEF TailOf
<1>13. TypeOK'
  <2>1. flushed' \in 0..(Len(loglines') + 2) /\ loglines' \in Seq((-entry')..entry')
    BY <1>1, <1>2, <1>3, <1>7
  <2> QED
    BY <1>1, <1>8, <2>1 DEF IInv, TypeOK
<1>14. FileOK'
  BY <1>1, <1>4 DEF IInv, FileOK
<1>15. MemoryOK' /\ WritingOK'
  BY <1>1, <1>2, <1>3, <1>8, <1>11 DEF MemoryOK, WritingOK, lines, new
<1>16. FlushedOK'
  BY <1>1 DEF IInv, FlushedOK
<1>17. Complete'
  BY <1>1, <1>6, <1>12 DEF Complete
<1> QED
  BY <1>13, <1>14, <1>15, <1>16, <1>17 DEF IInv

LEMMA TrimForEverStep == ASSUME IInv, TrimForEver PROVE IInv'
BY DEF TrimForEver, IInv, TypeOK, FileOK, MemoryOK, Found, WritingOK, FlushedOK, Complete, Newest, Content

LEMMA OpenStep == ASSUME IInv, Open PROVE IInv'
<1>1. /\ up /\ pc = "open" /\ pc' = "writing" /\ file' = << >> /\ flushed' = 0
      /\ readable' = readable /\ up' = up /\ limit' = limit /\ entry' = entry /\ loglines' = loglines
      /\ damaged' = damaged /\ least' = least
  BY DEF Open
<1>2. entry \in Nat /\ limit \in Nat /\ Len(loglines) \in Nat
  BY Types
<1>3. TypeOK'
  <2>1. file' \in Seq((-entry')..entry') /\ flushed' \in 0..(Len(loglines') + 2)
    BY <1>1, <1>2, EmptySeq
  <2> QED
    BY <1>1, <2>1 DEF IInv, TypeOK
<1>4. FileOK'
  BY <1>1, NoLines DEF FileOK
<1>5. MemoryOK'
  BY <1>1 DEF IInv, MemoryOK
<1>6. WritingOK'
  <2>1. Len(file') = 0 /\ \A k \in 1..0 : FALSE
    BY <1>1
  <2> QED
    BY <1>1, <2>1 DEF WritingOK
<1>7. FlushedOK' /\ Complete'
  BY <1>1, <1>2 DEF IInv, FlushedOK, Complete
<1> QED
  BY <1>3, <1>4, <1>5, <1>6, <1>7 DEF IInv

LEMMA OpenFailsStep == ASSUME IInv, OpenFails PROVE IInv'
<1>1. /\ up /\ pc = "open" /\ pc' = "idle" /\ damaged' = TRUE
      /\ readable' = readable
      /\ up' = up /\ limit' = limit /\ entry' = entry /\ loglines' = loglines
      /\ flushed' = flushed /\ file' = file /\ least' = least
  BY DEF OpenFails
<1>2. Newest = entry - 1 /\ Newest' = entry /\ entry \in Nat
  BY <1>1, Types DEF Newest
<1>3. FileOK'
  <2>1. Lines(file) \in Seq(Int)
    BY Types, SeqMonotonic
  <2>2. Table(Lines(file), entry)
    BY <1>2, <2>1, LaterTable DEF IInv, FileOK
  <2> QED
    BY <1>1, <1>2, <2>2 DEF IInv, FileOK
<1>4. TypeOK'
  BY <1>1 DEF IInv, TypeOK
<1>5. MemoryOK' /\ WritingOK' /\ FlushedOK' /\ Complete'
  BY <1>1 DEF IInv, MemoryOK, WritingOK, FlushedOK, Complete
<1> QED
  BY <1>3, <1>4, <1>5 DEF IInv

LEMMA CrashStep == ASSUME IInv, Crash PROVE IInv'
<1>1. /\ up' = FALSE /\ damaged' = (damaged \/ pc # "idle") /\ readable' = readable
      /\ pc' = pc /\ limit' = limit /\ entry' = entry /\ loglines' = loglines
      /\ flushed' = flushed /\ file' = file /\ least' = least
  BY DEF Crash
<1>2. Newest' = Newest /\ Content' = Content /\ Found' = Found
  BY <1>1 DEF Newest, Content, Found
<1>3. TypeOK'
  BY <1>1 DEF IInv, TypeOK
<1>4. FileOK' /\ MemoryOK' /\ FlushedOK'
  BY <1>1, <1>2 DEF IInv, FileOK, MemoryOK, FlushedOK
<1>5. WritingOK'
  BY <1>1, <1>2 DEF IInv, WritingOK
<1>6. Complete'
  BY <1>1, <1>2 DEF IInv, Complete
<1> QED
  BY <1>3, <1>4, <1>5, <1>6 DEF IInv

LEMMA RestartStep == ASSUME IInv, Restart PROVE IInv'
<1>1. /\ ~up /\ up' = TRUE /\ pc' = "idle" /\ loglines' = << >> /\ flushed' = 0
      /\ limit' \in Limits /\ readable' = readable
      /\ entry' = entry /\ file' = file /\ damaged' = damaged /\ least' = least
  BY DEF Restart
<1>2. /\ Newest' = entry /\ entry \in Nat /\ Newest \in Int /\ Newest <= entry
      /\ limit' \in Nat /\ Len(Lines(file)) \in Nat
  BY <1>1, Types DEF Newest
<1>3. TypeOK'
  <2>1. loglines' \in Seq((-entry')..entry') /\ flushed' \in 0..(Len(loglines') + 2)
    BY <1>1, <1>2, EmptySeq
  <2> QED
    BY <1>1, <2>1 DEF IInv, TypeOK
<1>4. FileOK'
  <2>1. Lines(file) \in Seq(Int)
    BY Types, SeqMonotonic
  <2>2. Table(Lines(file), entry)
    BY <1>2, <2>1, LaterTable DEF IInv, FileOK
  <2> QED
    BY <1>1, <1>2, <2>2 DEF IInv, FileOK
<1>5. MemoryOK' /\ WritingOK' /\ FlushedOK'
  BY <1>1 DEF MemoryOK, WritingOK, FlushedOK
<1>6. Complete'
  <2>1. ~damaged => pc = "idle" /\ TailOf(Lines(file), Newest, least)
    BY <1>1 DEF IInv, Complete
  <2>2. pc = "idle" => Newest = entry
    BY DEF Newest
  <2> QED
    BY <1>1, <1>2, <2>1, <2>2 DEF Complete
<1> QED
  BY <1>3, <1>4, <1>5, <1>6 DEF IInv

(***************************************************************************)
(* Writing.                                                                *)
(***************************************************************************)
LEMMA WritingFacts ==
    ASSUME IInv, pc = "writing"
    PROVE  /\ TypeOK /\ entry > 0 /\ Table(loglines, entry - 1)
           /\ Len(loglines) < limit /\ least <= limit
           /\ Content \in Seq((-entry)..entry) /\ Len(Content) = Len(loglines) + 2
           /\ file \in Seq((-entry)..entry) /\ Len(file) = flushed /\ flushed # 1
           /\ \A k \in 1..flushed : file[k] = Content[k]
           /\ flushed \in Nat /\ flushed <= Len(Content) /\ Newest = entry
<1>1. /\ TypeOK /\ entry > 0 /\ Table(loglines, entry - 1)
      /\ Len(loglines) < limit /\ least <= limit
  BY DEF IInv, MemoryOK
<1>2. Content \in Seq((-entry)..entry) /\ Len(Content) = Len(loglines) + 2
  BY <1>1, ContentLines
<1>3. Len(loglines) \in Nat
  BY Types
<1>4. /\ file \in Seq((-entry)..entry) /\ Len(file) = flushed /\ flushed # 1
      /\ \A k \in 1..flushed : file[k] = Content[k]
  BY DEF IInv, TypeOK, WritingOK
<1>5. flushed \in Nat /\ flushed <= Len(Content)
  <2>1. flushed \in 0..(Len(loglines) + 2)
    BY DEF IInv, TypeOK
  <2> QED
    BY <1>2, <1>3, <2>1
<1>6. Newest = entry
  BY DEF Newest
<1> QED
  BY <1>1, <1>2, <1>4, <1>5, <1>6

(* A file that has been written so far, or ceased to be, keeps the         *)
(* invariant of the file.                                                  *)
LEMMA WrittenOK ==
    ASSUME IInv, pc = "writing", pc' \in {"writing", "idle"},
           UNCHANGED <<limit, entry, readable, loglines, least>>, up' \in BOOLEAN, damaged' \in BOOLEAN,
           Written(file'), flushed' \in Nat, flushed' <= Len(file'), flushed' <= Len(Content)
    PROVE  TypeOK' /\ FileOK' /\ MemoryOK' /\ FlushedOK'
<1>1. /\ TypeOK /\ entry > 0 /\ Table(loglines, entry - 1)
      /\ Len(loglines) < limit /\ least <= limit
      /\ Len(Content) = Len(loglines) + 2
  BY WritingFacts
<1>2. entry \in Nat /\ limit \in Nat /\ Len(loglines) \in Nat
  BY Types
<1>3. /\ HeaderFirst(file') /\ Table(Lines(file'), entry)
      /\ file' \in Seq((-entry)..entry) /\ Len(file') \in Nat
      /\ Len(Lines(file')) = IF Len(file') = 0 THEN 0 ELSE Len(file') - 1
  <2>1. Len(file') \in Nat
    BY DEF Written
  <2> QED
    BY <1>1, <2>1, WrittenIsTable
<1>4. TypeOK'
  <2>1. flushed' \in 0..(Len(loglines') + 2)
    BY <1>1, <1>2
  <2> QED
    BY <1>1, <1>3, <2>1 DEF TypeOK
<1>5. FileOK'
  <2>1. Newest' = entry
    BY DEF Newest
  <2> QED
    BY <1>3, <2>1 DEF FileOK
<1>6. MemoryOK'
  BY <1>1 DEF MemoryOK
<1>7. FlushedOK'
  BY DEF FlushedOK
<1> QED
  BY <1>4, <1>5, <1>6, <1>7

LEMMA WriteLineStep == ASSUME IInv, WriteLine PROVE IInv'
<1>1. /\ up /\ pc = "writing" /\ flushed < Len(Content)
      /\ file' = file \o SubSeq(Content, flushed + 1, ToFlush) /\ flushed' = ToFlush
      /\ up' = up /\ pc' = pc /\ limit' = limit /\ entry' = entry /\ loglines' = loglines
      /\ readable' = readable /\ damaged' = damaged /\ least' = least
  BY DEF WriteLine
<1>2. /\ Content \in Seq((-entry)..entry) /\ Len(Content) = Len(loglines) + 2
      /\ file \in Seq((-entry)..entry) /\ Len(file) = flushed /\ flushed # 1
      /\ \A k \in 1..flushed : file[k] = Content[k]
      /\ flushed \in Nat /\ Len(loglines) \in Nat
  BY <1>1, WritingFacts, Types
<1>3. ToFlush \in Nat /\ flushed <= ToFlush /\ ToFlush <= Len(Content) /\ ToFlush # 1
  BY <1>1, <1>2 DEF ToFlush
<1> HIDE DEF Content, ToFlush
<1>4. /\ file' \in Seq((-entry)..entry) /\ Len(file') = ToFlush
      /\ \A k \in 1..ToFlush : file'[k] = Content[k]
  <2> DEFINE S == (-entry)..entry
             longer == file \o SubSeq(Content, Len(file) + 1, ToFlush)
  <2>1. file' = longer
    BY <1>1, <1>2
  <2>2. /\ file \in Seq(S) /\ Content \in Seq(S) /\ Len(file) <= ToFlush
        /\ \A k \in 1..Len(file) : file[k] = Content[k]
    BY <1>2, <1>3
  <2>3. /\ longer \in Seq(S) /\ Len(longer) = ToFlush
        /\ \A k \in 1..ToFlush : longer[k] = Content[k]
    <3> HIDE DEF S
    <3> QED
      BY <1>3, <2>2, Extended
  <2> QED
    BY <2>1, <2>3
<1>5. Written(file')
  <2>1. file' \in Seq(Int)
    <3>1. (-entry)..entry \subseteq Int
      OBVIOUS
    <3> QED
      BY <1>4, <3>1, SeqMonotonic
  <2> QED
    BY <1>3, <1>4, <2>1 DEF Written
<1>6. TypeOK' /\ FileOK' /\ MemoryOK' /\ FlushedOK'
  BY <1>1, <1>3, <1>4, <1>5, WrittenOK DEF IInv, TypeOK
<1>7. Content' = Content
  BY <1>1 DEF Content
<1>8. WritingOK'
  BY <1>1, <1>3, <1>4, <1>7 DEF WritingOK
<1>9. Complete'
  BY <1>1 DEF IInv, Complete
<1> QED
  BY <1>6, <1>8, <1>9 DEF IInv

LEMMA WriteFailsStep ==
    ASSUME IInv, WriteFails
    PROVE  /\ IInv' /\ Written(file')
           /\ flushed <= Len(file') /\ Len(file') <= ToFlush
           /\ \A k \in 1..Len(file') :
                 file'[k] = Content[k] \/ (k = ToFlush /\ file'[k] = Torn(Content[k]))
<1> DEFINE S == (-entry)..entry
           complete == SubSeq(Content, Len(file) + 1, ToFlush - 1)
           torn == Torn(Content[ToFlush])
<1>1. /\ up /\ pc = "writing" /\ flushed < Len(Content) /\ pc' = "idle" /\ damaged' = TRUE
      /\ \/ file' = file
         \/ file' = file \o complete
         \/ file' = file \o Append(complete, torn)
      /\ up' = up /\ limit' = limit /\ entry' = entry /\ loglines' = loglines
      /\ flushed' = flushed /\ readable' = readable /\ least' = least
  BY WritingFacts DEF WriteFails
<1>2. /\ Content \in Seq(S) /\ Len(Content) = Len(loglines) + 2
      /\ file \in Seq(S) /\ Len(file) = flushed /\ flushed # 1
      /\ \A k \in 1..flushed : file[k] = Content[k]
      /\ flushed \in Nat /\ Len(loglines) \in Nat /\ entry \in Nat
  BY <1>1, WritingFacts, Types
<1>3. /\ ToFlush \in Nat /\ flushed < ToFlush /\ ToFlush <= Len(Content) /\ ToFlush > 1
  BY <1>1, <1>2 DEF ToFlush
<1>4. S \subseteq Int /\ torn \in S
  <2>1. Content[ToFlush] \in S
    <3>1. ToFlush \in 1..Len(Content)
      BY <1>2, <1>3
    <3> HIDE DEF S, Content, ToFlush
    <3> QED
      BY <1>2, <3>1, ElementOfSeq
  <2> QED
    BY <1>2, <2>1 DEF Torn
<1> HIDE DEF S, Content, ToFlush, torn
<1>5. /\ file \o complete \in Seq(S) /\ Len(file \o complete) = ToFlush - 1
      /\ \A k \in 1..(ToFlush - 1) : (file \o complete)[k] = Content[k]
  <2>1. PICK n \in Nat : n = ToFlush - 1
    BY <1>3
  <2>2. /\ file \in Seq(S) /\ Content \in Seq(S)
        /\ Len(file) <= n /\ n <= Len(Content) /\ \A k \in 1..Len(file) : file[k] = Content[k]
    BY <1>2, <1>3, <2>1
  <2>3. complete = SubSeq(Content, Len(file) + 1, n)
    BY <2>1
  <2>4. /\ file \o complete \in Seq(S) /\ Len(file \o complete) = n
        /\ \A k \in 1..n : (file \o complete)[k] = Content[k]
    <3> HIDE DEF complete
    <3> QED
      BY <2>2, <2>3, Extended
  <2> QED
    BY <2>1, <2>4
<1>7. /\ file \o Append(complete, torn) \in Seq(S)
      /\ Len(file \o Append(complete, torn)) = ToFlush
      /\ \A k \in 1..(ToFlush - 1) : (file \o Append(complete, torn))[k] = Content[k]
      /\ (file \o Append(complete, torn))[ToFlush] = torn
  <2>1. PICK n \in Nat : n = ToFlush
    BY <1>3
  <2>2. /\ file \in Seq(S) /\ Content \in Seq(S)
        /\ Len(file) < n /\ n <= Len(Content) /\ \A k \in 1..Len(file) : file[k] = Content[k]
    BY <1>2, <1>3, <2>1
  <2>3. complete = SubSeq(Content, Len(file) + 1, n - 1)
    BY <2>1
  <2>4. /\ file \o Append(complete, torn) \in Seq(S)
        /\ Len(file \o Append(complete, torn)) = n
        /\ \A k \in 1..(n - 1) : (file \o Append(complete, torn))[k] = Content[k]
        /\ (file \o Append(complete, torn))[n] = torn
    <3> HIDE DEF complete
    <3> QED
      BY <1>4, <2>2, <2>3, ExtendedTorn
  <2> QED
    BY <2>1, <2>4
<1>8. /\ file' \in Seq(S) /\ flushed <= Len(file') /\ Len(file') <= ToFlush
      /\ \A k \in 1..Len(file') :
            file'[k] = Content[k] \/ (k = ToFlush /\ file'[k] = torn)
  <2>1. CASE file' = file
    BY <1>2, <1>3, <2>1
  <2>2. CASE file' = file \o complete
    <3>1. /\ file' \in Seq(S) /\ Len(file') = ToFlush - 1
          /\ \A k \in 1..(ToFlush - 1) : file'[k] = Content[k]
      BY <1>5, <2>2
    <3> QED
      BY <1>2, <1>3, <3>1
  <2>3. CASE file' = file \o Append(complete, torn)
    <3>1. /\ file' \in Seq(S) /\ Len(file') = ToFlush
          /\ \A k \in 1..(ToFlush - 1) : file'[k] = Content[k]
          /\ file'[ToFlush] = torn
      BY <1>7, <2>3
    <3>2. \A k \in 1..ToFlush : k \in 1..(ToFlush - 1) \/ k = ToFlush
      BY <1>3
    <3> QED
      BY <1>2, <1>3, <3>1, <3>2
  <2> QED
    BY <1>1, <2>1, <2>2, <2>3
<1>9. Written(file')
  <2>1. file' \in Seq(Int) /\ Len(file') \in Nat
    <3>1. file' \in Seq(S) /\ S \subseteq Int
      BY <1>4, <1>8
    <3>2. file' \in Seq(Int)
      BY <3>1, SeqMonotonic
    <3> QED
      BY <3>2, LenProperties
  <2>2. \A k \in 1..Len(file') : k = ToFlush => k = Len(file') /\ k > 1
    BY <1>3, <1>8, <2>1
  <2> QED
    BY <1>3, <1>8, <2>1, <2>2 DEF Written, torn
<1>10. TypeOK' /\ FileOK' /\ MemoryOK' /\ FlushedOK'
  BY <1>1, <1>2, <1>8, <1>9, WrittenOK DEF IInv, TypeOK
<1>11. WritingOK' /\ Complete'
  BY <1>1 DEF WritingOK, Complete
<1> QED
  BY <1>8, <1>9, <1>10, <1>11 DEF IInv, torn

LEMMA CloseStep ==
    ASSUME IInv, Close
    PROVE  /\ IInv'
           /\ Len(Lines(file)) = Len(loglines) + 1
           /\ \A k \in 1..Len(loglines) : Lines(file)[k] = loglines[k]
           /\ Lines(file)[Len(loglines) + 1] = entry
<1>1. /\ up /\ pc = "writing" /\ flushed = Len(Content) /\ pc' = "idle"
      /\ up' = up /\ limit' = limit /\ entry' = entry /\ loglines' = loglines
      /\ flushed' = flushed /\ file' = file /\ damaged' = damaged /\ least' = least
      /\ readable' = readable
  BY DEF Close
<1>2. /\ TypeOK /\ entry > 0 /\ Table(loglines, entry - 1)
      /\ Content \in Seq((-entry)..entry) /\ Len(Content) = Len(loglines) + 2
      /\ file \in Seq((-entry)..entry) /\ Len(file) = flushed
      /\ \A k \in 1..flushed : file[k] = Content[k]
      /\ flushed \in Nat /\ Len(loglines) \in Nat /\ entry \in Nat /\ least \in Nat
  BY <1>1, WritingFacts, Types
<1>3. /\ Content[1] = Header
      /\ \A k \in 1..Len(loglines) : Content[k + 1] = loglines[k]
      /\ Content[Len(loglines) + 2] = entry
  BY <1>2, ContentLines
<1> HIDE DEF Content
<1>4. Written(file)
  <2>1. (-entry)..entry \subseteq Int
    OBVIOUS
  <2>2. file \in Seq(Int)
    BY <1>2, <2>1, SeqMonotonic
  <2> QED
    BY <1>1, <1>2, <2>2 DEF Written
<1>5. /\ Len(Lines(file)) = IF Len(file) = 0 THEN 0 ELSE Len(file) - 1
      /\ \A k \in 1..(Len(file) - 1) : k \in DOMAIN Lines(file) /\ Lines(file)[k] = file[k + 1]
  BY <1>2, <1>4, WrittenIsTable
<1>6. Len(Lines(file)) = Len(loglines) + 1
  BY <1>1, <1>2, <1>5
<1>7. \A k \in 1..(Len(loglines) + 1) : Lines(file)[k] = Content[k + 1]
  <2> TAKE k \in 1..(Len(loglines) + 1)
  <2>1. k \in 1..(Len(file) - 1) /\ k + 1 \in 1..flushed
    BY <1>1, <1>2
  <2> QED
    BY <1>2, <1>5, <2>1
<1>8. /\ \A k \in 1..Len(loglines) : Lines(file)[k] = loglines[k]
      /\ Lines(file)[Len(loglines) + 1] = entry
  <2>1. \A k \in 1..Len(loglines) : k \in 1..(Len(loglines) + 1)
    BY <1>2
  <2>2. Len(loglines) + 1 \in 1..(Len(loglines) + 1) /\ (Len(loglines) + 1) + 1 = Len(loglines) + 2
    BY <1>2
  <2> QED
    BY <1>3, <1>7, <2>1, <2>2
<1>9. TypeOK' /\ FileOK' /\ MemoryOK' /\ FlushedOK'
  BY <1>1, <1>2, <1>4, WrittenOK DEF IInv, TypeOK
<1>10. WritingOK'
  BY <1>1 DEF WritingOK
<1>11. Complete'
  <2> SUFFICES ASSUME ~damaged PROVE TailOf(Lines(file), entry, least)
    BY <1>1 DEF Complete, Newest
  <2>1. /\ \A k \in 1..Len(loglines) : loglines[k] = entry - 1 - Len(loglines) + k
        /\ Len(loglines) = entry - 1 \/ Len(loglines) >= least - 1
    <3>1. TailOf(loglines, entry - 1, least - 1)
      BY <1>1 DEF IInv, Complete
    <3>2. DOMAIN loglines = 1..Len(loglines)
      BY <1>2 DEF TypeOK
    <3> QED
      BY <3>1, <3>2 DEF TailOf
  <2>2. Len(Lines(file)) = entry \/ Len(Lines(file)) >= least
    BY <1>2, <1>6, <2>1
  <2>3. ASSUME NEW k \in 1..(Len(loglines) + 1)
        PROVE  Lines(file)[k] = entry - (Len(loglines) + 1) + k
    <3>1. CASE k \in 1..Len(loglines)
      <4>1. entry - 1 - Len(loglines) + k = entry - (Len(loglines) + 1) + k
        BY <1>2
      <4> QED
        BY <1>8, <2>1, <3>1, <4>1
    <3>2. CASE k = Len(loglines) + 1
      <4>1. entry = entry - (Len(loglines) + 1) + (Len(loglines) + 1)
        BY <1>2
      <4> QED
        BY <1>8, <3>2, <4>1
    <3>3. k \in 1..Len(loglines) \/ k = Len(loglines) + 1
      <4>1. Len(loglines) \in Nat
        BY <1>2
      <4> QED
        BY <4>1
    <3> QED
      BY <3>1, <3>2, <3>3
  <2>4. DOMAIN Lines(file) = 1..(Len(loglines) + 1)
    <3>1. Lines(file) \in Seq((-entry)..entry)
      BY Types
    <3> QED
      BY <1>6, <3>1, LenProperties
  <2> QED
    BY <1>6, <2>2, <2>3, <2>4 DEF TailOf
<1> QED
  BY <1>6, <1>8, <1>9, <1>10, <1>11 DEF IInv

LEMMA NextInvariant == IInv /\ [Next]_vars => IInv'
<1> SUFFICES ASSUME IInv, [Next]_vars PROVE IInv'
  OBVIOUS
<1>1. CASE UNCHANGED vars
  BY <1>1 DEF vars, IInv, TypeOK, FileOK, MemoryOK, Found, WritingOK, FlushedOK, Complete, Newest, Content
<1> QED
  BY <1>1, StartWriteStep, ReadStep, ReadFailsStep, TrimStep, TrimForEverStep, OpenStep, OpenFailsStep,
     WriteLineStep, WriteFailsStep, CloseStep, CrashStep, RestartStep DEF Next

(* The inductive invariant holds in every reachable state.                 *)
THEOREM Invariance == Spec => []IInv
BY InitInvariant, NextInvariant, PTL DEF Spec

-----------------------------------------------------------------------------
(***************************************************************************)
(* The invariants of the runs.                                             *)
(***************************************************************************)

(* The state of write() and the lines of the file keep their types.        *)
THEOREM TypeCorrect == Spec => []TypeOK
<1>1. IInv => TypeOK
  BY DEF IInv
<1> QED
  BY <1>1, Invariance, PTL

(* For all limits: while no entry was lost the file holds the newest ones, *)
(* without a gap, as many as the least limit allows.                       *)
THEOREM TailIsKept == Spec => []FileIsTail
<1>1. ASSUME IInv PROVE FileIsTail
  <2> SUFFICES ASSUME pc = "idle", ~damaged
               PROVE  /\ Lines(file) = [k \in 1..Len(Lines(file)) |-> entry - Len(Lines(file)) + k]
                      /\ Len(Lines(file)) = entry \/ Len(Lines(file)) >= least
    BY DEF FileIsTail
  <2>1. TailOf(Lines(file), entry, least)
    BY <1>1 DEF IInv, Complete, Newest
  <2>2. Lines(file) \in Seq((-entry)..entry)
    BY <1>1, Types
  <2>3. Lines(file) = [k \in 1..Len(Lines(file)) |-> Lines(file)[k]]
    BY <2>2
  <2> QED
    BY <2>1, <2>3 DEF TailOf
<1> QED
  BY <1>1, Invariance, PTL

(* Whatever fails or stops, and however the limit changes: the header is   *)
(* the first line only, the entries are in order and none is there twice.  *)
THEOREM FileStaysATable == Spec => []IsTable
<1>1. IInv => IsTable
  BY DEF IInv, FileOK, HeaderFirst, Table, IsTable
<1> QED
  BY <1>1, Invariance, PTL

-----------------------------------------------------------------------------
(***************************************************************************)
(* The limit.                                                              *)
(***************************************************************************)

(* A file that has just been written has no more lines than the limit,     *)
(* even if an earlier configuration allowed more.                          *)
RespectsLimit ==
    [][pc = "writing" /\ pc' = "idle" => Len(Lines(file')) <= limit]_vars

(* Whether write() ends well, ends with a full disk or is cut off and the  *)
(* program starts again: the file it wrote respects the limit it wrote by. *)
THEOREM LimitIsRespected == Spec => RespectsLimit
<1>1. ASSUME IInv, [Next]_vars
      PROVE  [pc = "writing" /\ pc' = "idle" => Len(Lines(file')) <= limit]_vars
  <2> SUFFICES ASSUME Next, pc = "writing", pc' = "idle" PROVE Len(Lines(file')) <= limit
    BY <1>1
  <2>1. WriteFails \/ Close \/ Restart
    BY DEF Next, StartWrite, Read, ReadFails, Trim, TrimForEver, Open, OpenFails, WriteLine, Crash
  <2>2. /\ Len(loglines) < limit /\ Len(Content) = Len(loglines) + 2
        /\ TypeOK /\ entry > 0 /\ Table(loglines, entry - 1)
        /\ Len(file) = flushed /\ flushed <= Len(Content) /\ flushed \in Nat
        /\ Len(loglines) \in Nat /\ limit \in Nat
    BY <1>1, WritingFacts, Types
  <2>3. CASE WriteFails
    <3>1. Written(file')
      BY <1>1, <2>3, WriteFailsStep
    <3>2. Len(file') \in Nat /\ Len(file') <= Len(Content)
      BY <3>1 DEF Written
    <3>3. Len(Lines(file')) = IF Len(file') = 0 THEN 0 ELSE Len(file') - 1
      BY <2>2, <3>1, WrittenIsTable
    <3> QED
      BY <2>2, <3>2, <3>3
  <2>4. CASE Close
    <3>1. Len(Lines(file)) = Len(loglines) + 1 /\ file' = file
      BY <1>1, <2>4, CloseStep DEF Close
    <3> QED
      BY <2>2, <3>1
  <2>5. CASE Restart
    <3>1. file' = file
      BY <2>5 DEF Restart
    <3>2. Len(Lines(file)) = IF Len(file) = 0 THEN 0 ELSE Len(file) - 1
      BY <1>1, Types
    <3> QED
      BY <2>2, <3>1, <3>2
  <2> QED
    BY <2>1, <2>3, <2>4, <2>5
<1> QED
  BY <1>1, Invariance, PTL DEF Spec, RespectsLimit

-----------------------------------------------------------------------------
(***************************************************************************)
(* The file implements the list of module EntryLog.                        *)
(***************************************************************************)
log == IF logInMemory THEN loglines \o <<entry>> ELSE Lines(file)

LEMMA EndOfSeq ==
    ASSUME NEW S, NEW s \in Seq(S), NEW m \in 1..(Len(s) + 1)
    PROVE  /\ SubSeq(s, m, Len(s)) \in Seq(S)
           /\ Len(SubSeq(s, m, Len(s))) = Len(s) - m + 1
           /\ \A k \in 1..(Len(s) - m + 1) : SubSeq(s, m, Len(s))[k] = s[k + m - 1]
OBVIOUS

LEMMA ListInMemory ==
    ASSUME IInv
    PROVE  /\ loglines \o <<entry>> \in Seq(Int)
           /\ Len(loglines \o <<entry>>) = Len(loglines) + 1
           /\ \A k \in 1..Len(loglines) : (loglines \o <<entry>>)[k] = loglines[k]
           /\ (loglines \o <<entry>>)[Len(loglines) + 1] = entry
<1>1. loglines \in Seq(Int) /\ entry \in Int
  <2>1. loglines \in Seq((-entry)..entry) /\ entry \in Nat
    BY Types
  <2>2. (-entry)..entry \subseteq Int
    OBVIOUS
  <2> QED
    BY <2>1, <2>2, SeqMonotonic
<1> QED
  BY <1>1

(* Emptying the file is the step in which the list gets its new entry, and *)
(* loses the lines there is no room for.                                   *)
LEMMA OpenAdds == ASSUME IInv, Open, readable PROVE TheLog!AddEntry
<1> DEFINE lines == Lines(file)
           new == loglines \o <<entry>>
           first == Len(lines) - Len(loglines) + 1
<1>1. /\ up /\ pc = "open" /\ up' = up /\ pc' = "writing" /\ limit' = limit
      /\ readable' = readable /\ loglines' = loglines /\ entry' = entry
  BY DEF Open
<1>2. log = lines /\ log' = new
  BY <1>1 DEF log, logInMemory
<1>3. /\ entry \in Nat /\ entry > 0 /\ limit \in Nat /\ Len(loglines) < limit
      /\ loglines = WithoutOld(lines, limit) /\ Newest = entry - 1
  BY <1>1, Types DEF IInv, MemoryOK, Found, Newest
<1>4. lines \in Seq(Int) /\ Len(lines) \in Nat /\ Len(loglines) \in Nat
  <2>1. lines \in Seq((-entry)..entry) /\ (-entry)..entry \subseteq Int
    BY Types
  <2> QED
    BY <2>1, Types, SeqMonotonic
<1>5. Table(lines, entry - 1)
  BY <1>3 DEF IInv, FileOK
<1>6. /\ new \in Seq(Int) /\ Len(new) = Len(loglines) + 1
      /\ \A k \in 1..Len(loglines) : new[k] = loglines[k]
      /\ new[Len(loglines) + 1] = entry
  BY ListInMemory
<1> HIDE DEF lines, new
<1>7. /\ Len(loglines) = IF Len(lines) >= limit THEN limit - 1 ELSE Len(lines)
      /\ \A k \in 1..Len(loglines) : loglines[k] = lines[k + (Len(lines) - Len(loglines))]
  <2>1. limit \in Nat \ {0}
    BY <1>3, <1>4
  <2> QED
    BY <1>3, <1>4, <2>1, NewestRemain
<1>8. /\ first \in 1..(Len(lines) + 1)
      /\ first > 1 => Len(new) = limit
      /\ Len(new) <= limit
  <2>1. Len(lines) >= limit => Len(loglines) = limit - 1 /\ Len(loglines) < Len(lines)
    BY <1>3, <1>4, <1>7
  <2>2. ~(Len(lines) >= limit) => Len(loglines) = Len(lines) /\ first = 1
    BY <1>3, <1>4, <1>7
  <2>3. Len(loglines) <= Len(lines)
    BY <1>3, <1>4, <2>1, <2>2
  <2>4. first \in 1..(Len(lines) + 1)
    BY <1>4, <2>3
  <2>5. first > 1 => Len(new) = limit
    BY <1>3, <1>6, <2>1, <2>2
  <2>6. Len(new) <= limit
    BY <1>3, <1>4, <1>6
  <2> QED
    BY <2>4, <2>5, <2>6
<1>9. /\ SubSeq(lines, first, Len(lines)) \in Seq(Int)
      /\ Len(SubSeq(lines, first, Len(lines))) = Len(loglines)
      /\ \A k \in 1..Len(loglines) : SubSeq(lines, first, Len(lines))[k] = loglines[k]
  <2>1. PICK m \in 1..(Len(lines) + 1) : m = first
    BY <1>8
  <2>2. m \in 1..(Len(lines) + 1) /\ Len(lines) - m + 1 = Len(loglines)
    BY <1>4, <1>8, <2>1
  <2>3. /\ SubSeq(lines, m, Len(lines)) \in Seq(Int)
        /\ Len(SubSeq(lines, m, Len(lines))) = Len(lines) - m + 1
        /\ \A k \in 1..(Len(lines) - m + 1) : SubSeq(lines, m, Len(lines))[k] = lines[k + m - 1]
    BY <1>4, EndOfSeq
  <2>4. \A k \in 1..Len(loglines) : k + m - 1 = k + (Len(lines) - Len(loglines))
    BY <1>4, <2>1
  <2> QED
    BY <1>7, <2>1, <2>2, <2>3, <2>4
<1>10. new = Append(SubSeq(lines, first, Len(lines)), entry)
  <2> DEFINE kept == SubSeq(lines, first, Len(lines))
  <2>1. kept \in Seq(Int) /\ Len(kept) = Len(loglines) /\ \A k \in 1..Len(loglines) : kept[k] = loglines[k]
    BY <1>9
  <2> HIDE DEF kept
  <2>2. /\ Append(kept, entry) \in Seq(Int) /\ Len(Append(kept, entry)) = Len(loglines) + 1
        /\ \A k \in 1..Len(loglines) : Append(kept, entry)[k] = loglines[k]
        /\ Append(kept, entry)[Len(loglines) + 1] = entry
    BY <1>3, <2>1
  <2>3. \A k \in 1..(Len(loglines) + 1) : k \in 1..Len(loglines) \/ k = Len(loglines) + 1
    BY <1>4
  <2>4. \A k \in 1..(Len(loglines) + 1) : new[k] = Append(kept, entry)[k]
    BY <1>6, <2>2, <2>3
  <2>5. new = Append(kept, entry)
    BY <1>6, <2>2, <2>4
  <2> QED
    BY <2>5 DEF kept
<1>11. new # << >> /\ new[Len(new)] = entry
  BY <1>4, <1>6
<1>12. \A k \in DOMAIN lines : TheLog!Entry(lines[k]) < entry
  <2> TAKE k \in DOMAIN lines
  <2>1. lines[k] \in Int /\ Entry(lines[k]) <= entry - 1
    BY <1>4, <1>5 DEF Table
  <2> QED
    BY <1>3, <2>1 DEF Entry, TheLog!Entry
<1>13. /\ log' # << >>
       /\ LET last == log'[Len(log')]
          IN  /\ last > 0
              /\ \A k \in DOMAIN log : TheLog!Entry(log[k]) < last
              /\ \E f \in 1..(Len(log) + 1) :
                    /\ log' = Append(SubSeq(log, f, Len(log)), last)
                    /\ f > 1 => Len(log') = limit
       /\ Len(log') <= limit
  <2> HIDE DEF first
  <2>1. entry > 0 /\ \E f \in 1..(Len(lines) + 1) :
            /\ new = Append(SubSeq(lines, f, Len(lines)), entry)
            /\ f > 1 => Len(new) = limit
    BY <1>3, <1>8, <1>10
  <2> QED
    BY <1>2, <1>8, <1>11, <1>12, <2>1
<1> QED
  BY <1>1, <1>13 DEF TheLog!AddEntry, log

(* If the old lines could not be read, it leaves the new entry only.       *)
LEMMA OpenStartsOver == ASSUME IInv, Open, ~readable PROVE TheLog!StartOver
<1>1. /\ up /\ pc = "open" /\ up' = up /\ pc' = "writing" /\ limit' = limit
      /\ readable' = readable /\ loglines' = loglines /\ entry' = entry
  BY DEF Open
<1>2. /\ entry \in Nat /\ entry > 0 /\ limit \in Nat /\ Len(loglines) < limit
      /\ Len(loglines) \in Nat /\ loglines = WithoutOld(<< >>, limit) /\ Newest = entry - 1
  BY <1>1, Types DEF IInv, MemoryOK, Found, Newest
<1>3. limit > 0 /\ loglines = << >>
  <2>1. limit > 0
    BY <1>2
  <2>2. ~(Len(<< >>) >= limit)
    BY <1>2, <2>1
  <2> QED
    BY <1>2, <2>1, <2>2 DEF WithoutOld
<1>4. log = Lines(file) /\ log' = <<entry>>
  BY <1>1, <1>3 DEF log, logInMemory
<1>5. \A k \in DOMAIN log : TheLog!Entry(log[k]) < entry
  <2>1. Table(Lines(file), entry - 1) /\ Lines(file) \in Seq(Int)
    BY <1>2, Types, SeqMonotonic DEF IInv, FileOK
  <2> TAKE k \in DOMAIN log
  <2>2. log[k] \in Int /\ Entry(log[k]) <= entry - 1
    BY <1>4, <2>1 DEF Table
  <2> QED
    BY <1>2, <2>2 DEF Entry, TheLog!Entry
<1>6. log' # << >> /\ log'[1] = entry
  BY <1>4
<1> QED
  BY <1>1, <1>2, <1>3, <1>4, <1>5, <1>6 DEF TheLog!StartOver, log

(* What a full disk or the end of the program leaves is the beginning of   *)
(* the list, with a last line that may be torn.                            *)
LEMMA BeginningRemains ==
    ASSUME NEW s \in Seq(Int), NEW r \in Seq(Int), Len(r) <= Len(s),
           \A k \in 1..Len(r) : r[k] = s[k] \/ (k = Len(r) /\ r[k] = Torn(s[k]))
    PROVE  \E k \in 0..Len(s) :
              \/ r = SubSeq(s, 1, k)
              \/ k > 0 /\ r = [SubSeq(s, 1, k) EXCEPT ![k] = TheLog!Torn(@)]
<1>1. PICK n \in Nat : n = Len(r) /\ n \in 0..Len(s)
  BY LenProperties
<1> DEFINE part == SubSeq(s, 1, n)
<1>2. part \in Seq(Int) /\ Len(part) = n /\ \A k \in 1..n : part[k] = s[k]
  BY <1>1
<1> HIDE DEF part
<1>3. CASE \A k \in 1..n : r[k] = s[k]
  <2>1. r = part
    BY <1>1, <1>2, <1>3
  <2> QED
    BY <1>1, <2>1 DEF part
<1>4. CASE n > 0 /\ r[n] = Torn(s[n])
  <2> DEFINE torn == [part EXCEPT ![n] = TheLog!Torn(@)]
  <2>1. n \in 1..n /\ TheLog!Torn(s[n]) = Torn(s[n]) /\ Torn(s[n]) \in Int
    BY <1>1, <1>4, ElementOfSeq DEF Torn, TheLog!Torn
  <2>2. torn \in Seq(Int) /\ Len(torn) = n /\ torn[n] = Torn(s[n])
        /\ \A k \in 1..n : k # n => torn[k] = s[k]
    BY <1>2, <2>1
  <2>3. \A k \in 1..n : r[k] = torn[k]
    BY <1>1, <1>4, <2>2
  <2>4. r = torn
    <3> HIDE DEF torn
    <3> QED
      BY <1>1, <2>2, <2>3, SeqEqual
  <2> QED
    BY <1>1, <1>4, <2>4 DEF part
<1>5. (\A k \in 1..n : r[k] = s[k]) \/ (n > 0 /\ r[n] = Torn(s[n]))
  <2>1. ASSUME NEW k \in 1..n, r[k] # s[k] PROVE n > 0 /\ r[n] = Torn(s[n])
    BY <1>1, <2>1
  <2> QED
    BY <2>1
<1> QED
  BY <1>3, <1>4, <1>5

ListRemains(f) ==
    \E k \in 0..Len(loglines \o <<entry>>) :
       \/ Lines(f) = SubSeq(loglines \o <<entry>>, 1, k)
       \/ k > 0 /\ Lines(f) = [SubSeq(loglines \o <<entry>>, 1, k) EXCEPT ![k] = TheLog!Torn(@)]

LEMMA WrittenRemains ==
    ASSUME IInv, pc = "writing", NEW f, Written(f)
    PROVE  ListRemains(f)
<1> DEFINE new == loglines \o <<entry>>
<1>1. /\ TypeOK /\ entry > 0 /\ Table(loglines, entry - 1) /\ entry \in Nat
      /\ Len(Content) = Len(loglines) + 2 /\ Len(loglines) \in Nat
  BY WritingFacts, Types
<1>2. /\ f \in Seq((-entry)..entry)
      /\ HeaderFirst(f)
      /\ Len(Lines(f)) = IF Len(f) = 0 THEN 0 ELSE Len(f) - 1
      /\ \A k \in 1..(Len(f) - 1) : k \in DOMAIN Lines(f) /\ Lines(f)[k] = f[k + 1]
  BY <1>1, WrittenIsTable
<1>3. /\ f \in Seq(Int) /\ Len(f) \in Nat /\ Len(f) <= Len(Content)
      /\ \A k \in 1..Len(f) :
            f[k] = Content[k] \/ (k = Len(f) /\ k > 1 /\ f[k] = Torn(Content[k]))
  BY DEF Written
<1>4. /\ new \in Seq(Int) /\ Len(new) = Len(loglines) + 1
      /\ \A k \in 1..Len(loglines) : new[k] = loglines[k]
      /\ new[Len(loglines) + 1] = entry
  BY ListInMemory
<1>5. /\ \A k \in 1..Len(loglines) : Content[k + 1] = loglines[k]
      /\ Content[Len(loglines) + 2] = entry
  BY <1>1, ContentLines
<1> HIDE DEF new, Content
<1>6. \A k \in 1..(Len(loglines) + 1) : new[k] = Content[k + 1]
  <2> TAKE k \in 1..(Len(loglines) + 1)
  <2>1. k \in 1..Len(loglines) \/ (k = Len(loglines) + 1 /\ k + 1 = Len(loglines) + 2)
    BY <1>1
  <2> QED
    BY <1>4, <1>5, <2>1
<1>7. Lines(f) \in Seq(Int)
  <2>1. Lines(f) = [k \in 1..(Len(f) - 1) |-> f[k + 1]]
    BY <1>2, <1>3, LinesAreRest DEF Rest
  <2>2. CASE Len(f) = 0
    <3>1. Lines(f) = << >>
      BY <2>1, <2>2
    <3> QED
      BY <3>1, NoLines
  <2>3. CASE Len(f) # 0
    <3>1. PICK n \in Nat : n = Len(f) - 1
      BY <1>3, <2>3
    <3>2. \A k \in 1..n : k + 1 \in 1..Len(f)
      BY <1>3, <3>1
    <3>3. \A k \in 1..n : f[k + 1] \in Int
      BY <1>3, <3>2, ElementOfSeq
    <3>4. [k \in 1..n |-> f[k + 1]] \in [1..n -> Int]
      BY <3>3
    <3> QED
      BY <2>1, <3>1, <3>4, FunctionIsSeq
  <2> QED
    BY <2>2, <2>3
<1>8. ASSUME NEW k \in 1..Len(Lines(f))
      PROVE  Lines(f)[k] = new[k] \/ (k = Len(Lines(f)) /\ Lines(f)[k] = Torn(new[k]))
  <2>1. /\ Len(Lines(f)) = Len(f) - 1 /\ k \in 1..(Len(f) - 1) /\ k + 1 \in 1..Len(f)
        /\ k \in 1..(Len(loglines) + 1)
    BY <1>1, <1>2, <1>3
  <2>2. Lines(f)[k] = f[k + 1] /\ new[k] = Content[k + 1]
    BY <1>2, <1>6, <2>1
  <2>3. f[k + 1] = Content[k + 1] \/ (k + 1 = Len(f) /\ f[k + 1] = Torn(Content[k + 1]))
    BY <1>3, <2>1
  <2>4. k + 1 = Len(f) => k = Len(Lines(f))
    BY <1>3, <2>1
  <2> QED
    BY <2>2, <2>3, <2>4
<1>9. Len(Lines(f)) <= Len(new)
  BY <1>1, <1>2, <1>3, <1>4
<1>10. \E k \in 0..Len(new) :
          \/ Lines(f) = SubSeq(new, 1, k)
          \/ k > 0 /\ Lines(f) = [SubSeq(new, 1, k) EXCEPT ![k] = TheLog!Torn(@)]
  BY <1>4, <1>7, <1>8, <1>9, BeginningRemains
<1> QED
  BY <1>10 DEF ListRemains, new

LEMMA CrashLoses ==
    ASSUME IInv, Crash
    PROVE  TheLog!LoseEnd \/ (log' = log /\ limit' = limit /\ readable' = readable)
<1>1. /\ up /\ up' = FALSE /\ pc' = pc /\ limit' = limit /\ entry' = entry
      /\ readable' = readable
      /\ loglines' = loglines /\ flushed' = flushed /\ file' = file
  BY DEF Crash
<1>2. log' = Lines(file)
  BY <1>1 DEF log, logInMemory
<1>3. CASE pc # "writing"
  BY <1>1, <1>2, <1>3 DEF log, logInMemory
<1>4. CASE pc = "writing"
  <2>1. log = loglines \o <<entry>>
    BY <1>1, <1>4 DEF log, logInMemory
  <2>2. Written(file) /\ \A k \in 1..Len(file) : file[k] = Content[k]
    <3>1. /\ Len(file) = flushed /\ flushed <= Len(Content) /\ \A k \in 1..flushed : file[k] = Content[k]
      BY <1>4, WritingFacts
    <3>2. file \in Seq(Int)
      BY Types
    <3> QED
      BY <3>1, <3>2 DEF Written
  <2>3. ListRemains(file)
    BY <1>4, <2>2, WrittenRemains
  <2> QED
    BY <1>1, <1>2, <2>1, <2>3 DEF ListRemains, TheLog!LoseEnd, log
<1> QED
  BY <1>3, <1>4

LEMMA WriteFailsLoses == ASSUME IInv, WriteFails PROVE TheLog!LoseEnd
<1>1. /\ up /\ pc = "writing" /\ pc' = "idle" /\ limit' = limit /\ readable' = readable
  BY DEF WriteFails
<1>2. log = loglines \o <<entry>> /\ log' = Lines(file')
  BY <1>1 DEF log, logInMemory
<1>3. ListRemains(file')
  BY <1>1, WriteFailsStep, WrittenRemains
<1> QED
  BY <1>1, <1>2, <1>3 DEF ListRemains, TheLog!LoseEnd, log

LEMMA CloseKeeps == ASSUME IInv, Close PROVE log' = log /\ limit' = limit /\ readable' = readable
<1>1. /\ up /\ pc = "writing" /\ pc' = "idle" /\ limit' = limit /\ file' = file
      /\ readable' = readable
  BY DEF Close
<1>2. log = loglines \o <<entry>> /\ log' = Lines(file)
  BY <1>1 DEF log, logInMemory
<1>3. /\ Len(Lines(file)) = Len(loglines) + 1
      /\ \A k \in 1..Len(loglines) : Lines(file)[k] = loglines[k]
      /\ Lines(file)[Len(loglines) + 1] = entry
  BY CloseStep
<1>4. Len(loglines) \in Nat /\ Lines(file) \in Seq(Int)
  <2>1. Lines(file) \in Seq((-entry)..entry) /\ (-entry)..entry \subseteq Int
    BY Types
  <2> QED
    BY <2>1, Types, SeqMonotonic
<1> DEFINE new == loglines \o <<entry>>
<1>5. /\ new \in Seq(Int) /\ Len(new) = Len(loglines) + 1
      /\ \A k \in 1..Len(loglines) : new[k] = loglines[k]
      /\ new[Len(loglines) + 1] = entry
  BY ListInMemory
<1> HIDE DEF new
<1>6. \A k \in 1..(Len(loglines) + 1) : k \in 1..Len(loglines) \/ k = Len(loglines) + 1
  BY <1>4
<1>7. \A k \in 1..Len(new) : new[k] = Lines(file)[k]
  BY <1>3, <1>5, <1>6
<1>8. new = Lines(file)
  BY <1>3, <1>4, <1>5, <1>7, SeqEqual
<1> QED
  BY <1>1, <1>2, <1>8 DEF new

(* The file implements the list: emptying it adds the entry and drops the  *)
(* oldest lines, or all of them if they could not be read, a fault or the  *)
(* end of the program while it is written costs lines at the end, a        *)
(* restart may change the limit, and no other step changes the list.       *)
THEOREM FileImplementsTheLog == Spec => KeepsTheLog
<1>1. Init => TheLog!Init
  <2> SUFFICES ASSUME Init PROVE log = << >> /\ limit \in Nat /\ readable = TRUE
    BY DEF TheLog!Init, log
  <2> QED
    BY NoLines, LogbookFileAssumption DEF Init, log, logInMemory
<1>2. ASSUME IInv, [Next]_vars PROVE TheLog!Next \/ UNCHANGED <<log, limit, readable>>
  <2>1. CASE UNCHANGED vars
    BY <2>1 DEF vars, log, logInMemory
  <2>2. CASE StartWrite \/ Read \/ ReadFails \/ Trim \/ TrimForEver \/ OpenFails
    <3>1. /\ pc # "writing" /\ file' = file /\ limit' = limit /\ (pc' # "writing" \/ ~up')
          /\ readable' \in BOOLEAN
      BY <1>2, <2>2 DEF StartWrite, Read, ReadFails, Trim, TrimForEver, OpenFails, IInv, TypeOK
    <3>2. log' = log
      BY <3>1 DEF log, logInMemory
    <3> QED
      BY <3>1, <3>2 DEF TheLog!Next, TheLog!TryToRead, log
  <2>3. CASE Open
    BY <1>2, <2>3, OpenAdds, OpenStartsOver DEF TheLog!Next
  <2>4. CASE WriteLine
    <3>1. /\ up /\ up' = up /\ pc = "writing" /\ pc' = pc /\ limit' = limit
          /\ readable' = readable /\ loglines' = loglines /\ entry' = entry
      BY <2>4 DEF WriteLine
    <3> QED
      BY <3>1 DEF log, logInMemory
  <2>5. CASE WriteFails
    BY <1>2, <2>5, WriteFailsLoses DEF TheLog!Next
  <2>6. CASE Close
    BY <1>2, <2>6, CloseKeeps
  <2>7. CASE Crash
    BY <1>2, <2>7, CrashLoses DEF TheLog!Next
  <2>8. CASE Restart
    <3>1. ~up /\ pc' = "idle" /\ file' = file /\ limit' \in Nat /\ readable' = readable
      BY <2>8, LogbookFileAssumption DEF Restart
    <3>2. log' = log
      BY <3>1 DEF log, logInMemory
    <3> QED
      BY <3>1, <3>2 DEF TheLog!Next, TheLog!NewLimit, log
  <2> QED
    BY <1>2, <2>1, <2>2, <2>3, <2>4, <2>5, <2>6, <2>7, <2>8 DEF Next
<1>3. ASSUME IInv, [Next]_vars
      PROVE  [TheLog!Next]_<<IF logInMemory THEN loglines \o <<entry>> ELSE Lines(file), limit, readable>>
  BY <1>2, <1>3 DEF log
<1> QED
  BY <1>1, <1>3, Invariance, PTL DEF Spec, KeepsTheLog, TheLog!Spec

=============================================================================
