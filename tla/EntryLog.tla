------------------------------ MODULE EntryLog ------------------------------
(***************************************************************************)
(* What a logbook file promises: a list of lines in the order of their     *)
(* entries.  A new entry goes to the end and may push out lines at the     *)
(* front, never more than it takes to respect the limit.  What goes wrong  *)
(* costs lines at the end only, the last of which may be torn, except      *)
(* that an entry starts the list over when the old ones cannot be read.    *)
(* A line is the number of its entry, negative when the line is torn.      *)
(***************************************************************************)
EXTENDS Integers, Sequences

VARIABLES log, limit, readable

Torn(l)  == IF l > 0 THEN -l ELSE l
Entry(l) == IF l > 0 THEN l ELSE -l

Init == log = <<>> /\ limit \in Nat /\ readable = TRUE

AddEntry ==
    /\ readable
    /\ log' # <<>>
    /\ LET new == log'[Len(log')]
       IN  /\ new > 0
           /\ \A k \in DOMAIN log : Entry(log[k]) < new
           /\ \E first \in 1..(Len(log) + 1) :
                 /\ log' = Append(SubSeq(log, first, Len(log)), new)
                 /\ first > 1 => Len(log') = limit
    /\ Len(log') <= limit
    /\ UNCHANGED <<limit, readable>>

StartOver ==
    /\ ~readable
    /\ limit > 0
    /\ log' # <<>>
    /\ LET new == log'[1]
       IN  /\ new > 0
           /\ \A k \in DOMAIN log : Entry(log[k]) < new
           /\ log' = <<new>>
    /\ UNCHANGED <<limit, readable>>

LoseEnd ==
    /\ \E k \in 0..Len(log) :
          \/ log' = SubSeq(log, 1, k)
          \/ k > 0 /\ log' = [SubSeq(log, 1, k) EXCEPT ![k] = Torn(@)]
    /\ UNCHANGED <<limit, readable>>

NewLimit == limit' \in Nat /\ UNCHANGED <<log, readable>>

TryToRead == readable' \in BOOLEAN /\ UNCHANGED <<log, limit>>

Next == AddEntry \/ StartOver \/ LoseEnd \/ NewLimit \/ TryToRead

Spec == Init /\ [][Next]_<<log, limit, readable>>
=============================================================================
