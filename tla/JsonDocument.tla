---------------------------- MODULE JsonDocument ----------------------------
(***************************************************************************)
(* What a JSON document is and what it says, independently of the reader   *)
(* of module Json.  A document is a record of                              *)
(*   tokens  its text without the white space outside strings,             *)
(*   close   for the first position of a string, an object or an array     *)
(*           the last one,                                                 *)
(*   items   for the first position of an object or an array the sequence  *)
(*           of its members, each a name, empty in an array, and the       *)
(*           position where its value begins,                              *)
(*   place   for a token its place in the text.                            *)
(* That the positions fit together is all there is to say: the nesting of  *)
(* objects and arrays follows from it.                                     *)
(***************************************************************************)
EXTENDS Json

Brackets == {"{", "}", "[", "]"}

(* A string with its quotation marks.  An escaping character protects the  *)
(* one behind it.  findCorrespondingBracket() counts brackets in strings,  *)
(* so no bracket occurs in one.                                            *)
IsString(word) ==
    LET inner == 2..(Len(word) - 1)
    IN  /\ Len(word) > 1
        /\ word[1] = Quote
        /\ word[Len(word)] = Quote
        /\ \A p \in inner : word[p] \notin Brackets
        /\ \E escapes \in SUBSET inner :
              /\ Len(word) - 1 \notin escapes
              /\ \A p \in escapes : word[p] = Escape /\ p - 1 \notin escapes
              /\ \A p \in inner :
                    word[p] \in {Quote, Escape} => p \in escapes \/ p - 1 \in escapes

Strings(doc)    == {p \in DOMAIN doc.close : doc.tokens[p] = Quote}
Containers(doc) == {p \in DOMAIN doc.close : doc.tokens[p] \in Opening}

StringsOK(doc) ==
    /\ \A s \in Strings(doc) : IsString(SubSeq(doc.tokens, s, doc.close[s]))
    /\ \A s, t \in Strings(doc) : s < t => doc.close[s] < t
    /\ \A p \in 1..Len(doc.tokens) :
          \/ \E s \in Strings(doc) : p \in s..doc.close[s]
          \/ doc.tokens[p] \notin {Quote, Escape, Space}

(* The last position of the value that begins at a position.               *)
LastAt(doc, at) == IF at \in DOMAIN doc.close THEN doc.close[at] ELSE at

(* Where item k of a container begins.                                     *)
Start(doc, c, k) == IF k = 1 THEN c + 1 ELSE LastAt(doc, doc.items[c][k - 1].at) + 2

(* In front of its value an item of an object has its name and a colon.    *)
NameOK(doc, c, k) ==
    LET start == Start(doc, c, k)
        item  == doc.items[c][k]
    IN  IF doc.tokens[c] = "{"
        THEN /\ start \in Strings(doc)
             /\ item.name = SubSeq(doc.tokens, start + 1, doc.close[start] - 1)
             /\ item.at = doc.close[start] + 2
             /\ doc.tokens[item.at - 1] = ":"
        ELSE item.name = <<>> /\ item.at = start

(* A value is a string, an object, an array or one other token.            *)
ValueOK(doc, at) ==
    \/ at \in Strings(doc) \cup Containers(doc)
    \/ /\ at \notin DOMAIN doc.close
       /\ doc.tokens[at] \notin Brackets \cup {Quote, Escape, Space, ",", ":"}

ContainerOK(doc, c) ==
    /\ doc.tokens[doc.close[c]] = ClosingOf[doc.tokens[c]]
    /\ doc.items[c] = <<>> => doc.close[c] = c + 1
    /\ \A k \in DOMAIN doc.items[c] :
          LET item == doc.items[c][k]
              next == LastAt(doc, item.at) + 1
          IN  /\ NameOK(doc, c, k)
              /\ ValueOK(doc, item.at)
              /\ IF k = Len(doc.items[c]) THEN next = doc.close[c]
                 ELSE next < doc.close[c] /\ doc.tokens[next] = ","

Item == [name : Seq(STRING), at : Nat]

IsDocument(doc) ==
    /\ doc.tokens \in Seq(STRING)
    /\ DOMAIN doc.close \subseteq 1..Len(doc.tokens)
    /\ \A p \in DOMAIN doc.close : doc.close[p] \in (p + 1)..Len(doc.tokens)
    /\ DOMAIN doc.close = Strings(doc) \cup Containers(doc)
    /\ StringsOK(doc)
    /\ \A c \in Containers(doc) : doc.items[c] \in Seq(Item) /\ ContainerOK(doc, c)
    /\ 1 \in Containers(doc)
    /\ doc.tokens[1] = "{"
    /\ doc.close[1] = Len(doc.tokens)

(* The text of a document has white space between the tokens, but not      *)
(* within a string.                                                        *)
IsTextOf(text, doc) ==
    LET n == Len(doc.tokens)
    IN  /\ text \in Seq(STRING)
        /\ doc.place \in [1..n -> 1..Len(text)]
        /\ \A j, k \in 1..n : j < k => doc.place[j] < doc.place[k]
        /\ \A k \in 1..n : text[doc.place[k]] = doc.tokens[k]
        /\ \A p \in 1..Len(text) : (\E k \in 1..n : doc.place[k] = p) \/ text[p] = Space
        /\ \A s \in Strings(doc) : \A k \in s..doc.close[s] :
              doc.place[k] = doc.place[s] + (k - s)

(* What stands under a key: the first member of that name or, if none has  *)
(* it, the one at that position.  0 stands for nothing.                    *)
Leads(doc, c, key, k) ==
    LET items == doc.items[c]
    IN  \/ /\ items[k].name = <<key>>
           /\ \A j \in 1..(k - 1) : items[j].name # <<key>>
        \/ /\ \A j \in DOMAIN items : items[j].name # <<key>>
           /\ key \in Numbers
           /\ k = Position[key]

Under(doc, at, key) ==
    IF at \in Containers(doc) /\ \E k \in DOMAIN doc.items[at] : Leads(doc, at, key, k)
    THEN doc.items[at][CHOOSE k \in DOMAIN doc.items[at] : Leads(doc, at, key, k)].at
    ELSE 0

(* The value the document has under the keys, as a number.                 *)
ValueUnder(doc, keys) ==
    LET reach[n \in 0..Len(keys)] == IF n = 0 THEN 1 ELSE Under(doc, reach[n - 1], keys[n])
        at == reach[Len(keys)]
    IN  IF at = 0 \/ at \in Containers(doc) THEN NoValue
        ELSE Double(SubSeq(doc.tokens, at, LastAt(doc, at)))
=============================================================================
