------------------------------ MODULE MCReadout ------------------------------
(***************************************************************************)
(* A small instance of Readout: two sensors of different rest periods on   *)
(* one URL, one on a file, and a HomeMatic variable.  One tick is the time *)
(* of the buffer.                                                          *)
(*                                                                         *)
(* A document is a tree from which its text and its values follow: an      *)
(* object is [members |-> pairs of name and node], an array has nodes as   *)
(* items, anything else is a leaf with its text and value.                 *)
(***************************************************************************)
EXTENDS Readout, JsonDocument, SequencesExt

Object(members)   == [type |-> "object", parts |-> members]
Array(items)      == [type |-> "array", parts |-> items]
Leaf(text, value) == [type |-> "leaf", text |-> text, value |-> value]
NumberLeaf(n)     == Leaf(<<n>>, n)

(* The text of a tree.  Sp is what a printer puts between the tokens.      *)
Quoted(text) == <<Quote>> \o text \o <<Quote>>

RECURSIVE Render(_, _)
Render(tree, sp) ==
    LET Member(part) == IF tree.type = "object"
                        THEN Quoted(<<part[1]>>) \o <<":">> \o sp \o Render(part[2], sp)
                        ELSE Render(part, sp)
        inside == [k \in 1..Len(tree.parts) |->
                      (IF k = 1 THEN <<>> ELSE <<",">>) \o sp \o Member(tree.parts[k])]
    IN  CASE tree.type = "object" -> <<"{">> \o FlattenSeq(inside) \o sp \o <<"}">>
          [] tree.type = "array"  -> <<"[">> \o FlattenSeq(inside) \o sp \o <<"]">>
          [] tree.type = "leaf"   -> tree.text

(* The value a tree has under some keys.                                   *)
RECURSIVE ValueOf(_, _)
ValueOf(tree, keys) ==
    IF keys = <<>> THEN IF tree.type = "leaf" THEN tree.value ELSE NoValue
    ELSE IF tree.type = "leaf" THEN NoValue
    ELSE LET of == {k \in 1..Len(tree.parts) :
                       IF tree.type = "object" THEN tree.parts[k][1] = Head(keys)
                       ELSE Head(keys) = CHOOSE n \in Numbers : Position[n] = k}
         IN  IF of = {} THEN NoValue
             ELSE LET part == tree.parts[CHOOSE k \in of : TRUE]
                  IN  ValueOf(IF tree.type = "object" THEN part[2] ELSE part, Tail(keys))

(* Nested objects and arrays, numbers in strings, truth values, and an     *)
(* escaped quotation mark; no string holds a bracket.                      *)
Tree == [d \in {"power", "moved"} |->
  IF d = "power"
  THEN Object(<< <<"a", Object(<< <<"b", NumberLeaf("1")>>,
                                  <<"c", Leaf(Quoted(<<"2">>), "2")>> >>)>>,
                 <<"d", Array(<<Leaf(<<"true">>, "1"),
                                Object(<< <<"b", NumberLeaf("2")>> >>)>>)>> >>)
  ELSE Object(<< <<"d", Array(<<NumberLeaf("0"), Leaf(<<"null">>, NoValue)>>)>>,
                 <<"a", Object(<< <<"c", Leaf(<<Quote, Escape, Quote, Space, Quote>>, NoValue)>>,
                                  <<"b", Leaf(<<"false">>, "0")>> >>)>> >>)]

Docs     == {"power", "moved"}
DocTexts == [d \in Docs |-> IF d = "power" THEN <<Space>> \o Render(Tree[d], <<Space>>)
                                           ELSE Render(Tree[d], <<>>)]
SensorSource == <<"url", "url", "file", "homematic">>
SensorKeys   == << <<"a", "b">>, <<"d", "1", "b">>, <<"a", "c">>, <<"ise">> >>
DocValues    == [d \in Docs |-> [i \in 1..4 |-> ValueOf(Tree[d], SensorKeys[i])]]

(* The documents of these trees, as module JsonDocument has them.  A tree  *)
(* whose tokens begin at a position has its parts behind one another.      *)
Size(tree)       == Len(Render(tree, <<>>))
NameSize(tree)   == IF tree.type = "object" THEN 4 ELSE 0
Part(tree, k)    == IF tree.type = "object" THEN tree.parts[k][2] ELSE tree.parts[k]
Ordinals(tree)   == IF tree.type = "leaf" THEN {} ELSE DOMAIN tree.parts
IsQuoted(tree)   == tree.type = "leaf" /\ tree.text[1] = Quote
PartAt(tree, at, k) ==
    LET from[j \in 1..k] == IF j = 1 THEN at + 1
                            ELSE from[j - 1] + NameSize(tree) + Size(Part(tree, j - 1)) + 1
    IN  from[k] + NameSize(tree)

RECURSIVE CloseOf(_, _)
CloseOf(tree, at) ==
    (IF IsQuoted(tree) \/ tree.type # "leaf" THEN {<<at, at + Size(tree) - 1>>} ELSE {})
    \cup {<<PartAt(tree, at, k) - 4, PartAt(tree, at, k) - 2>> :
             k \in IF tree.type = "object" THEN Ordinals(tree) ELSE {}}
    \cup UNION {CloseOf(Part(tree, k), PartAt(tree, at, k)) : k \in Ordinals(tree)}

RECURSIVE ItemsOf(_, _)
ItemsOf(tree, at) ==
    IF tree.type = "leaf" THEN {}
    ELSE {<<at, [k \in Ordinals(tree) |->
                    [name |-> IF tree.type = "object" THEN <<tree.parts[k][1]>> ELSE <<>>,
                     at   |-> PartAt(tree, at, k)]]>>}
         \cup UNION {ItemsOf(Part(tree, k), PartAt(tree, at, k)) : k \in Ordinals(tree)}

Function(pairs) == [p \in {q[1] : q \in pairs} |-> (CHOOSE q \in pairs : q[1] = p)[2]]

(* In a text a token of a string follows the one before at once, any other *)
(* one is the next that is no space.                                       *)
PlaceIn(text, tokens, close) ==
    LET Within(k) == \E s \in DOMAIN close : tokens[s] = Quote /\ k \in (s + 1)..close[s]
        Visible(p) == CHOOSE q \in p..Len(text) :
                         text[q] # Space /\ \A r \in p..(q - 1) : text[r] = Space
        place[k \in 1..Len(tokens)] ==
            IF k = 1 THEN Visible(1)
            ELSE IF Within(k) THEN place[k - 1] + 1
            ELSE Visible(place[k - 1] + 1)
    IN  place

Layout == [d \in Docs |->
    LET tokens == Render(Tree[d], <<>>)
        close  == Function(CloseOf(Tree[d], 1))
    IN  [tokens |-> tokens, close |-> close, items |-> Function(ItemsOf(Tree[d], 1)),
         place |-> PlaceIn(DocTexts[d], tokens, close)]]

(* What the theorems about documents assume of them is true of these.      *)
ASSUME DocumentsAreWritten ==
    \A d \in Docs :
        /\ IsDocument(Layout[d])
        /\ IsTextOf(DocTexts[d], Layout[d])
        /\ DocTexts[d][Len(DocTexts[d])] # Space
        /\ \A i \in 1..4 : DocValues[d][i] = ValueUnder(Layout[d], SensorKeys[i])

(* The URL answers with a whole document, or breaks off within a number,   *)
(* a string or an object; the file is found in every state of its writing. *)
Whole(d) == [doc |-> d, cut |-> Len(DocTexts[d])]
DocContents ==
    [f \in {"url", "file"} |->
       IF f = "url" THEN {Whole("power"), Whole("moved"), [doc |-> "moved", cut |-> 19]}
       ELSE {[doc |-> "power", cut |-> n] : n \in 0..Len(DocTexts["power"])}]

Cfg(rest, retry) == [rest |-> rest, retry |-> retry, keep |-> 0, isCounter |-> FALSE]
SensorConfigs == <<Cfg(1, 1), Cfg(2, 1), Cfg(4, 4), Cfg(4, 1)>>
=============================================================================
