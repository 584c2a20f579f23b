-------------------------------- MODULE Json --------------------------------
(***************************************************************************)
(* The JSON reader of json.cpp, as the sensors use it: the text of a       *)
(* document is parsed into nodes and one value is looked up by its keys.   *)
(*                                                                         *)
(* A text is a sequence of tokens: the characters that structure it, the   *)
(* white space, and numbers and names, no two of them side by side.        *)
(* Where the code throws one of its E_ codes, which the sensors catch, the *)
(* outcome is Failed.  Where at() of std::string throws std::out_of_range, *)
(* which nothing in the program catches, it is Fatal.                      *)
(***************************************************************************)
EXTENDS Naturals, Sequences

Numbers == {"0", "1", "2"}
Space   == " "
Quote   == "\""
Escape  == "\\"
Opening == {"{", "["}
ClosingOf == [b \in Opening \cup {Quote} |->
                 CASE b = "{" -> "}" [] b = "[" -> "]" [] b = Quote -> Quote]

(* A node has a name, the value getDouble() makes of it and its subnodes.  *)
NoValue == "no value"
Node(name, value, subs) == [name |-> name, value |-> value, subs |-> subs]

Failed    == [outcome |-> "failed"]
Fatal     == [outcome |-> "fatal"]
Good(subs) == [outcome |-> "good", subs |-> subs]

(***************************************************************************)
(* findCorrespondingBracket() from an opening bracket or quotation mark,   *)
(* the only direction the parser asks for; 0 when it throws.  It knows     *)
(* escaped characters, but not the strings between two brackets.           *)
(***************************************************************************)
(* Mutant: the first closing bracket will do, whatever has been opened.    *)
FirstBracket(text, pos) ==
    LET seek[p \in Nat] ==
            IF p > Len(text) THEN 0
            ELSE IF text[p] = Escape THEN seek[p + 2]
            ELSE IF text[p] = ClosingOf[text[pos]] THEN p
            ELSE seek[p + 1]
    IN  seek[pos + 1]

CorrespondingBracket(text, pos) ==
    LET closing == ClosingOf[text[pos]]
        seek[p \in Nat] == [level \in Nat |->
            IF p > Len(text) THEN 0
            ELSE IF text[p] = Escape THEN seek[p + 2][level]
            ELSE IF text[p] = closing
                 THEN IF level = 0 THEN p ELSE seek[p + 1][level - 1]
            ELSE seek[p + 1][IF text[p] = text[pos] THEN level + 1 ELSE level]]
    IN  seek[pos + 1][0]

(***************************************************************************)
(* parse(), first half: the white space outside strings goes; no text at   *)
(* all when a string does not end.                                         *)
(***************************************************************************)
Stripped(text) ==
    LET strip[p \in Nat] ==
            IF p > Len(text) THEN Good(<<>>)
            ELSE LET last == IF text[p] = Quote THEN CorrespondingBracket(text, p)
                             ELSE IF text[p] = Escape /\ p < Len(text) THEN p + 1
                             ELSE p
                     rest == strip[last + 1]
                 IN  IF last = 0 THEN Failed
                     ELSE IF rest = Failed \/ text[p] = Space THEN rest
                     ELSE Good(SubSeq(text, p, last) \o rest.subs)
    IN  strip[1]

(***************************************************************************)
(* What getDouble() makes of the text of a value that is no object: a      *)
(* number, also in a string, or a truth value; an empty string is 0.       *)
(***************************************************************************)
Double(text) ==
    LET inner == IF text[1] = Quote THEN SubSeq(text, 2, Len(text) - 1) ELSE text
    IN  CASE inner = <<>> -> "0"
          [] Len(inner) = 1 /\ inner[1] \in Numbers -> inner[1]
          [] text = <<"true">>  -> "1"
          [] text = <<"false">> -> "0"
          [] OTHER -> NoValue

(* The end of such a value: a comma, a bracket or stop, outside strings.   *)
ValueStop(text, start, stop) ==
    LET seek[p \in Nat] ==
            IF p >= stop \/ text[p] \in {",", "}", "]"} THEN p
            ELSE IF text[p] # Quote THEN seek[p + 1]
            ELSE LET q == CorrespondingBracket(text, p)
                 IN  IF q = 0 THEN 0 ELSE seek[q + 1]
    IN  seek[start]

(***************************************************************************)
(* parseObject() and parseArray(): the members in first..last-1 of what    *)
(* the bracket opens.  Only those of an object have names.                 *)
(***************************************************************************)
Members(text, bracket, first, last) ==
    LET parse[start \in Nat] == [open \in Opening |-> [stop \in 0..Len(text) |->
          IF start >= stop THEN Good(<<>>)
          ELSE
          LET named   == open = "{"
              nameEnd == IF named /\ text[start] = Quote
                         THEN CorrespondingBracket(text, start) ELSE 0
              named_ok == /\ nameEnd # 0
                          /\ nameEnd + 2 < stop
                          /\ text[nameEnd + 1] = ":"
              at      == IF named THEN nameEnd + 2 ELSE start
              name    == IF named THEN SubSeq(text, start + 1, nameEnd - 1) ELSE <<>>
              nested  == text[at] \in Opening
              end     == IF nested THEN CorrespondingBracket(text, at)
                         ELSE ValueStop(text, at, stop)
              inside  == IF nested THEN parse[at + 1][text[at]][end] ELSE Good(<<>>)
              value   == IF nested THEN NoValue ELSE Double(SubSeq(text, at, end - 1))
              next    == IF nested THEN end + 1 ELSE end
              others  == parse[next + 1][open][stop]
          IN  IF \/ named /\ ~named_ok
                 \/ end = 0
                 \/ nested /\ end >= stop THEN Failed
              ELSE IF inside.outcome # "good" THEN inside
              ELSE IF ~nested /\ end = at THEN Fatal
              ELSE IF next > Len(text) THEN Fatal
              ELSE IF text[next] = ","
                   THEN IF others.outcome # "good" THEN others
                        ELSE Good(<<Node(name, value, inside.subs)>> \o others.subs)
              ELSE IF next = stop THEN Good(<<Node(name, value, inside.subs)>>)
              ELSE Failed]]
    IN  parse[first][bracket][last]

(***************************************************************************)
(* parse(), second half.  An empty text has no nodes; one of white space   *)
(* is not empty before it is stripped.                                     *)
(***************************************************************************)
(* Mutant: the text need not end with the bracket that closes the object.  *)
RootMembersSoFar(text, stop) == Members(text, "{", 2, Len(text))

RootMembers(text, stop) == IF stop = 0 THEN Failed ELSE Members(text, "{", 2, stop)

ParsedStripped(stripped) ==
    IF stripped = Failed THEN Failed
    ELSE IF stripped.subs = <<>> THEN Fatal
    ELSE IF stripped.subs[1] # "{" THEN Failed
    ELSE RootMembers(stripped.subs, CorrespondingBracket(stripped.subs, 1))

Parsed(text) == IF text = <<>> THEN Good(<<>>) ELSE ParsedStripped(Stripped(text))

(***************************************************************************)
(* element(): the first subnode of that name, or else the one at that      *)
(* position; then the value of the last one.                               *)
(***************************************************************************)
Position == [n \in Numbers |-> CASE n = "0" -> 1 [] n = "1" -> 2 [] n = "2" -> 3]

Matches(subs, key) ==
    LET byName == {k \in 1..Len(subs) : subs[k].name = <<key>>}
    IN  IF byName # {} THEN byName
        ELSE IF key \in Numbers THEN {Position[key]} \cap 1..Len(subs) ELSE {}

First(S) == CHOOSE k \in S : \A l \in S : k <= l

ValueAt(subs, keys) ==
    LET node[n \in 0..Len(keys)] ==
            IF n = 0 THEN Good(<<Node(<<>>, NoValue, subs)>>)
            ELSE IF node[n - 1] = Failed THEN Failed
            ELSE LET among == node[n - 1].subs[1].subs
                     found == Matches(among, keys[n])
                 IN  IF found = {} THEN Failed ELSE Good(<<among[First(found)]>>)
        last == node[Len(keys)]
    IN  IF last = Failed THEN NoValue ELSE last.subs[1].value

(***************************************************************************)
(* What a sensor with these keys reads in this text: a value, NoValue when *)
(* an error code is thrown, or the end of the program.                     *)
(***************************************************************************)
Ended == "ended"

LookedUp(parsed, keys) ==
    CASE parsed.outcome = "failed" -> NoValue
      [] parsed.outcome = "fatal"  -> Ended
      [] parsed.outcome = "good"   -> ValueAt(parsed.subs, keys)

Reading(text, keys) == LookedUp(Parsed(text), keys)
=============================================================================
