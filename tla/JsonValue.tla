----------------------------- MODULE JsonValue ------------------------------
(* muduo/base/JsonValue.h: a JSON value that is filled by fromString,       *)
(* fromFile and insert, read by get and written by serialize.               *)
(*                                                                          *)
(* A text is a sequence of tokens: a quote is "q", a blank, tab or newline  *)
(* is " ", a byte of a character beyond ASCII is "high"; true, false and    *)
(* null are one token each, every other token is a character.  Strings and  *)
(* numbers are sequences of characters too, a double without the zeros at   *)
(* its end.  The union of the numbers is one field.                         *)
EXTENDS Integers, Sequences, SequencesExt

CONSTANTS
    Letters,        \* characters that are used as keys
    MaxElements,    \* bound: elements of a container in a text
    MaxCalls        \* bound: calls of fromString, fromFile and insert

ASSUME JsonAssumption == MaxElements \in Nat /\ MaxCalls \in Nat

VARIABLES
    json,           \* the JsonValue
    loaded,         \* history: the document that was read last and whether it
                    \* was in a file, as a set; empty after an insert
    calls,          \* how many calls were made
    fault           \* "stuck" when the parser did not return; "none" while running

vars == <<json, loaded, calls, fault>>

NewValue == [type |-> "kNull", key |-> <<>>, str |-> <<>>, num |-> <<>>, elements |-> <<>>]

Init == json = NewValue /\ loaded = {} /\ calls = 0 /\ fault = "none"

-----------------------------------------------------------------------------
(* struct Parser.  A result has the position where the parser goes on, what *)
(* it read, and whether it comes back at all.                               *)
Digits == {"0", "1", "2"}
At(s, i) == IF i <= Len(s) THEN s[i] ELSE "end"
Result(next, out) == [next |-> next, out |-> out, ok |-> TRUE]
Stuck(out) == [next |-> 0, out |-> out, ok |-> FALSE]

\* The first position from i on that holds no member of skipped.
After(s, i, skipped) ==
    CHOOSE j \in i..(Len(s) + 1) :
        At(s, j) \notin skipped /\ \A k \in i..(j - 1) : s[k] \in skipped

\* skipSpace: char is signed, so that a byte beyond ASCII is below 32 as well.
SkipSpace(s, i) == After(s, i, {" ", "high"})

(* parseString skips the blanks behind the quote, too, and ends at the next *)
(* quote, also one with a backslash before it; without one it runs beyond   *)
(* the text.                                                                *)
ParseString(s, i) ==
    LET begin == SkipSpace(s, i + 1)
        quotes == {j \in begin..Len(s) : s[j] = "q"}
    IN IF quotes = {} THEN Stuck(<<>>)
       ELSE Result(SkipSpace(s, Min(quotes) + 1), SubSeq(s, begin, Min(quotes) - 1))

IsFloat(n) == "." \in Range(n)

\* The value that strtod reads: 1.20 is 1.2.
Strtod(n) == SubSeq(n, 1, Max({i \in DOMAIN n : n[i] # "0"}))

ParseNumber(s, i) ==
    LET end == After(s, i, Digits \cup {"."})
        n == SubSeq(s, i, end - 1)
    IN Result(SkipSpace(s, end), IF IsFloat(n) THEN Strtod(n) ELSE n)

\* Mutant: the line break behind a comma is not skipped.
SkipComma_KeepsBlanks(s, i) == IF At(s, i) = "," THEN i + 1 ELSE i

\* The comma behind an element, if there is one.
SkipComma(s, i) == IF At(s, i) = "," THEN SkipSpace(s, i + 1) ELSE i

RECURSIVE ParseObject(_, _, _), HashLoop(_, _, _), ArrayLoop(_, _, _)

(* The loop of parseHash.  An assertion fails where no key is, also behind  *)
(* an element that was not recognized.                                      *)
HashLoop(s, i, out) ==
    IF At(s, i) = "}" THEN Result(SkipSpace(s, i + 1), out)
    ELSE IF At(s, i) # "q" THEN Stuck(out)
    ELSE LET k == ParseString(s, i)
             e == ParseObject(s, k.next + 1, [NewValue EXCEPT !.key = k.out])
         IN IF k.ok /\ At(s, k.next) = ":" /\ e.ok
              THEN HashLoop(s, SkipComma(s, e.next), Append(out, e.out))
              ELSE Stuck(out)

(* The loop of parseArray, which never ends at an element that is not       *)
(* recognized.                                                              *)
ArrayLoop(s, i, out) ==
    IF At(s, i) = "]" THEN Result(SkipSpace(s, i + 1), out)
    ELSE LET e == ParseObject(s, i, NewValue)
         IN IF e.ok /\ SkipComma(s, e.next) > i
              THEN ArrayLoop(s, SkipComma(s, e.next), Append(out, e.out))
              ELSE Stuck(out)

\* Mutant: the elements that are there stay.
Elements_Kept(output) == output.elements

\* output.clear() of parseHash and parseArray.
Elements(output) == <<>>

(* parseObject, into a value that may have held something else: only the    *)
(* fields of the new type are written.  null is recognized but not passed.  *)
ParseObject(s, begin, output) ==
    LET i == SkipSpace(s, begin)
        c == At(s, i)
        Container(r, type) == [r EXCEPT !.out = [output EXCEPT !.elements = r.out, !.type = type]]
    IN CASE c = "{" -> Container(HashLoop(s, SkipSpace(s, i + 1), Elements(output)), "kHash")
         [] c = "[" -> Container(ArrayLoop(s, SkipSpace(s, i + 1), Elements(output)), "kArray")
         [] c = "q" -> LET r == ParseString(s, i) IN
              [r EXCEPT !.out = [output EXCEPT !.str = r.out, !.type = "kString"]]
         [] c \in Digits -> LET r == ParseNumber(s, i) IN
              Result(r.next, [output EXCEPT !.num = r.out,
                         !.type = IF IsFloat(r.out) THEN "kFloat" ELSE "kInt"])
         [] c \in {"true", "false"} ->
              Result(SkipSpace(s, i + 1), [output EXCEPT !.num = <<c>>, !.type = "kBool"])
         [] c = "null" -> Result(i, [output EXCEPT !.type = "kNull"])
         [] OTHER -> Result(i, output)

-----------------------------------------------------------------------------
(* get: a key is looked up in a hash, an index in an array.  Nothing found  *)
(* is <<>>.                                                                 *)
Key(k) == [kind |-> "key", key |-> k, index |-> 0]
Index(n) == [kind |-> "index", key |-> <<>>, index |-> n]

\* The position of the element that getKeys(key) finds, 0 if there is none.
Position(v, step) ==
    IF step.kind = "index"
      THEN IF v.type = "kArray" /\ step.index < Len(v.elements) THEN step.index + 1 ELSE 0
      ELSE IF v.type = "kHash" THEN SelectInSeq(v.elements, LAMBDA e : e.key = step.key)
                               ELSE 0

RECURSIVE Get(_, _)
Get(v, path) ==
    IF path = <<>> THEN <<v>>
    ELSE LET p == Position(v, Head(path)) IN
           IF p = 0 THEN <<>> ELSE Get(v.elements[p], Tail(path))

\* set(val): a scalar takes the place of whatever was there.
SetScalar(v, val) ==
    [v EXCEPT !.elements = <<>>, !.type = val.type,
              !.str = IF val.type = "kString" THEN val.str ELSE @,
              !.num = IF val.type = "kString" THEN @ ELSE val.num]

\* Mutant: a key that is there is not looked for.
Replaced_Always(v, p, e) == [v EXCEPT !.type = "kHash", !.elements = <<e>>]

(* set(val, key, ...) when the element for the key has become e: a key that *)
(* was missing takes the place of all the elements.                         *)
Replaced(v, p, e) ==
    IF p = 0 THEN [v EXCEPT !.type = "kHash", !.elements = <<e>>]
             ELSE [v EXCEPT !.elements[p] = e]

RECURSIVE Set(_, _, _)
Set(v, val, path) ==
    IF path = <<>> THEN SetScalar(v, val)
    ELSE LET p == Position(v, Head(path))
             old == IF p = 0 THEN [NewValue EXCEPT !.key = Head(path).key]
                             ELSE v.elements[p]
         IN Replaced(v, p, Set(old, val, Tail(path)))

-----------------------------------------------------------------------------
(* std::to_string of a double writes six decimals, and rounds: those of the *)
(* doubles that Values has are rounded down.                                *)
Decimals == 6
DecimalsOf(n) == Len(n) - SelectInSeq(n, LAMBDA c : c = ".")
StdToString(n) ==
    SubSeq(n \o [i \in 1..Decimals |-> "0"], 1, Len(n) - DecimalsOf(n) + Decimals)

RECURSIVE SerilizeImpl(_)
(* serilizeImpl, for containers with an element: without one the last       *)
(* element is read all the same.                                            *)
SerilizeImpl(v) ==
    LET Element(e) ==
          IF v.type = "kHash" THEN <<"q">> \o e.key \o <<"q", ":">> \o SerilizeImpl(e)
                              ELSE SerilizeImpl(e)
        n == Len(v.elements)
        all == FlattenSeq([i \in 1..n |->
                 Element(v.elements[i]) \o (IF i < n THEN <<",", " ">> ELSE <<>>)])
    IN CASE v.type = "kHash" -> <<"{", " ">> \o all \o <<" ", "}">>
         [] v.type = "kArray" -> <<"[", " ">> \o all \o <<" ", "]">>
         [] v.type = "kString" -> <<"q">> \o v.str \o <<"q">>
         [] v.type = "kFloat" -> StdToString(v.num)
         [] v.type \in {"kInt", "kBool"} -> v.num
         [] OTHER -> <<>>

-----------------------------------------------------------------------------
(* What users insert and texts contain.                                     *)
Str(s) == [NewValue EXCEPT !.type = "kString", !.str = s]
Num(type, n) == [NewValue EXCEPT !.type = type, !.num = n]

(* Among the strings the empty one, some that begin with what is skipped,   *)
(* one with syntax and one with a quote; among the keys one that begins     *)
(* with a blank and one with a quote; among the numbers 1.2 and 0.0000001.  *)
Names == {<<c>> : c \in Letters}
Keys == Names \cup {<<" ", "a">>, <<"a", "q">>}
Quoted == Str(<<"a", "q", "a">>)
Values == {Str(<<>>), Str(<<"a">>), Str(<<" ", "a">>), Str(<<"high", "a">>),
           Str(<<"a", " ", "}">>), Quoted}
            \cup {Num("kInt", <<"1">>), Num("kInt", <<"-", "1">>),
                  Num("kFloat", <<"1", ".", "2">>),
                  Num("kFloat", <<"0", ".", "0", "0", "0", "0", "0", "0", "1">>),
                  Num("kBool", <<"true">>)}

Steps == {Key(k) : k \in Keys} \cup {Index(0), Index(1)}
KeyPaths == {<<Key(k)>> : k \in Keys} \cup {<<Key(k), Key(l)>> : k, l \in Names}
Paths == {<<s>> : s \in Steps} \cup {<<s, t>> : s, t \in Steps}

\* Containers with elements out of S.
Containers(S) ==
    LET lists == UNION {[1..n -> S] : n \in 0..MaxElements}
        names == UNION {[1..n -> Names] : n \in 0..MaxElements}
    IN {[NewValue EXCEPT !.type = "kArray", !.elements = l] : l \in lists}
       \cup {[NewValue EXCEPT !.type = "kHash",
                !.elements = [i \in DOMAIN l |-> [l[i] EXCEPT !.key = k[i]]]] :
             <<l, k>> \in {p \in lists \X names : Len(p[1]) = Len(p[2])}}

(* Documents: every scalar, a hash for every key, and containers with an    *)
(* integer, strings, null, an array or a hash in them.                      *)
Int1 == Num("kInt", <<"1">>)
Hash1(k) == [NewValue EXCEPT !.type = "kHash", !.elements = <<[Int1 EXCEPT !.key = k]>>]
Items == {Int1, Str(<<"a", " ", "}">>), Quoted, NewValue}
           \cup {[NewValue EXCEPT !.type = "kArray", !.elements = <<Int1>>]}
           \cup {Hash1(k) : k \in Names}
Documents == Values \cup {NewValue} \cup {Hash1(k) : k \in Keys} \cup Containers(Items)

\* A quote in a string or a key of a text has a backslash before it.
Escaped(t) ==
    FlattenSeq([i \in DOMAIN t |-> IF t[i] = "q" THEN <<"\\", "q">> ELSE <<t[i]>>])

RECURSIVE Write(_, _)
(* A text of a document, with b between the tokens.                         *)
Write(v, b) ==
    LET Element(e) ==
          IF v.type = "kHash"
            THEN <<"q">> \o Escaped(e.key) \o <<"q">> \o b \o <<":">> \o b \o Write(e, b)
            ELSE Write(e, b)
        n == Len(v.elements)
        all == FlattenSeq([i \in 1..n |->
                 b \o Element(v.elements[i]) \o b \o (IF i < n THEN <<",">> ELSE <<>>)])
    IN CASE v.type = "kHash" -> b \o <<"{">> \o all \o b \o <<"}">>
         [] v.type = "kArray" -> b \o <<"[">> \o all \o b \o <<"]">>
         [] v.type = "kString" -> b \o <<"q">> \o Escaped(v.str) \o <<"q">>
         [] v.type = "kNull" -> b \o <<"null">>
         [] OTHER -> b \o v.num

-----------------------------------------------------------------------------
Load(d, s, file) ==
    LET r == ParseObject(s, 1, json) IN
      /\ json' = IF r.ok THEN r.out ELSE json
      /\ loaded' = {[doc |-> d, file |-> file]}
      /\ fault' = IF r.ok THEN "none" ELSE "stuck"

FromString(d) == \E b \in {<<>>, <<" ">>} : Load(d, Write(d, b), FALSE)

\* fromFile: istream_iterator<char> leaves out every blank.
FromFile(d) ==
    Load(d, SelectSeq(Write(d, <<" ">>), LAMBDA c : c # " "), TRUE)

Insert(val, path) ==
    /\ json' = Set(json, val, path)
    /\ loaded' = {}
    /\ UNCHANGED fault

Next ==
    /\ fault = "none" /\ calls < MaxCalls
    /\ calls' = calls + 1
    /\ \/ \E d \in Documents : FromString(d) \/ FromFile(d)
       \/ \E val \in Values, path \in KeyPaths : Insert(val, path)

Spec == Init /\ [][Next]_vars

-----------------------------------------------------------------------------
RECURSIVE View(_), Readable(_)

\* What get and serialize see of a value: the fields of its type.
View(v) ==
    [v EXCEPT !.str = IF v.type = "kString" THEN @ ELSE <<>>,
              !.num = IF v.type \in {"kInt", "kFloat", "kBool"} THEN @ ELSE <<>>,
              !.elements = IF v.type \in {"kHash", "kArray"}
                             THEN [i \in DOMAIN @ |-> View(@[i])] ELSE <<>>]

\* The strings and keys that can be read: not those that begin with a blank or
\* beyond ASCII, nor those with a quote, which the parser takes for their end.
Plain(s) == (s # <<>> => Head(s) \notin {" ", "high"}) /\ "q" \notin Range(s)

\* The values that can be read: no null, no negative number, plain strings and keys.
Readable(v) ==
    /\ v.type # "kNull"
    /\ v.type = "kString" => Plain(v.str)
    /\ v.type \in {"kInt", "kFloat"} => Head(v.num) # "-"
    /\ v.type = "kHash" => \A i \in DOMAIN v.elements : Plain(v.elements[i].key)
    /\ v.type \in {"kHash", "kArray"} => \A i \in DOMAIN v.elements : Readable(v.elements[i])

RECURSIVE Writable(_)
\* The values that can be written: no empty container, no double with more decimals.
Writable(v) ==
    /\ v.type = "kFloat" => DecimalsOf(v.num) <= Decimals
    /\ v.type \in {"kHash", "kArray"} =>
         v.elements # <<>> /\ \A i \in DOMAIN v.elements : Writable(v.elements[i])

(* What serialize writes, the parser reads back, into a new value as well   *)
(* as into one that held something else, for every value that inserts of    *)
(* Values and texts of Documents produce, but for null, negative numbers,   *)
(* more than six decimals, empty containers, and strings or keys with a     *)
(* quote in them (no escape is written, none is read) or with a blank or a  *)
(* byte beyond ASCII in front (JsonValue.h:64-178, 316-365).                *)
RoundTrip ==
    Readable(View(json)) /\ Writable(View(json)) =>
        \A old \in {NewValue, json} :
            LET r == ParseObject(SerilizeImpl(json), 1, old)
            IN r.ok /\ View(r.out) = View(json)

(* A text is read exactly, whatever the value held before, and the parser   *)
(* comes back from every readable document, one without null, negative      *)
(* numbers, escaped quotes and strings or keys that begin with a blank or   *)
(* beyond ASCII; from a file that holds for documents without a blank in a  *)
(* string (JsonValue.h:64-178, 304-315).                                    *)
LoadedIsExact ==
    \A l \in loaded :
        Readable(l.doc) /\ (l.file => " " \notin Range(Write(l.doc, <<>>)))
            => fault = "none" /\ View(json) = l.doc

(* What was inserted is found under its keys, and when the keys were there  *)
(* before, nothing else has changed (JsonValue.h:366-461).                  *)
InsertIsLocal ==
    [][\A val \in Values, path \in KeyPaths :
         Insert(val, path) =>
           /\ \E v \in Range(Get(json', path)) :
                [View(v) EXCEPT !.key = <<>>] = val
           /\ Get(json, path) # <<>> =>
                \A q \in Paths : IsPrefix(path, q) \/ IsPrefix(q, path)
                                   \/ Get(json', q) = Get(json, q)]_vars
=============================================================================
