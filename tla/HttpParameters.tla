--------------------------- MODULE HttpParameters ---------------------------
(***************************************************************************)
(* http/httpParser.cpp: the parameters in a query or in the body of a      *)
(* form, elements key=value with "&" between them.  A text is a sequence   *)
(* of characters, of which "=", "&" and the others, Letters, are told      *)
(* apart.                                                                  *)
(*                                                                         *)
(* parseQueryParam and parseFormBody run the same loop.  It stops at an    *)
(* element without "=", and the rest of the text is then the last element, *)
(* "&" and all.  The operators here are what one turn of the loop and what *)
(* follows it compute; HttpRouting takes the steps.                        *)
(***************************************************************************)
EXTENDS Naturals, Sequences

CONSTANTS MaxText,    \* bound: characters in a text
          Letters     \* the characters that do not separate

ASSUME TextAssumption == MaxText \in Nat

Texts == UNION {[1..n -> Letters \cup {"=", "&"}] : n \in 0..MaxText}

\* std::find of a character in start..end - 1; `end` when it is not there.
Find(text, start, end, char) ==
    IF \E k \in start..end - 1 : text[k] = char
    THEN CHOOSE k \in start..end - 1 :
            text[k] = char /\ \A j \in start..k - 1 : text[j] # char
    ELSE end

End(text) == Len(text) + 1

\* The loop's et, and its equal.
NextAnd(text, start)   == Find(text, start, End(text), "&")
NextEqual(text, start) == Find(text, start, NextAnd(text, start), "=")

\* Does the loop go on after the element at `start`?
TurnsOn(text, start) ==
    /\ NextAnd(text, start) # End(text)
    /\ NextEqual(text, start) # NextAnd(text, start)

\* An assignment through operator[] of a map.
Assign(map, key, value) ==
    [k \in DOMAIN map \cup {key} |-> IF k = key THEN value ELSE map[k]]

\* setQueryParam, setFormBody with the element start..end - 1 and its "=".
Put(params, text, start, equal, end) ==
    Assign(params, SubSeq(text, start, equal - 1), SubSeq(text, equal + 1, end - 1))

LastEqual(text, start) == Find(text, start, End(text), "=")

\* mutant: the last element, which no "&" ends, is forgotten
ForgetLast(params, text, start) == params

\* process last element
PutLast(params, text, start) ==
    IF LastEqual(text, start) = End(text) THEN params
    ELSE Put(params, text, start, LastEqual(text, start), End(text))

\* What parseQueryParam reports; parseFormBody always reports success.
QueryAccepted(text, start) ==
    NextAnd(text, start) = End(text) /\ LastEqual(text, start) # End(text)

-----------------------------------------------------------------------------
(* What a text says *)

\* The elements, as <<first, last>> character.
ElementsOf(text) ==
    {x \in (1..Len(text) + 1) \X (0..Len(text)) :
        /\ x[1] <= x[2] + 1
        /\ x[1] = 1 \/ text[x[1] - 1] = "&"
        /\ x[2] = Len(text) \/ text[x[2] + 1] = "&"
        /\ \A k \in x[1]..x[2] : text[k] # "&"}

\* Where the key of element x ends: its first "=", if it has one.
Equals(text, x) ==
    {q \in x[1]..x[2] : text[q] = "=" /\ \A k \in x[1]..q - 1 : text[k] # "="}

KeyOf(text, x, q)   == SubSeq(text, x[1], q - 1)
ValueOf(text, x, q) == SubSeq(text, q + 1, x[2])

HasKey(text, x, key) == \E q \in Equals(text, x) : KeyOf(text, x, q) = key

HasEqual(text, x) == \E k \in x[1]..x[2] : text[k] = "="

WellFormed(text) == \A x \in ElementsOf(text) : HasEqual(text, x)

\* These are the parameters that the elements in S have, of each key the last one.
Says(text, S, params) ==
    /\ \A key \in DOMAIN params : \E x \in S : HasKey(text, x, key)
    /\ \A x \in S : \A q \in Equals(text, x) :
          LET key == KeyOf(text, x, q)
          IN  /\ key \in DOMAIN params
              /\ \/ \E y \in S : y[1] > x[1] /\ HasKey(text, y, key)
                 \/ params[key] = ValueOf(text, x, q)

AsWritten(text, params) == Says(text, ElementsOf(text), params)

\* At least the elements before the first bad one are there.
KeepsGoodOnes(text, params) ==
    \A x \in ElementsOf(text) :
        (\A y \in ElementsOf(text) : y[1] < x[1] => HasEqual(text, y)) =>
            \A q \in Equals(text, x) : KeyOf(text, x, q) \in DOMAIN params
=============================================================================
