-------------------------- MODULE HttpRoutingProofs --------------------------
(***************************************************************************)
(* The safety properties of HttpRouting, for any threads, methods and      *)
(* paths and texts of any length: what the parser's loop makes of a query  *)
(* or form, and what the maps of handlers answer.                          *)
(***************************************************************************)
EXTENDS HttpRouting, SequenceTheorems, WellFoundedInduction, TLAPS

-----------------------------------------------------------------------------
(* Texts *)

\* A text is a sequence of characters.
LEMMA TextShape ==
    ASSUME NEW txt \in Texts
    PROVE  /\ Len(txt) \in Nat
           /\ DOMAIN txt = 1..Len(txt)
<1>1. PICK n \in 0..MaxText : txt \in [1..n -> Letters \cup {"=", "&"}]
  BY DEF Texts
<1>2. n \in Nat
  BY <1>1, TextAssumption
<1>3. txt \in Seq(Letters \cup {"=", "&"})
  BY <1>1, <1>2, SeqDef
<1> QED BY <1>3, LenProperties

\* std::find gives the first place of the character, or the end of the range.
LEMMA FindFirst ==
    ASSUME NEW txt, NEW s \in Nat, NEW e \in Nat, s <= e, NEW char
    PROVE  /\ Find(txt, s, e, char) \in s..e
           /\ Find(txt, s, e, char) # e => txt[Find(txt, s, e, char)] = char
           /\ \A k \in s..Find(txt, s, e, char) - 1 : txt[k] # char
<1> DEFINE There == {k \in s..e - 1 : txt[k] = char}
           R == OpToRel(<, Nat)
<1>1. CASE There = {}
  <2>1. Find(txt, s, e, char) = e
    BY <1>1 DEF Find
  <2>2. \A k \in s..e - 1 : txt[k] # char
    BY <1>1
  <2> QED BY <2>1, <2>2
<1>2. CASE There # {}
  <2>1. \E k \in There : \A j \in There : ~(<<j, k>> \in R)
    <3>1. There \subseteq Nat
      OBVIOUS
    <3> HIDE DEF There, R
    <3>2. IsWellFoundedOn(R, Nat)
      BY NatLessThanWellFounded DEF R
    <3> QED BY <1>2, <3>1, <3>2, WFMin
  <2>2. PICK k \in There : \A j \in There : ~(<<j, k>> \in R)
    BY <2>1
  <2>3. \A j \in s..k - 1 : txt[j] # char
    <3> SUFFICES ASSUME NEW j \in s..k - 1, txt[j] = char PROVE FALSE
      OBVIOUS
    <3>1. j \in There /\ j < k /\ j \in Nat /\ k \in Nat
      OBVIOUS
    <3> QED BY <2>2, <3>1 DEF OpToRel
  <2>4. \E f \in s..e - 1 : txt[f] = char /\ \A j \in s..f - 1 : txt[j] # char
    BY <2>3
  <2> DEFINE found_ == CHOOSE f \in s..e - 1 :
                          txt[f] = char /\ \A j \in s..f - 1 : txt[j] # char
  <2>5. /\ found_ \in s..e - 1 /\ txt[found_] = char
        /\ \A j \in s..found_ - 1 : txt[j] # char
    BY <2>4
  <2>6. Find(txt, s, e, char) = found_
    BY <1>2 DEF Find
  <2> QED BY <2>5, <2>6
<1> QED BY <1>1, <1>2

-----------------------------------------------------------------------------
(* Elements *)

\* The elements that start before position s.
Before(txt, s) == {x \in ElementsOf(txt) : x[1] < s}

StartsElement(txt, s) == s \in 1..End(txt) /\ (s = 1 \/ txt[s - 1] = "&")

\* What an element is.
LEMMA ElementFacts ==
    ASSUME NEW txt \in Texts, NEW x \in ElementsOf(txt)
    PROVE  /\ x = <<x[1], x[2]>>
           /\ x[1] \in 1..Len(txt) + 1 /\ x[2] \in 0..Len(txt) /\ x[1] <= x[2] + 1
           /\ x[1] = 1 \/ txt[x[1] - 1] = "&"
           /\ x[2] = Len(txt) \/ txt[x[2] + 1] = "&"
           /\ \A k \in x[1]..x[2] : txt[k] # "&"
BY DEF ElementsOf

\* Two elements do not share a character, nor the "&" that ends the first.
LEMMA ElementsApart ==
    ASSUME NEW txt \in Texts, NEW x \in ElementsOf(txt), NEW y \in ElementsOf(txt)
    PROVE  /\ x[1] < y[1] => x[2] + 2 <= y[1]
           /\ x[1] = y[1] => x = y
<1> DEFINE n == Len(txt)
<1>1. n \in Nat
  BY TextShape
<1>2. /\ x[1] \in Nat /\ x[2] \in Nat /\ y[1] \in Nat /\ y[2] \in Nat
      /\ x[1] >= 1 /\ y[1] >= 1 /\ x[1] <= x[2] + 1 /\ y[1] <= y[2] + 1
      /\ x[2] <= n /\ y[2] <= n
      /\ x = <<x[1], x[2]>> /\ y = <<y[1], y[2]>>
      /\ y[1] = 1 \/ txt[y[1] - 1] = "&"
      /\ x[2] = n \/ txt[x[2] + 1] = "&"
      /\ y[2] = n \/ txt[y[2] + 1] = "&"
      /\ \A k \in x[1]..x[2] : txt[k] # "&"
      /\ \A k \in y[1]..y[2] : txt[k] # "&"
  BY <1>1, ElementFacts
<1>3. ASSUME x[1] < y[1] PROVE x[2] + 2 <= y[1]
  <2>1. y[1] - 1 \notin x[1]..x[2]
    BY <1>2, <1>3
  <2> QED BY <1>2, <1>3, <2>1
<1>4. ASSUME x[1] = y[1] PROVE x[2] = y[2]
  <2>1. ~(x[2] < y[2])
    <3> SUFFICES ASSUME x[2] < y[2] PROVE FALSE
      OBVIOUS
    <3>1. x[2] + 1 \in y[1]..y[2] /\ x[2] # n
      BY <1>1, <1>2, <1>4
    <3> QED BY <1>2, <3>1
  <2>2. ~(y[2] < x[2])
    <3> SUFFICES ASSUME y[2] < x[2] PROVE FALSE
      OBVIOUS
    <3>1. y[2] + 1 \in x[1]..x[2] /\ y[2] # n
      BY <1>1, <1>2, <1>4
    <3> QED BY <1>2, <3>1
  <2> QED BY <1>2, <2>1, <2>2
<1> QED BY <1>2, <1>3, <1>4

\* From where an element starts the loop finds the element, and then where the next
\* one starts.
LEMMA NextElement ==
    ASSUME NEW txt \in Texts, NEW s, StartsElement(txt, s)
    PROVE  LET et == NextAnd(txt, s)
           IN  /\ et \in s..End(txt)
               /\ <<s, et - 1>> \in ElementsOf(txt)
               /\ et = End(txt) => ElementsOf(txt) = Before(txt, s) \cup {<<s, et - 1>>}
               /\ et # End(txt) =>
                     /\ StartsElement(txt, et + 1)
                     /\ Before(txt, et + 1) = Before(txt, s) \cup {<<s, et - 1>>}
<1> DEFINE n == Len(txt)
           et == NextAnd(txt, s)
           x == <<s, et - 1>>
<1>1. n \in Nat /\ s \in 1..n + 1 /\ (s = 1 \/ txt[s - 1] = "&")
  BY TextShape DEF StartsElement, End
<1>2. /\ et \in s..n + 1
      /\ et # n + 1 => txt[et] = "&"
      /\ \A k \in s..et - 1 : txt[k] # "&"
  BY <1>1, FindFirst DEF NextAnd, End
<1> HIDE DEF et
<1>3. x \in ElementsOf(txt)
  BY <1>1, <1>2 DEF ElementsOf
<1>4. ASSUME NEW y \in ElementsOf(txt)
      PROVE  y[1] < s \/ y = x \/ y[1] > et
  <2>1. y[1] \in Nat
    BY <1>1, ElementFacts
  <2>2. x[1] = s /\ x[2] = et - 1
    OBVIOUS
  <2>3. x[1] < y[1] => x[2] + 2 <= y[1]
    BY <1>3, ElementsApart
  <2>4. x[1] = y[1] => x = y
    BY <1>3, ElementsApart
  <2> HIDE DEF x
  <2> QED BY <1>1, <1>2, <2>1, <2>2, <2>3, <2>4
<1>5. ASSUME NEW y \in ElementsOf(txt) PROVE y[1] \in Nat /\ y[1] <= n + 1
  BY <1>1, ElementFacts
<1>6. ASSUME et = n + 1 PROVE ElementsOf(txt) = Before(txt, s) \cup {x}
  BY <1>1, <1>3, <1>4, <1>5, <1>6 DEF Before
<1>7. ASSUME et # n + 1
      PROVE  /\ StartsElement(txt, et + 1)
             /\ Before(txt, et + 1) = Before(txt, s) \cup {x}
  <2>1. StartsElement(txt, et + 1)
    BY <1>1, <1>2, <1>7 DEF StartsElement, End
  <2>2. x[1] < et + 1
    BY <1>1, <1>2
  <2>3. ASSUME NEW y \in ElementsOf(txt) PROVE y[1] < et + 1 <=> y[1] < s \/ y = x
    BY <1>1, <1>2, <1>4, <1>5, <2>2
  <2> HIDE DEF x
  <2>4. Before(txt, et + 1) = Before(txt, s) \cup {x}
    BY <1>3, <2>3 DEF Before
  <2> QED BY <2>1, <2>4
<1> QED BY <1>2, <1>3, <1>6, <1>7 DEF et, End

\* An element has one first "=".
LEMMA OneEqual ==
    ASSUME NEW txt \in Texts, NEW x \in ElementsOf(txt),
           NEW q \in Equals(txt, x), NEW r \in Equals(txt, x)
    PROVE  q = r
<1>1. x[1] \in Nat /\ x[2] \in Nat
  BY TextShape, ElementFacts
<1> QED BY <1>1 DEF Equals
-----------------------------------------------------------------------------
(* Parameters *)

\* With one more element, later than the others, the parameters say that one too.
LEMMA SaysOneMore ==
    ASSUME NEW txt \in Texts, NEW S \in SUBSET ElementsOf(txt), NEW P, Says(txt, S, P),
           NEW x \in ElementsOf(txt), \A y \in S : y[1] < x[1],
           NEW q \in Equals(txt, x)
    PROVE  Says(txt, S \cup {x}, Put(P, txt, x[1], q, x[2] + 1))
<1> DEFINE new == Put(P, txt, x[1], q, x[2] + 1)
           key == KeyOf(txt, x, q)
<1> DEFINE value == ValueOf(txt, x, q)
<1>1. /\ DOMAIN new = DOMAIN P \cup {key}
      /\ new[key] = value
      /\ \A k \in DOMAIN P : k # key => new[k] = P[k]
  <2>1. x[2] \in Nat /\ x[2] + 1 - 1 = x[2]
    BY TextShape, ElementFacts
  <2>2. new = Assign(P, key, value)
    BY <2>1 DEF Put, KeyOf, ValueOf
  <2> HIDE DEF new, key, value
  <2> QED BY <2>2 DEF Assign
<1>2. HasKey(txt, x, key)
  BY DEF HasKey
<1> HIDE DEF new
<1>3. \A k \in DOMAIN new : \E y \in S \cup {x} : HasKey(txt, y, k)
  BY <1>1, <1>2 DEF Says
<1>4. ASSUME NEW y \in S \cup {x}, NEW r \in Equals(txt, y)
      PROVE  LET k == KeyOf(txt, y, r)
             IN  /\ k \in DOMAIN new
                 /\ \/ \E z \in S \cup {x} : z[1] > y[1] /\ HasKey(txt, z, k)
                    \/ new[k] = ValueOf(txt, y, r)
  <2>1. CASE y = x
    BY <1>1, <2>1, OneEqual
  <2>2. CASE y \in S
    <3> DEFINE k == KeyOf(txt, y, r)
    <3>1. /\ k \in DOMAIN P
          /\ \/ \E z \in S : z[1] > y[1] /\ HasKey(txt, z, k)
             \/ P[k] = ValueOf(txt, y, r)
      BY <2>2 DEF Says
    <3>2. x[1] > y[1]
      BY <2>2, TextShape, ElementFacts
    <3> QED BY <1>1, <1>2, <3>1, <3>2
  <2> QED BY <2>1, <2>2
<1> QED BY <1>3, <1>4 DEF Says, new

\* No element and no parameters.
LEMMA SaysNothing ==
    ASSUME NEW txt
    PROVE  Says(txt, {}, <<>>)
BY DEF Says

-----------------------------------------------------------------------------
(* The loop *)

\* Before an element is taken: the ones before it had their "=" and are written.
Parsed(txt, s, P) ==
    /\ StartsElement(txt, s)
    /\ \A x \in Before(txt, s) : HasEqual(txt, x)
    /\ Says(txt, Before(txt, s), P)

\* The loop begins so.
LEMMA ParsedAtFirst ==
    ASSUME NEW txt \in Texts
    PROVE  Parsed(txt, 1, <<>>)
<1>1. Before(txt, 1) = {}
  BY TextShape, ElementFacts DEF Before
<1>2. StartsElement(txt, 1)
  BY TextShape DEF StartsElement, End
<1> QED BY <1>1, <1>2, SaysNothing DEF Parsed

\* A turn of it keeps that.
LEMMA TurnKeeps ==
    ASSUME NEW txt \in Texts, NEW s, NEW P, Parsed(txt, s, P), TurnsOn(txt, s)
    PROVE  Parsed(txt, NextAnd(txt, s) + 1,
                  Put(P, txt, s, NextEqual(txt, s), NextAnd(txt, s)))
<1> DEFINE et == NextAnd(txt, s)
           q == NextEqual(txt, s)
           x == <<s, et - 1>>
<1>1. /\ et \in s..End(txt) /\ x \in ElementsOf(txt)
      /\ StartsElement(txt, et + 1)
      /\ Before(txt, et + 1) = Before(txt, s) \cup {x}
  BY NextElement DEF Parsed, TurnsOn
<1>2. s \in Nat /\ et \in Nat /\ s <= et
  BY <1>1, TextShape DEF Parsed, StartsElement, End
<1>3. /\ q \in s..et - 1 /\ txt[q] = "="
      /\ \A k \in s..q - 1 : txt[k] # "="
  BY <1>2, FindFirst DEF NextEqual, TurnsOn
<1> HIDE DEF et, q
<1>4. x[1] = s /\ x[2] = et - 1 /\ x[2] + 1 = et
  BY <1>2
<1>5. q \in Equals(txt, x) /\ HasEqual(txt, x)
  BY <1>2, <1>3 DEF Equals, HasEqual
<1>6. \A y \in Before(txt, s) : y \in ElementsOf(txt) /\ y[1] < x[1]
  BY DEF Before
<1> HIDE DEF x
<1>7. Says(txt, Before(txt, s) \cup {x}, Put(P, txt, x[1], q, x[2] + 1))
  BY <1>1, <1>5, <1>6, SaysOneMore DEF Parsed
<1> QED BY <1>1, <1>4, <1>5, <1>7 DEF Parsed, et, q

\* When it stops, what follows writes the last element; or a query is refused, since
\* an element has no "=", and the parameters of those before it are there.
LEMMA LastKeeps ==
    ASSUME NEW txt \in Texts, NEW s, NEW P, Parsed(txt, s, P), ~TurnsOn(txt, s)
    PROVE  /\ QueryAccepted(txt, s) <=> WellFormed(txt)
           /\ WellFormed(txt) => AsWritten(txt, PutLast(P, txt, s))
           /\ KeepsGoodOnes(txt, PutLast(P, txt, s))
<1> DEFINE et == NextAnd(txt, s)
           end == End(txt)
           last == LastEqual(txt, s)
           new == PutLast(P, txt, s)
           x == <<s, et - 1>>
<1>1. /\ et \in s..end /\ x \in ElementsOf(txt)
      /\ et = end => ElementsOf(txt) = Before(txt, s) \cup {x}
  BY NextElement DEF Parsed
<1>2. s \in Nat /\ et \in Nat /\ end \in Nat /\ s <= et /\ s <= end
  BY <1>1, TextShape DEF Parsed, StartsElement, End
<1>3. /\ last \in s..end
      /\ last # end => txt[last] = "="
      /\ \A k \in s..last - 1 : txt[k] # "="
  BY <1>2, FindFirst DEF LastEqual
<1>4. \A y \in Before(txt, s) : y \in ElementsOf(txt) /\ y[1] < x[1] /\ HasEqual(txt, y)
  BY DEF Before, Parsed
<1>5. x[1] = s /\ x[2] = et - 1 /\ x[2] + 1 = et
  BY <1>2
<1>6. DOMAIN P \subseteq DOMAIN new
  <2>1. CASE last = end
    BY <2>1 DEF PutLast
  <2>2. CASE last # end
    <3>1. new = Put(P, txt, s, last, end)
      BY <2>2 DEF PutLast
    <3>2. DOMAIN Put(P, txt, s, last, end) = DOMAIN P \cup {SubSeq(txt, s, last - 1)}
      BY DEF Put, Assign
    <3> QED BY <3>1, <3>2
  <2> QED BY <2>1, <2>2
\* Every element is well written.
<1>7. CASE et = end /\ last # end
  <2>1. last \in Equals(txt, x) /\ HasEqual(txt, x)
    BY <1>2, <1>3, <1>7 DEF Equals, HasEqual
  <2>2. new = Put(P, txt, x[1], last, x[2] + 1)
    BY <1>5, <1>7 DEF PutLast
  <2> HIDE DEF x, last, new, et
  <2>3. Says(txt, Before(txt, s) \cup {x}, Put(P, txt, x[1], last, x[2] + 1))
    BY <1>1, <1>4, <2>1, SaysOneMore DEF Parsed
  <2>4. AsWritten(txt, new)
    BY <1>1, <1>7, <2>2, <2>3 DEF AsWritten
  <2>5. WellFormed(txt)
    BY <1>1, <1>4, <1>7, <2>1 DEF WellFormed
  <2>6. KeepsGoodOnes(txt, new)
    BY <2>4 DEF AsWritten, Says, KeepsGoodOnes
  <2>7. QueryAccepted(txt, s)
    BY <1>7 DEF QueryAccepted, et, last
  <2> QED BY <2>4, <2>5, <2>6, <2>7 DEF new
\* Element x has no "=".
<1>8. CASE ~(et = end /\ last # end)
  <2>1. \A k \in s..et - 1 : txt[k] # "="
    <3>1. CASE et = end
      BY <1>2, <1>3, <1>8, <3>1
    <3>2. CASE et # end
      <4>1. NextEqual(txt, s) = et
        BY <3>2 DEF TurnsOn
      <4> QED BY <1>2, <4>1, FindFirst DEF NextEqual
    <3> QED BY <3>1, <3>2
  <2>2. ~HasEqual(txt, x) /\ Equals(txt, x) = {}
    BY <2>1 DEF HasEqual, Equals
  <2>3. ~WellFormed(txt)
    BY <1>1, <2>2 DEF WellFormed
  <2>4. ~QueryAccepted(txt, s)
    BY <1>8 DEF QueryAccepted
  <2>5. ASSUME NEW y \in ElementsOf(txt),
               \A z \in ElementsOf(txt) : z[1] < y[1] => HasEqual(txt, z),
               NEW q \in Equals(txt, y)
        PROVE  KeyOf(txt, y, q) \in DOMAIN new
    <3>1. ~(x[1] < y[1])
      BY <1>1, <2>2, <2>5
    <3>2. y # x
      BY <2>2, <2>5
    <3>3. y \in Before(txt, s)
      <4>1. y[1] \in Nat
        BY TextShape, ElementFacts
      <4>2. x[1] # y[1]
        BY <1>1, <3>2, ElementsApart
      <4> QED BY <1>2, <1>5, <3>1, <4>1, <4>2 DEF Before
    <3>4. KeyOf(txt, y, q) \in DOMAIN P
      BY <3>3 DEF Parsed, Says
    <3> QED BY <1>6, <3>4
  <2>6. KeepsGoodOnes(txt, new)
    BY <2>5 DEF KeepsGoodOnes
  <2> QED BY <2>3, <2>4, <2>6
<1> QED BY <1>7, <1>8
-----------------------------------------------------------------------------
(* The invariant *)

\* No thread has a request before the server has started.  One that inserts does so for
\* a path that is not in the map, and has been counted; two are not in a map that one
\* of them inserts into, unless it is damaged; and one that reads finds an entry.
Inside ==
    /\ \A t \in Threads : pc[t] # "idle" => serving /\ request[t] \in Requests
    /\ \A t \in Threads : inserts[t] =>
          /\ pc[t] = "inMap"
          /\ request[t].method \in stirred
          /\ request[t].method \notin corrupt => map[Key(request[t])] = "absent"
    /\ \A t, u \in Threads :
          inserts[t] /\ u # t /\ pc[u] = "inMap" /\ request[u].method = request[t].method
          => request[t].method \in corrupt
    /\ \A t \in Threads :
          pc[t] = "inMap" /\ ~inserts[t] => map[Key(request[t])] # "absent"

\* The maps hold what was registered, and no entry or an empty one for the other keys.
MapsKept ==
    \A key \in Keys :
        \/ map[key] = registered[key]
        \/ map[key] = "absent" /\ registered[key] = "empty"

\* Where each thread's parser is.
ParsingAt(t) ==
    /\ pc[t] # "parse" => start[t] = 1
    /\ pc[t] = "idle" => params[t] = <<>>
    /\ pc[t] = "parse" => Parsed(text, start[t], params[t])

\* What ParamsAsWritten says of one thread.
WrittenAt(t) ==
    /\ pc[t] = "refuse" => ~WellFormed(text)
    /\ pc[t] \in {"lookup", "inMap", "answer"} =>
          /\ WellFormed(text) \/ request[t].method \in Forms
          /\ WellFormed(text) => AsWritten(text, params[t])
          /\ KeepsGoodOnes(text, params[t])

RoutingInv == TypeOK /\ Inside /\ MapsKept /\ RaceNeedsStranger

ParsingInv == TypeOK /\ \A t \in Threads : ParsingAt(t) /\ WrittenAt(t)

\* The types, in every initial state.
LEMMA TypeInit == Init => TypeOK
<1> SUFFICES ASSUME Init PROVE TypeOK
  OBVIOUS
<1>1. 1 \in 1..End(text)
  BY TextShape DEF Init, End
<1>2. /\ start \in [Threads -> 1..End(text)] /\ DOMAIN params = Threads
      /\ request \in [Threads -> Requests \cup {NoRequest}]
  BY <1>1 DEF Init
<1> QED BY <1>2 DEF Init, TypeOK, Functions, Entries

\* Who has a request asks for a key.
LEMMA KeyTyped ==
    ASSUME Inside, NEW t \in Threads, pc[t] # "idle"
    PROVE  /\ request[t].method \in Methods
           /\ Key(request[t]) \in Keys
BY DEF Inside, Requests, Key, Keys

\* What operator[] refers to is a function, never the lack of one.
LEMMA GivesFunction ==
    ASSUME TypeOK, Inside, NEW t \in Threads, pc[t] = "inMap"
    PROVE  Gives(t) \in Functions
<1>1. Key(request[t]) \in Keys
  BY KeyTyped
<1>2. ~inserts[t] => map[Key(request[t])] \in Entries \ {"absent"}
  BY <1>1 DEF TypeOK, Inside
<1> QED BY <1>2 DEF Gives, Entries, Functions

\* A function is stored in the maps.
LEMMA StoredTyped ==
    ASSUME TypeOK, NEW key \in Keys, NEW func \in Functions
    PROVE  Stored(key, func) \in [Keys -> Entries]
BY DEF TypeOK, Stored, Entries

\* The types, after every step.
LEMMA TypeNext ==
    ASSUME TypeOK, Inside, [Next]_vars
    PROVE  TypeOK'
<1>1. CASE HandleFunc
  <2>1. PICK m \in Methods, p \in Paths, func \in Functions :
            /\ map' = Stored(<<m, p>>, func)
            /\ registered' = [registered EXCEPT ![<<m, p>>] = func]
            /\ corrupt' = corrupt \/ corrupt' = corrupt \cup {m}
            /\ stirred' = stirred \/ stirred' = stirred \cup {m}
    BY <1>1 DEF HandleFunc
  <2>2. map' \in [Keys -> Entries]
    BY <2>1, StoredTyped DEF Keys
  <2>3. registered' \in [Keys -> Functions]
    BY <2>1 DEF TypeOK
  <2>4. corrupt' \subseteq Methods /\ stirred' \subseteq Methods
    BY <2>1 DEF TypeOK
  <2> QED BY <1>1, <2>2, <2>3, <2>4 DEF HandleFunc, TypeOK, parserVars
<1>2. CASE Start
  BY <1>2 DEF Start, TypeOK, mapVars, parserVars
<1>3. ASSUME NEW t \in Threads, Receive(t) PROVE TypeOK'
  BY <1>3 DEF Receive, TypeOK, mapVars, parserVars
<1>4. ASSUME NEW t \in Threads, ParseElement(t) PROVE TypeOK'
  <2>1. NextAnd(text, start[t]) + 1 \in 1..End(text)
    <3>1. /\ start[t] \in Nat /\ End(text) \in Nat /\ 1 <= start[t]
          /\ start[t] <= End(text)
      BY TextShape DEF TypeOK, End
    <3>2. NextAnd(text, start[t]) \in start[t]..End(text)
      BY <3>1, FindFirst DEF NextAnd
    <3>3. NextAnd(text, start[t]) # End(text)
      BY <1>4 DEF ParseElement, TurnsOn
    <3> QED BY <3>1, <3>2, <3>3
  <2>2. /\ start' \in [Threads -> 1..End(text')]
        /\ DOMAIN params' = Threads
    BY <1>4, <2>1 DEF ParseElement, TypeOK
  <2> QED BY <1>4, <2>2 DEF ParseElement, TypeOK, mapVars
<1>5. ASSUME NEW t \in Threads, ParseLast(t) PROVE TypeOK'
  <2>1. 1 \in 1..End(text)
    BY TextShape DEF TypeOK, End
  <2> QED BY <1>5, <2>1 DEF ParseLast, TypeOK, mapVars
<1>6. ASSUME NEW t \in Threads, EnterMap(t) PROVE TypeOK'
  <2>1. request[t].method \in Methods
    BY <1>6, KeyTyped DEF EnterMap
  <2>2. Inserts(request[t]) \in BOOLEAN
    BY DEF Inserts
  <2>3. inserts' \in [Threads -> BOOLEAN]
    BY <1>6, <2>2 DEF EnterMap, TypeOK
  <2>4. corrupt' \subseteq Methods /\ stirred' \subseteq Methods
    BY <1>6, <2>1 DEF EnterMap, TypeOK
  <2> QED BY <1>6, <2>3, <2>4 DEF EnterMap, TypeOK, parserVars
<1>7. ASSUME NEW t \in Threads, LeaveMap(t) PROVE TypeOK'
  <2>1. Gives(t) \in Functions /\ Key(request[t]) \in Keys
    BY <1>7, GivesFunction, KeyTyped DEF LeaveMap
  <2>2. \E any \in Functions : found' = [found EXCEPT ![t] = any]
    BY <1>7, <2>1, Zenon DEF LeaveMap
  <2>3. found' \in [Threads -> Functions]
    BY <2>2 DEF TypeOK
  <2>4. map' \in [Keys -> Entries]
    BY <1>7, <2>1, StoredTyped DEF LeaveMap, TypeOK
  <2>5. inserts' \in [Threads -> BOOLEAN]
    BY <1>7 DEF LeaveMap, TypeOK
  <2> QED BY <1>7, <2>3, <2>4, <2>5 DEF LeaveMap, TypeOK, parserVars
<1>8. ASSUME NEW t \in Threads, Respond(t) PROVE TypeOK'
  BY <1>8 DEF Respond, TypeOK, mapVars, Functions
<1>9. CASE UNCHANGED vars
  BY <1>9 DEF vars, mapVars, parserVars, TypeOK
<1> QED BY <1>1, <1>2, <1>3, <1>4, <1>5, <1>6, <1>7, <1>8, <1>9 DEF Next

\* The invariant says nothing of what the parsers change.
LEMMA RoutingFrame ==
    ASSUME RoutingInv, TypeOK', UNCHANGED <<mapVars, inserts>>,
           serving => serving',
           \A t \in Threads :
               /\ pc[t] = "inMap" <=> pc'[t] = "inMap"
               /\ pc'[t] # "idle" => serving' /\ request'[t] \in Requests
               /\ pc[t] = "inMap" => request'[t] = request[t]
    PROVE  RoutingInv'
<1>1. Inside'
  <2>1. \A t \in Threads : pc'[t] # "idle" => serving' /\ request'[t] \in Requests
    OBVIOUS
  <2>2. ASSUME NEW t \in Threads, inserts'[t]
        PROVE  /\ pc[t] = "inMap" /\ pc'[t] = "inMap" /\ request'[t] = request[t]
               /\ request[t].method \in stirred
               /\ request[t].method \notin corrupt => map[Key(request[t])] = "absent"
    BY <2>2 DEF RoutingInv, Inside
  <2>3. \A t, u \in Threads :
            inserts'[t] /\ u # t /\ pc'[u] = "inMap" /\ request'[u].method = request'[t].method
            => request'[t].method \in corrupt'
    BY <2>2 DEF RoutingInv, Inside, mapVars
  <2>4. \A t \in Threads :
            pc'[t] = "inMap" /\ ~inserts'[t] => map'[Key(request'[t])] # "absent"
    BY DEF RoutingInv, Inside, mapVars
  <2> QED BY <2>1, <2>2, <2>3, <2>4 DEF Inside, Key, mapVars
<1>2. MapsKept' /\ RaceNeedsStranger'
  BY DEF RoutingInv, MapsKept, RaceNeedsStranger, mapVars
<1> QED BY <1>1, <1>2 DEF RoutingInv

\* A function that is registered comes after what the look-ups have left; a thread that
\* inserts meanwhile, or reads what is replaced, races.
LEMMA RegisterNext ==
    ASSUME RoutingInv, TypeOK', HandleFunc
    PROVE  RoutingInv'
<1> USE DEF RoutingInv
<1>1. PICK m \in Methods, p \in Paths, func \in Functions :
          /\ map' = Stored(<<m, p>>, func)
          /\ registered' = [registered EXCEPT ![<<m, p>>] = func]
          /\ corrupt' = IF \E u \in InMap(m) :
                               \/ map[<<m, p>>] = "absent"
                               \/ inserts[u] \/ Key(request[u]) = <<m, p>>
                        THEN corrupt \cup {m} ELSE corrupt
          /\ stirred' = IF serving THEN stirred \cup {m} ELSE stirred
  BY DEF HandleFunc
<1> DEFINE key == <<m, p>>
<1>2. UNCHANGED <<serving, pc, request, inserts>>
  BY DEF HandleFunc
<1>3. key \in Keys /\ func # "absent"
  BY RoutingAssumption DEF Keys, Functions
<1>4. /\ map'[key] = func /\ registered'[key] = func
      /\ \A other \in Keys : other # key =>
            map'[other] = map[other] /\ registered'[other] = registered[other]
  BY <1>1, <1>3 DEF Stored, TypeOK
<1>5. MapsKept'
  BY <1>4 DEF MapsKept
<1>6. corrupt \subseteq corrupt' /\ stirred \subseteq stirred'
  BY <1>1
<1>7. RaceNeedsStranger'
  <2>1. CASE InMap(m) = {}
    BY <1>1, <1>6, <2>1 DEF RaceNeedsStranger
  <2>2. CASE InMap(m) # {}
    <3>1. serving
      BY <2>2 DEF InMap, Inside
    <3>2. stirred' = stirred \cup {m}
      BY <1>1, <3>1
    <3> QED BY <1>1, <3>2 DEF RaceNeedsStranger
  <2> QED BY <2>1, <2>2
<1>8. \A t \in Threads : pc[t] # "idle" => Key(request[t]) \in Keys
  BY KeyTyped
<1>9. ASSUME NEW t \in Threads, inserts[t], request[t].method \notin corrupt'
      PROVE  map'[Key(request[t])] = "absent"
  <2>1. pc[t] = "inMap" /\ map[Key(request[t])] = "absent"
    BY <1>6, <1>9 DEF Inside
  <2>2. request[t].method # m
    BY <1>1, <1>9, <2>1 DEF InMap
  <2>3. Key(request[t]) # key
    BY <2>2 DEF Key
  <2> QED BY <1>4, <1>8, <2>1, <2>3
<1>10. ASSUME NEW t \in Threads, pc[t] = "inMap", ~inserts[t]
       PROVE  map'[Key(request[t])] # "absent"
  <2>1. map[Key(request[t])] # "absent"
    BY <1>10 DEF Inside
  <2> QED BY <1>3, <1>4, <1>8, <1>10, <2>1
<1>11. Inside'
  BY <1>2, <1>6, <1>9, <1>10 DEF Inside, Key
<1> QED BY <1>5, <1>7, <1>11

\* A race takes a thread that inserts, and that one asks for what is not there.
LEMMA EnterNext ==
    ASSUME RoutingInv, TypeOK', NEW t \in Threads, EnterMap(t)
    PROVE  RoutingInv'
<1> USE DEF RoutingInv
<1> DEFINE r == request[t]
<1>1. /\ pc[t] = "lookup" /\ pc' = [pc EXCEPT ![t] = "inMap"]
      /\ inserts' = [inserts EXCEPT ![t] = Inserts(r)]
      /\ UNCHANGED <<map, registered, serving, request>>
  BY DEF EnterMap
<1>2. /\ corrupt \subseteq corrupt' /\ stirred \subseteq stirred'
      /\ registered[Key(r)] = "empty" => r.method \in stirred'
      /\ (\E u \in InMap(r.method) : Inserts(r) \/ inserts[u]) => r.method \in corrupt'
      /\ corrupt' = corrupt \/ corrupt' = corrupt \cup {r.method}
  BY DEF EnterMap
<1>3. r \in Requests /\ serving /\ Key(r) \in Keys
  BY <1>1, KeyTyped DEF Inside
<1>4. Inserts(r) => map[Key(r)] = "absent" /\ r.method \in stirred'
  <2>1. Inserts(r) => registered[Key(r)] = "empty"
    BY <1>3, RoutingAssumption DEF Inserts, MapsKept, TypeOK, Functions
  <2> QED BY <1>2, <2>1 DEF Inserts
<1>5. MapsKept'
  BY <1>1 DEF MapsKept
<1>6. RaceNeedsStranger'
  <2>1. CASE \E u \in InMap(r.method) : Inserts(r) \/ inserts[u]
    <3>1. r.method \in stirred'
      BY <1>2, <1>4, <2>1 DEF Inside, InMap
    <3> QED BY <1>2, <3>1 DEF RaceNeedsStranger
  <2>2. CASE ~\E u \in InMap(r.method) : Inserts(r) \/ inserts[u]
    <3>1. corrupt' = corrupt
      BY <2>2 DEF EnterMap
    <3> QED BY <1>2, <3>1 DEF RaceNeedsStranger
  <2> QED BY <2>1, <2>2
<1>7. ASSUME NEW u \in Threads, inserts'[u]
      PROVE  /\ pc'[u] = "inMap" /\ request[u].method \in stirred'
             /\ request[u].method \notin corrupt' => map[Key(request[u])] = "absent"
  <2>1. CASE u = t
    BY <1>1, <1>4, <1>7, <2>1 DEF TypeOK
  <2>2. CASE u # t
    BY <1>1, <1>2, <1>7, <2>2 DEF TypeOK, Inside
  <2> QED BY <2>1, <2>2
<1>8. ASSUME NEW u \in Threads, NEW w \in Threads, inserts'[u], w # u, pc'[w] = "inMap",
             request[w].method = request[u].method
      PROVE  request[u].method \in corrupt'
  <2>1. CASE u = t
    <3>1. Inserts(r) /\ w \in InMap(r.method)
      BY <1>1, <1>8, <2>1 DEF TypeOK, InMap
    <3> QED BY <1>2, <2>1, <3>1
  <2>2. CASE w = t
    <3>1. inserts[u] /\ u \in InMap(r.method)
      BY <1>1, <1>8, <2>2 DEF TypeOK, InMap, Inside
    <3> QED BY <1>2, <1>8, <2>2, <3>1
  <2>3. CASE u # t /\ w # t
    BY <1>1, <1>2, <1>8, <2>3 DEF TypeOK, Inside
  <2> QED BY <2>1, <2>2, <2>3
<1>9. ASSUME NEW u \in Threads, pc'[u] = "inMap", ~inserts'[u]
      PROVE  map[Key(request[u])] # "absent"
  <2>1. CASE u = t
    BY <1>1, <1>9, <2>1 DEF TypeOK, Inserts
  <2>2. CASE u # t
    BY <1>1, <1>9, <2>2 DEF TypeOK, Inside
  <2> QED BY <2>1, <2>2
<1>10. \A u \in Threads : pc'[u] # "idle" => serving /\ request[u] \in Requests
  BY <1>1, <1>3 DEF TypeOK, Inside
<1>11. Inside'
  BY <1>1, <1>7, <1>8, <1>9, <1>10 DEF Inside, Key
<1> QED BY <1>5, <1>6, <1>11

\* In a map that is not damaged, a thread takes out what was last registered.
LEMMA LeaveReads ==
    ASSUME RoutingInv, NEW t \in Threads, pc[t] = "inMap", request[t].method \notin corrupt
    PROVE  Gives(t) = registered[Key(request[t])]
<1>1. Key(request[t]) \in Keys
  BY KeyTyped DEF RoutingInv
<1>2. CASE inserts[t]
  <2>1. map[Key(request[t])] = "absent" /\ registered[Key(request[t])] # "absent"
    BY <1>1, <1>2, RoutingAssumption DEF RoutingInv, Inside, TypeOK, Functions
  <2> QED BY <1>1, <1>2, <2>1 DEF RoutingInv, MapsKept, Gives
<1>3. CASE ~inserts[t]
  BY <1>1, <1>3 DEF RoutingInv, Inside, MapsKept, Gives
<1> QED BY <1>2, <1>3

\* It leaves there what it takes out, so the other keys and their readers see no change.
LEMMA LeaveNext ==
    ASSUME RoutingInv, TypeOK', NEW t \in Threads, LeaveMap(t)
    PROVE  RoutingInv'
<1> USE DEF RoutingInv
<1> DEFINE k == Key(request[t])
<1>1. /\ pc[t] = "inMap" /\ pc' = [pc EXCEPT ![t] = "answer"]
      /\ inserts' = [inserts EXCEPT ![t] = FALSE]
      /\ UNCHANGED <<registered, corrupt, stirred, serving, request>>
      /\ \/ request[t].method \notin corrupt /\ map' = Stored(k, Gives(t))
         \/ request[t].method \in corrupt /\ map' = map
  BY DEF LeaveMap
<1>2. k \in Keys /\ Gives(t) # "absent"
  BY <1>1, KeyTyped, GivesFunction, RoutingAssumption DEF Functions
<1>3. /\ \A other \in Keys : other # k => map'[other] = map[other]
      /\ map'[k] = map[k] \/ (request[t].method \notin corrupt /\ map'[k] = Gives(t))
  BY <1>1, <1>2 DEF Stored, TypeOK
<1>4. MapsKept'
  BY <1>1, <1>2, <1>3, LeaveReads DEF MapsKept
<1>5. RaceNeedsStranger'
  BY <1>1 DEF RaceNeedsStranger
<1>6. ASSUME NEW u \in Threads, inserts'[u]
      PROVE  /\ u # t /\ inserts[u] /\ pc'[u] = "inMap" /\ request[u].method \in stirred
             /\ request[u].method \notin corrupt => map'[Key(request[u])] = "absent"
  <2>1. u # t /\ inserts[u] /\ pc[u] = "inMap" /\ pc'[u] = "inMap"
    BY <1>1, <1>6 DEF TypeOK, Inside
  <2>2. ASSUME request[u].method \notin corrupt PROVE map'[Key(request[u])] = "absent"
    <3>1. request[t].method # request[u].method
      BY <1>1, <2>1, <2>2 DEF Inside
    <3>2. Key(request[u]) # k /\ Key(request[u]) \in Keys
      BY <2>1, <3>1, KeyTyped DEF Key
    <3> QED BY <1>3, <2>1, <2>2, <3>2 DEF Inside
  <2> QED BY <2>1, <2>2 DEF Inside
<1>7. \A u, w \in Threads :
          inserts'[u] /\ w # u /\ pc'[w] = "inMap" /\ request[w].method = request[u].method
          => request[u].method \in corrupt
  BY <1>1, <1>6 DEF TypeOK, Inside
<1>8. ASSUME NEW u \in Threads, pc'[u] = "inMap", ~inserts'[u]
      PROVE  map'[Key(request[u])] # "absent"
  <2>1. u # t /\ pc[u] = "inMap" /\ ~inserts[u]
    BY <1>1, <1>8 DEF TypeOK
  <2>2. Key(request[u]) \in Keys /\ map[Key(request[u])] # "absent"
    BY <2>1, KeyTyped DEF Inside
  <2> QED BY <1>2, <1>3, <2>2
<1>9. \A u \in Threads : pc'[u] # "idle" => serving /\ request[u] \in Requests
  BY <1>1 DEF TypeOK, Inside
<1>10. Inside'
  BY <1>1, <1>6, <1>7, <1>8, <1>9 DEF Inside, Key
<1> QED BY <1>4, <1>5, <1>10

\* The maps, after every step.
LEMMA RoutingNext ==
    ASSUME RoutingInv, [Next]_vars
    PROVE  RoutingInv'
<1>1. TypeOK'
  BY TypeNext DEF RoutingInv
<1>2. CASE HandleFunc
  BY <1>1, <1>2, RegisterNext
<1>3. CASE Start
  BY <1>1, <1>3, RoutingFrame DEF Start, RoutingInv, Inside
<1>4. ASSUME NEW t \in Threads, Receive(t) PROVE RoutingInv'
  BY <1>1, <1>4, RoutingFrame DEF Receive, RoutingInv, Inside, TypeOK
<1>5. ASSUME NEW t \in Threads, ParseElement(t) PROVE RoutingInv'
  BY <1>1, <1>5, RoutingFrame DEF ParseElement, RoutingInv, Inside
<1>6. ASSUME NEW t \in Threads, ParseLast(t) PROVE RoutingInv'
  BY <1>1, <1>6, RoutingFrame DEF ParseLast, RoutingInv, Inside, TypeOK
<1>7. ASSUME NEW t \in Threads, EnterMap(t) PROVE RoutingInv'
  BY <1>1, <1>7, EnterNext
<1>8. ASSUME NEW t \in Threads, LeaveMap(t) PROVE RoutingInv'
  BY <1>1, <1>8, LeaveNext
<1>9. ASSUME NEW t \in Threads, Respond(t) PROVE RoutingInv'
  BY <1>1, <1>9, RoutingFrame DEF Respond, RoutingInv, Inside, TypeOK
<1>10. CASE UNCHANGED vars
  BY <1>1, <1>10, RoutingFrame DEF vars, RoutingInv, Inside
<1> QED BY <1>2, <1>3, <1>4, <1>5, <1>6, <1>7, <1>8, <1>9, <1>10 DEF Next

\* A thread whose own variables do not change keeps what it has.
LEMMA OthersKeep ==
    ASSUME ParsingInv, NEW u \in Threads, UNCHANGED text,
           pc'[u] = pc[u], start'[u] = start[u], params'[u] = params[u],
           request'[u] = request[u]
    PROVE  (ParsingAt(u) /\ WrittenAt(u))'
<1>1. ParsingAt(u) /\ WrittenAt(u)
  BY DEF ParsingInv
<1> QED BY <1>1 DEF ParsingAt, WrittenAt

\* The parsers, after every step: a turn of the loop takes the next element, and what
\* follows the loop takes the last one.
LEMMA ParsingNext ==
    ASSUME ParsingInv, Inside, [Next]_vars
    PROVE  ParsingInv'
<1>1. TypeOK'
  BY TypeNext DEF ParsingInv
<1>2. CASE UNCHANGED <<text, pc, start, params, request>>
  BY <1>1, <1>2, OthersKeep DEF ParsingInv
<1>3. ASSUME NEW t \in Threads,
             UNCHANGED text,
             \A u \in Threads : u # t =>
                 /\ pc'[u] = pc[u] /\ start'[u] = start[u]
                 /\ params'[u] = params[u] /\ request'[u] = request[u],
             (ParsingAt(t) /\ WrittenAt(t))'
      PROVE  ParsingInv'
  <2>1. ASSUME NEW u \in Threads PROVE (ParsingAt(u) /\ WrittenAt(u))'
    <3>1. CASE u = t
      BY <1>3, <3>1
    <3>2. CASE u # t
      BY <1>3, <3>2, OthersKeep
    <3> QED BY <3>1, <3>2
  <2> QED BY <1>1, <2>1 DEF ParsingInv
<1>4. CASE HandleFunc \/ Start \/ UNCHANGED vars
  BY <1>2, <1>4 DEF HandleFunc, Start, vars, parserVars
<1>5. ASSUME NEW t \in Threads, Receive(t) PROVE ParsingInv'
  <2>1. /\ pc'[t] = "parse" /\ start'[t] = start[t] /\ params'[t] = params[t]
        /\ UNCHANGED text /\ pc[t] = "idle"
    BY <1>5 DEF Receive, ParsingInv, TypeOK, parserVars
  <2>2. start[t] = 1 /\ params[t] = <<>> /\ text \in Texts
    BY <2>1 DEF ParsingInv, ParsingAt, TypeOK
  <2>3. Parsed(text, 1, <<>>)
    BY <2>2, ParsedAtFirst
  <2>4. (ParsingAt(t) /\ WrittenAt(t))'
    BY <2>1, <2>2, <2>3 DEF ParsingAt, WrittenAt
  <2>5. \A u \in Threads : u # t =>
            /\ pc'[u] = pc[u] /\ start'[u] = start[u]
            /\ params'[u] = params[u] /\ request'[u] = request[u]
    BY <1>5 DEF Receive, ParsingInv, TypeOK, parserVars
  <2> QED BY <1>3, <2>1, <2>4, <2>5
<1>6. ASSUME NEW t \in Threads, ParseElement(t) PROVE ParsingInv'
  <2> DEFINE s == start[t]
             P == params[t]
             new == Put(P, text, s, NextEqual(text, s), NextAnd(text, s))
  <2>1. /\ pc'[t] = "parse" /\ start'[t] = NextAnd(text, s) + 1 /\ params'[t] = new
        /\ UNCHANGED text /\ pc[t] = "parse" /\ TurnsOn(text, s)
    BY <1>6 DEF ParseElement, ParsingInv, TypeOK
  <2>2. Parsed(text, s, P) /\ text \in Texts
    BY <2>1 DEF ParsingInv, ParsingAt, TypeOK
  <2>3. Parsed(text, NextAnd(text, s) + 1, new)
    BY <2>1, <2>2, TurnKeeps
  <2> HIDE DEF new, s
  <2>4. (ParsingAt(t) /\ WrittenAt(t))'
    BY <2>1, <2>3 DEF ParsingAt, WrittenAt
  <2>5. \A u \in Threads : u # t =>
            /\ pc'[u] = pc[u] /\ start'[u] = start[u]
            /\ params'[u] = params[u] /\ request'[u] = request[u]
    BY <1>6 DEF ParseElement, ParsingInv, TypeOK
  <2> QED BY <1>3, <2>1, <2>4, <2>5
<1>7. ASSUME NEW t \in Threads, ParseLast(t) PROVE ParsingInv'
  <2> DEFINE s == start[t]
             P == params[t]
             new == PutLast(P, text, s)
             passed == request[t].method \in Forms \/ QueryAccepted(text, s)
  <2>1. /\ pc'[t] = (IF passed THEN "lookup" ELSE "refuse")
        /\ start'[t] = 1 /\ params'[t] = new /\ request'[t] = request[t]
        /\ UNCHANGED text /\ pc[t] = "parse" /\ ~TurnsOn(text, s)
    BY <1>7 DEF ParseLast, ParsingInv, TypeOK
  <2>2. Parsed(text, s, P) /\ text \in Texts
    BY <2>1 DEF ParsingInv, ParsingAt, TypeOK
  <2>3. /\ QueryAccepted(text, s) <=> WellFormed(text)
        /\ WellFormed(text) => AsWritten(text, new)
        /\ KeepsGoodOnes(text, new)
    BY <2>1, <2>2, LastKeeps
  <2> HIDE DEF new
  <2>4. (ParsingAt(t) /\ WrittenAt(t))'
    <3>1. CASE passed
      BY <2>1, <2>3, <3>1 DEF ParsingAt, WrittenAt
    <3>2. CASE ~passed
      BY <2>1, <2>3, <3>2 DEF ParsingAt, WrittenAt
    <3> QED BY <3>1, <3>2
  <2>5. \A u \in Threads : u # t =>
            /\ pc'[u] = pc[u] /\ start'[u] = start[u]
            /\ params'[u] = params[u] /\ request'[u] = request[u]
    BY <1>7 DEF ParseLast, ParsingInv, TypeOK
  <2> QED BY <1>3, <2>1, <2>4, <2>5
<1>8. ASSUME NEW t \in Threads, EnterMap(t) \/ LeaveMap(t) PROVE ParsingInv'
  <2>1. /\ \/ pc[t] = "lookup" /\ pc' = [pc EXCEPT ![t] = "inMap"]
           \/ pc[t] = "inMap" /\ pc' = [pc EXCEPT ![t] = "answer"]
        /\ UNCHANGED <<text, start, params, request>>
    BY <1>8 DEF EnterMap, LeaveMap, parserVars
  <2>2. ParsingAt(t) /\ WrittenAt(t)
    BY DEF ParsingInv
  <2>3. (ParsingAt(t) /\ WrittenAt(t))'
    BY <2>1, <2>2 DEF ParsingAt, WrittenAt, ParsingInv, TypeOK
  <2>4. \A u \in Threads : u # t => pc'[u] = pc[u]
    BY <2>1 DEF ParsingInv, TypeOK
  <2> QED BY <1>3, <2>1, <2>3, <2>4
<1>9. ASSUME NEW t \in Threads, Respond(t) PROVE ParsingInv'
  <2>1. /\ pc'[t] = "idle" /\ params'[t] = <<>> /\ start'[t] = start[t]
        /\ UNCHANGED text /\ pc[t] \in {"answer", "refuse"}
    BY <1>9 DEF Respond, ParsingInv, TypeOK
  <2>2. (ParsingAt(t) /\ WrittenAt(t))'
    BY <2>1 DEF ParsingAt, WrittenAt, ParsingInv
  <2>3. \A u \in Threads : u # t =>
            /\ pc'[u] = pc[u] /\ start'[u] = start[u]
            /\ params'[u] = params[u] /\ request'[u] = request[u]
    BY <1>9 DEF Respond, ParsingInv, TypeOK
  <2> QED BY <1>3, <2>1, <2>2, <2>3
<1> QED BY <1>4, <1>5, <1>6, <1>7, <1>8, <1>9 DEF Next

-----------------------------------------------------------------------------
(* Theorems *)

LEMMA RoutingHolds == Spec => []RoutingInv
<1>1. Init => RoutingInv
  <2> SUFFICES ASSUME Init PROVE RoutingInv
    OBVIOUS
  <2> QED BY TypeInit DEF Init, RoutingInv, Inside, MapsKept, RaceNeedsStranger
<1>2. RoutingInv /\ [Next]_vars => RoutingInv'
  BY RoutingNext
<1> QED BY <1>1, <1>2, PTL DEF Spec

\* The state has its type.
THEOREM TypeCorrect == Spec => []TypeOK
<1>1. RoutingInv => TypeOK
  BY DEF RoutingInv
<1> QED BY <1>1, RoutingHolds, PTL

\* A request gets the function that was last registered for its method and path, or none
\* if none was, whatever look-ups have written to the maps before and other threads ask
\* for meanwhile, in a map no race has damaged (httpServer.cpp:98-155).
THEOREM RoutedRight == Spec => RoutedAsRegistered
<1> DEFINE Reads == \A t \in Threads :
               /\ pc[t] = "inMap" /\ pc'[t] = "answer"
               /\ request[t].method \notin corrupt
               => found'[t] = registered[Key(request[t])]
<1>1. ASSUME RoutingInv, [Next]_vars PROVE [Reads]_vars
  <2>1. ASSUME NEW t \in Threads, pc[t] = "inMap", pc'[t] = "answer",
               request[t].method \notin corrupt
        PROVE  found'[t] = registered[Key(request[t])]
    <3>1. LeaveMap(t)
      <4>1. ~HandleFunc /\ ~Start /\ ~UNCHANGED vars
        BY <2>1 DEF HandleFunc, Start, vars
      <4>2. PICK u \in Threads :
                Receive(u) \/ ParseElement(u) \/ ParseLast(u)
                \/ EnterMap(u) \/ LeaveMap(u) \/ Respond(u)
        BY <1>1, <4>1 DEF Next
      <4>3. pc \in [Threads -> {"idle", "parse", "refuse", "lookup", "inMap", "answer"}]
        BY <1>1 DEF RoutingInv, TypeOK
      <4>4. ~Receive(u) /\ ~ParseElement(u) /\ ~EnterMap(u) /\ ~Respond(u)
        BY <2>1, <4>3 DEF Receive, ParseElement, EnterMap, Respond
      <4>5. ~ParseLast(u)
        BY <2>1, <4>3 DEF ParseLast
      <4>6. LeaveMap(u)
        BY <4>2, <4>4, <4>5
      <4>7. pc' = [pc EXCEPT ![u] = "answer"] /\ pc[u] = "inMap"
        BY <4>6 DEF LeaveMap
      <4> QED BY <2>1, <4>3, <4>6, <4>7
    <3>2. found' = [found EXCEPT ![t] = Gives(t)]
      BY <2>1, <3>1 DEF LeaveMap
    <3> QED BY <1>1, <2>1, <3>2, LeaveReads DEF RoutingInv, TypeOK
  <2> QED BY <2>1
<1> QED BY <1>1, RoutingHolds, PTL DEF Spec, RoutedAsRegistered

\* Any number of threads race in a map only after a client has asked for a path that it
\* does not have, or a handler was registered while the server runs
\* (httpServer.cpp:128-146).
THEOREM RaceByStranger == Spec => []RaceNeedsStranger
<1>1. RoutingInv => RaceNeedsStranger
  BY DEF RoutingInv
<1> QED BY <1>1, RoutingHolds, PTL

\* Of a text of any length the handler gets the parameters that are written in it, and
\* a query is refused exactly when an element has no "=" (httpParser.cpp:162-193,
\* 208-234).
THEOREM ParametersRight == Spec => []ParamsAsWritten
<1>1. Init => ParsingInv
  <2> SUFFICES ASSUME Init PROVE ParsingInv
    OBVIOUS
  <2> QED BY TypeInit DEF Init, ParsingInv, ParsingAt, WrittenAt
<1>2. ParsingInv /\ RoutingInv /\ [Next]_vars => ParsingInv'
  BY ParsingNext DEF RoutingInv
<1>3. ParsingInv => ParamsAsWritten
  BY DEF ParsingInv, WrittenAt, ParamsAsWritten
<1> QED BY <1>1, <1>2, <1>3, RoutingHolds, PTL DEF Spec
=============================================================================
