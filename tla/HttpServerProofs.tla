--------------------------- MODULE HttpServerProofs ---------------------------
(***************************************************************************)
(* The safety properties of HttpServer, for any number of requests of any  *)
(* client, cut anywhere, and bodies of any length; and that for an orderly *)
(* client it implements HttpExchange.                                      *)
(***************************************************************************)
EXTENDS HttpServer, SequenceTheorems, WellFoundedInduction, TLAPS

\* What a client sends, and what a handler is given.
Marks == {"-", "b", "GET", "POST", "GET10", "NOWHERE", "BAD", "OLD", "keep", "close",
          "colon", "number", "form", "length", "empty"}
Given == [method : {"GET", "POST"}, posted : Nat, connection : {"none", "keep", "close"}]
Answers == [code : {200, 404, 400, 100}, length : BOOLEAN]
Records == [method : {"unset", "NONE", "GET", "POST", "NOWHERE"}, v11 : BOOLEAN,
            connection : {"none", "keep", "close"}, form : BOOLEAN,
            length : {"none", "length", "number"}, posted : Nat, hasBody : BOOLEAN]

\* TypeOK leaves the sequences out that are bounded by what a client sends.
Typed ==
    /\ TypeOK
    /\ coming \in Seq(Marks) /\ buffer \in Seq(Marks)
    /\ starts \in Nat /\ handed \in Seq(Given \cup {"any"})

\* A start line has been parsed and its request not been cleared: a parser that is past
\* the start line, or a message that got to its answer.
Started == state # "EXPECTSTARTLINE" \/ (isSuccess /\ pc # "wait")

\* HandledOnce counts; for that a request whose handler is still to come must have been
\* counted as started and not yet as handled.
OneToCome == Started /\ Known => Len(handed) < starts

\* A request that has started has a method.
Method == Started => req.method # "unset"

Inv == Typed /\ HandledOnce /\ OneToCome /\ Method /\ Framed

-----------------------------------------------------------------------------
(* What a client sends *)

\* A piece of a sequence, as it is cut by the network or left by a line.
LEMMA Piece ==
    ASSUME NEW S, NEW s \in Seq(S), NEW m \in Nat \ {0}, NEW n \in Nat, n <= Len(s)
    PROVE  SubSeq(s, m, n) \in Seq(S)
<1>1. Len(s) \in Nat /\ s \in [1..Len(s) -> S]
  BY LenProperties
<1>2. \A i \in m..n : s[i] \in S
  BY <1>1
<1> QED BY <1>2, SubSeqProperties

\* The lines of a request.
LEMMA LinesTyped ==
    ASSUME NEW r \in Requests
    PROVE  Lines(r) \in Seq(Marks)
<1>1. ASSUME NEW condition, NEW line \in Marks PROVE If(condition, line) \in Seq(Marks)
  BY DEF If
<1>2. r.start \in Marks /\ (r.odd # "none" => r.odd \in Marks)
  BY DEF Requests, Refused, Marks
<1>3. <<r.start>> \in Seq(Marks) /\ <<"empty">> \in Seq(Marks)
  BY <1>2 DEF Marks
<1>4. /\ If(r.keep /\ r.start # "GET10", "keep") \in Seq(Marks)
      /\ If(~r.keep /\ r.start = "GET10", "close") \in Seq(Marks)
      /\ If(r.body = "form", "form") \in Seq(Marks)
      /\ If(r.body # "none", "length") \in Seq(Marks)
  BY <1>1 DEF Marks
<1>5. If(r.odd # "none", r.odd) \in Seq(Marks)
  BY <1>2 DEF If
<1>6. ASSUME NEW s \in Seq(Marks), NEW t \in Seq(Marks) PROVE s \o t \in Seq(Marks)
  BY ConcatProperties
<1> HIDE DEF If, Marks
<1> QED BY <1>3, <1>4, <1>5, <1>6 DEF Lines

\* A body has no line in it.
LEMMA BodyTyped ==
    ASSUME NEW r
    PROVE  /\ Body(r) \in Seq(Marks) /\ Len(Body(r)) \in Nat
           /\ \A k \in 1..Len(Body(r)) : Body(r)[k] = "b"
           /\ r.body = "none" <=> Body(r) = <<>>
           /\ \A b \in {<<>>, Body(r)} : b \in Seq(Marks)
<1>1. <<>> \in Seq(Marks)
  OBVIOUS
<1>2. CASE r.body = "none"
  BY <1>1, <1>2 DEF Body
<1>3. CASE r.body # "none"
  <2>1. Body(r) = [i \in 1..BodyLen |-> "b"]
    BY <1>3 DEF Body
  <2>2. BodyLen \in Nat /\ BodyLen # 0
    BY HttpAssumption
  <2>3. Body(r) \in Seq(Marks) /\ Len(Body(r)) = BodyLen
    BY <2>1, <2>2 DEF Marks
  <2>4. Body(r) # <<>>
    BY <2>2, <2>3, EmptySeq
  <2> QED BY <1>1, <1>3, <2>1, <2>2, <2>3, <2>4
<1> QED BY <1>2, <1>3

\* A line is two units.
LEMMA UnitsOfTyped ==
    ASSUME NEW L \in Seq(Marks)
    PROVE  UnitsOf(L) \in Seq(Marks) /\ Len(UnitsOf(L)) = 2 * Len(L)
<1>1. Len(L) \in Nat /\ L \in [1..Len(L) -> Marks] /\ 2 * Len(L) \in Nat
  BY LenProperties
<1>2. ASSUME NEW i \in 1..2 * Len(L), i % 2 # 1 PROVE i \div 2 \in 1..Len(L)
  BY <1>1, <1>2
<1>3. \A i \in 1..2 * Len(L) : (IF i % 2 = 1 THEN "-" ELSE L[i \div 2]) \in Marks
  BY <1>1, <1>2 DEF Marks
<1> QED BY <1>1, <1>3 DEF UnitsOf

\* The units of a request.
LEMMA UnitsTyped ==
    ASSUME NEW r \in Requests
    PROVE  Units(r) \in Seq(Marks)
BY LinesTyped, UnitsOfTyped, BodyTyped, ConcatProperties DEF Units

\* A set of natural numbers has a least element, by the well-foundedness of <.
LEMMA LeastNatural ==
    ASSUME NEW T \in SUBSET Nat, T # {}
    PROVE  \E x \in T : \A y \in T : x <= y
<1> DEFINE R == {ss \in Nat \X Nat : ss[1] < ss[2]}
<1>1. IsWellFoundedOn(R, Nat)
  BY NatLessThanWellFounded DEF OpToRel
<1>2. \E x \in T : \A y \in T : ~(<<y, x>> \in R)
  <2> HIDE DEF R
  <2> QED BY <1>1, WFMin
<1>3. ASSUME NEW x \in T, NEW y \in T, ~(<<y, x>> \in R) PROVE x <= y
  BY <1>3
<1> QED BY <1>2, <1>3

\* What follows the first line of the buffer.
LEMMA RestTyped ==
    ASSUME Typed, HasLine
    PROVE  RestOfBuffer \in Seq(Marks)
<1> DEFINE T == {k \in 1..Len(buffer) : EndsLine(k)}
<1>1. Len(buffer) \in Nat /\ T \in SUBSET Nat /\ T # {}
  BY LenProperties DEF Typed, HasLine
<1>2. PICK k \in T : \A j \in T : k <= j
  <2> HIDE DEF T
  <2> QED BY <1>1, LeastNatural
<1>3. k \in 1..Len(buffer) /\ EndsLine(k) /\ \A j \in 1..k - 1 : ~EndsLine(j)
  BY <1>1, <1>2
<1>4. LineLen \in 1..Len(buffer)
  BY <1>3 DEF LineLen
<1>5. LineLen + 1 \in Nat \ {0}
  BY <1>1, <1>4
<1> QED BY <1>1, <1>5, Piece DEF RestOfBuffer, Typed

-----------------------------------------------------------------------------
(* Each action keeps the invariant *)

\* A step of the client leaves the server's state alone.
LEMMA AskKeeps == Inv /\ Ask => Inv'
<1> SUFFICES ASSUME Inv, Ask PROVE Inv'
  OBVIOUS
<1>1. PICK r \in Requests : asked' = Append(asked, Recorded(r)) /\ coming' = coming \o Units(r)
  BY DEF Ask
<1>2. UNCHANGED <<orderly, buffer, conn, pc, isSuccess, state, req, finished, starts, handed,
                  answers, fault>>
  BY DEF Ask, serverVars
<1>3. /\ asked' \in Seq(IF orderly THEN Requests ELSE {"any"})
      /\ Len(asked') <= MaxRequests
  <2> DEFINE S == IF orderly THEN Requests ELSE {"any"}
  <2>1. Recorded(r) \in S /\ asked \in Seq(S)
    BY DEF Recorded, Inv, Typed, TypeOK
  <2>2. Len(asked) < MaxRequests /\ Len(asked) \in Nat /\ MaxRequests \in Nat
    BY HttpAssumption, LenProperties DEF Ask, Inv, Typed, TypeOK
  <2> HIDE DEF S
  <2>3. asked' \in Seq(S) /\ Len(asked') = Len(asked) + 1
    BY <1>1, <2>1, AppendProperties
  <2> QED BY <2>2, <2>3 DEF S
<1>4. coming' \in Seq(Marks)
  BY <1>1, UnitsTyped, ConcatProperties DEF Inv, Typed
<1>5. Typed'
  BY <1>2, <1>3, <1>4 DEF Inv, Typed, TypeOK
<1>6. HandledOnce' /\ OneToCome' /\ Method' /\ Framed'
  BY <1>2 DEF Inv, HandledOnce, OneToCome, Method, Started, Known, Framed
<1> QED BY <1>5, <1>6 DEF Inv

\* A message begins without a success.
LEMMA DeliverKeeps == Inv /\ Deliver => Inv'
<1> SUFFICES ASSUME Inv, Deliver PROVE Inv'
  OBVIOUS
<1>1. PICK n \in 1..Len(coming) : /\ buffer' = buffer \o SubSeq(coming, 1, n)
                                  /\ coming' = SubSeq(coming, n + 1, Len(coming))
  BY DEF Deliver
<1>2. /\ pc' = "parse" /\ isSuccess' = FALSE
      /\ UNCHANGED <<orderly, asked, conn, state, req, finished, starts, handed, answers, fault>>
  BY DEF Deliver
<1>3. SubSeq(coming, 1, n) \in Seq(Marks) /\ coming' \in Seq(Marks)
  <2>1. /\ coming \in Seq(Marks) /\ Len(coming) \in Nat
        /\ 1 \in Nat \ {0} /\ n \in Nat /\ n <= Len(coming) /\ n + 1 \in Nat \ {0}
    BY LenProperties DEF Inv, Typed
  <2> QED BY <1>1, <2>1, Piece
<1>4. buffer' \in Seq(Marks)
  BY <1>1, <1>3, ConcatProperties DEF Inv, Typed
<1>5. Typed'
  <2>1. isSuccess' \in BOOLEAN /\ pc' \in {"wait", "parse", "answer"}
    BY <1>2
  <2>2. /\ asked' = asked /\ orderly' = orderly /\ conn' = conn /\ state' = state
        /\ req' = req /\ finished' = finished /\ starts' = starts /\ handed' = handed
        /\ answers' = answers /\ fault' = fault
    BY <1>2
  <2>3. /\ orderly' \in BOOLEAN /\ finished' \in BOOLEAN /\ fault' \in BOOLEAN
        /\ (state' = "EXPECTBODY" => req'.hasBody)
    BY <2>2, Zenon DEF Inv, Typed, TypeOK
  <2>4. /\ asked' \in Seq(IF orderly' THEN Requests ELSE {"any"}) /\ Len(asked') <= MaxRequests
        /\ answers' \in Seq([code : {200, 404, 400, 100}, length : BOOLEAN])
        /\ starts' \in Nat /\ handed' \in Seq(Given \cup {"any"})
        /\ conn' \in {"CONNECTED", "DISCONNECTING"}
    BY <2>2, Zenon DEF Inv, Typed, TypeOK
  <2>5. /\ state' \in {"EXPECTSTARTLINE", "EXPECTHEADERLINE", "EXPECTBODY"}
        /\ req' \in Records
    BY <2>2 DEF Inv, Typed, TypeOK, Records
  <2> QED BY <1>3, <1>4, <2>1, <2>3, <2>4, <2>5, Zenon DEF Typed, TypeOK, Records
<1>6. HandledOnce' /\ OneToCome' /\ Method' /\ Framed'
  BY <1>2 DEF Inv, HandledOnce, OneToCome, Method, Started, Known, Framed
<1> QED BY <1>5, <1>6 DEF Inv

\* Without a line the result of the line before stands.
LEMMA NoLineKeeps == Inv /\ NoLine => Inv'
<1> SUFFICES ASSUME Inv, NoLine PROVE Inv'
  OBVIOUS
<1>1. /\ pc = "parse" /\ pc' = "answer"
      /\ UNCHANGED <<orderly, asked, coming, buffer, conn, isSuccess, state, req, finished,
                     starts, handed, answers, fault>>
  BY DEF NoLine, Incomplete, clientVars
<1>2. Typed'
  BY <1>1 DEF Inv, Typed, TypeOK
<1>3. HandledOnce' /\ OneToCome' /\ Method' /\ Framed'
  BY <1>1 DEF Inv, HandledOnce, OneToCome, Method, Started, Known, Framed
<1> QED BY <1>2, <1>3 DEF Inv

\* A start line is counted when its request starts; one that is refused starts nothing,
\* even if it leaves a method behind.
LEMMA ParseStartLineKeeps == Inv /\ ParseStartLine => Inv'
<1> SUFFICES ASSUME Inv, ParseStartLine PROVE Inv'
  OBVIOUS
<1>1. /\ pc = "parse" /\ state = "EXPECTSTARTLINE" /\ HasLine
      /\ UNCHANGED <<orderly, asked, coming, conn, finished, handed, answers, fault>>
  BY DEF ParseStartLine, clientVars
<1>2. Framed'
  BY <1>1 DEF Inv, Framed
<1>3. Len(handed) \in Nat /\ starts \in Nat /\ Len(handed) <= starts
  BY LenProperties DEF Inv, Typed, HandledOnce
<1>4. CASE /\ Line \in {"GET", "POST", "GET10", "NOWHERE"}
           /\ isSuccess' = TRUE
           /\ state' = "EXPECTHEADERLINE"
           /\ req' = [req EXCEPT !.method = MethodOf(Line), !.v11 = (Line # "GET10")]
           /\ starts' = starts + 1
           /\ buffer' = RestOfBuffer
           /\ UNCHANGED pc
  <2>1. MethodOf(Line) \in {"GET", "POST", "NOWHERE"} /\ (Line # "GET10") \in BOOLEAN
    BY <1>4 DEF MethodOf
  <2>2. /\ req' \in Records
        /\ req'.method # "unset"
    BY <1>4, <2>1 DEF Inv, Typed, TypeOK, Records
  <2>3. buffer' \in Seq(Marks)
    BY <1>1, <1>4, RestTyped DEF Inv
  <2>4. Typed'
    BY <1>1, <1>4, <2>2, <2>3 DEF Inv, Typed, TypeOK, Records
  <2>5. HandledOnce' /\ OneToCome' /\ Method'
    BY <1>1, <1>3, <1>4, <2>2 DEF HandledOnce, OneToCome, Method
  <2> QED BY <1>2, <2>4, <2>5 DEF Inv
<1>5. CASE /\ isSuccess' = FALSE
           /\ pc' = "answer"
           /\ req' = IF Line = "OLD" THEN [req EXCEPT !.method = MethodOf(Line)] ELSE req
           /\ UNCHANGED <<buffer, state, starts>>
  <2>1. req' \in Records
    BY <1>5 DEF Inv, Typed, TypeOK, Records, MethodOf
  <2>2. Typed'
    BY <1>1, <1>5, <2>1 DEF Inv, Typed, TypeOK, Records
  <2>3. ~Started'
    BY <1>1, <1>5 DEF Started
  <2>4. HandledOnce' /\ OneToCome' /\ Method'
    BY <1>1, <1>5, <2>3 DEF Inv, HandledOnce, OneToCome, Method
  <2> QED BY <1>2, <2>2, <2>4 DEF Inv
<1> QED BY <1>4, <1>5 DEF ParseStartLine

\* A request that has its start line goes on.
LEMMA ParseHeaderLineKeeps == Inv /\ ParseHeaderLine => Inv'
<1> SUFFICES ASSUME Inv, ParseHeaderLine PROVE Inv'
  OBVIOUS
<1>1. /\ pc = "parse" /\ state = "EXPECTHEADERLINE" /\ HasLine
      /\ isSuccess' = TRUE /\ buffer' = RestOfBuffer
      /\ UNCHANGED <<orderly, asked, coming, conn, pc, finished, starts, handed, answers>>
  BY DEF ParseHeaderLine, clientVars
<1>2. buffer' \in Seq(Marks)
  BY <1>1, RestTyped DEF Inv
<1>3. fault' \in BOOLEAN
  BY Zenon DEF ParseHeaderLine
<1>4. req \in Records /\ req.method # "unset"
  BY <1>1 DEF Inv, Typed, TypeOK, Records, Method, Started
<1>5. /\ req' \in Records /\ req'.method = req.method
      /\ state' \in {"EXPECTSTARTLINE", "EXPECTHEADERLINE", "EXPECTBODY"}
      /\ state' = "EXPECTBODY" => req'.hasBody
  <2>1. CASE Line \in Headers /\ req' = SetHeader(req, Line) /\ UNCHANGED state
    <3>1. Line \in {"keep", "close"} \/ Line = "form" \/ Line \in {"length", "number"}
      BY <2>1 DEF Headers
    <3>2. CASE Line \in {"keep", "close"}
      BY <1>1, <1>4, <2>1, <3>2 DEF SetHeader, Records
    <3>3. CASE Line = "form"
      BY <1>1, <1>4, <2>1, <3>3 DEF SetHeader, Records
    <3>4. CASE Line \in {"length", "number"}
      BY <1>1, <1>4, <2>1, <3>4 DEF SetHeader, Records
    <3> QED BY <3>1, <3>2, <3>3, <3>4
  <2>2. CASE /\ req' = [req EXCEPT !.hasBody = @ \/ req.length = "length"]
             /\ state' = AfterHead(req')
    <3>1. (req.hasBody \/ req.length = "length") \in BOOLEAN
      BY Zenon
    <3>2. req' \in Records /\ req'.method = req.method
      BY <1>4, <2>2, <3>1 DEF Records
    <3> QED BY <2>2, <3>2 DEF AfterHead
  <2>3. CASE UNCHANGED <<req, state>>
    BY <1>1, <1>4, <2>3
  <2> QED BY <2>1, <2>2, <2>3 DEF ParseHeaderLine
<1>6. Typed'
  BY <1>1, <1>2, <1>3, <1>5 DEF Inv, Typed, TypeOK, Records
<1>7. Started /\ (Known' <=> Known)
  BY <1>1, <1>5 DEF Started, Known
<1>8. HandledOnce' /\ OneToCome' /\ Method' /\ Framed'
  BY <1>1, <1>4, <1>5, <1>7 DEF Inv, HandledOnce, OneToCome, Method, Framed
<1> QED BY <1>6, <1>8 DEF Inv

\* The same for a body.
LEMMA ParseFormBodyKeeps == Inv /\ ParseFormBody => Inv'
<1> SUFFICES ASSUME Inv, ParseFormBody PROVE Inv'
  OBVIOUS
<1>1. /\ state = "EXPECTBODY" /\ isSuccess' = TRUE /\ buffer' = <<>> /\ pc' = "answer"
      /\ UNCHANGED <<orderly, asked, coming, conn, finished, starts, handed, answers, fault>>
  BY DEF ParseFormBody, clientVars
<1>2. buffer' \in Seq(Marks) /\ Len(buffer) \in Nat
  BY <1>1, LenProperties DEF Inv, Typed
<1>3. \/ UNCHANGED <<state, req>>
      \/ /\ state' = "EXPECTSTARTLINE"
         /\ req' = [req EXCEPT !.posted = Len(buffer), !.hasBody = FALSE]
  BY DEF ParseFormBody, AfterBody, BodyRead
<1>4. /\ req' \in Records
      /\ req'.method = req.method
  BY <1>2, <1>3 DEF Inv, Typed, TypeOK, Records
<1>5. Typed'
  BY <1>1, <1>2, <1>3, <1>4 DEF Inv, Typed, TypeOK, Records
<1>6. Started /\ (Known' <=> Known)
  BY <1>1, <1>4 DEF Started, Known
<1>7. HandledOnce' /\ OneToCome' /\ Method' /\ Framed'
  BY <1>1, <1>4, <1>6 DEF Inv, HandledOnce, OneToCome, Method, Framed
<1> QED BY <1>5, <1>7 DEF Inv

\* sendData sends one answer, or none on a connection that is being closed.
LEMMA SentOnce ==
    ASSUME Typed, NEW answer \in Answers
    PROVE  /\ Sent(conn, answers, answer) \in Seq(Answers)
           /\ Len(Sent(conn, answers, answer)) <= Len(answers) + 1
<1>1. answers \in Seq(Answers) /\ Len(answers) \in Nat
  BY LenProperties DEF Typed, TypeOK, Answers
<1>2. Append(answers, answer) \in Seq(Answers) /\ Len(Append(answers, answer)) = Len(answers) + 1
  BY <1>1, AppendProperties
<1> QED BY <1>1, <1>2 DEF Sent

\* An answer keeps the answers framed, if it says its length or closes the connection:
\* the earlier ones do, as nothing was to follow one that does not.
LEMMA SentFramed ==
    ASSUME Typed, Framed, NEW answer \in Answers,
           answers' = Sent(conn, answers, answer),
           conn' \in {conn, "DISCONNECTING"},
           answer.code = 100 \/ answer.length \/ conn' = "DISCONNECTING"
    PROVE  Framed'
<1>1. answers \in Seq(Answers) /\ Len(answers) \in Nat /\ DOMAIN answers = 1..Len(answers)
  BY LenProperties DEF Typed, TypeOK, Answers
<1>2. CASE conn = "CONNECTED"
  <2>1. /\ answers' \in Seq(Answers) /\ Len(answers') = Len(answers) + 1
        /\ \A i \in 1..Len(answers) : answers'[i] = answers[i]
        /\ answers'[Len(answers) + 1] = answer
    BY <1>1, <1>2, AppendProperties DEF Sent
  <2>2. DOMAIN answers' = 1..Len(answers) + 1
    BY <2>1, LenProperties
  <2>3. ASSUME NEW k \in 1..Len(answers) + 1, answers'[k].code # 100, ~answers'[k].length
        PROVE  k = Len(answers) + 1 /\ conn' = "DISCONNECTING"
    <3>1. CASE k = Len(answers) + 1
      BY <2>1, <2>3, <3>1
    <3>2. CASE k \in 1..Len(answers)
      BY <1>1, <1>2, <2>1, <2>3, <3>2 DEF Framed
    <3> QED BY <1>1, <3>1, <3>2
  <2> QED BY <2>1, <2>2, <2>3 DEF Framed
<1>3. CASE conn = "DISCONNECTING"
  <2>1. answers' = answers /\ conn' = conn
    BY <1>3 DEF Sent
  <2> QED BY <2>1 DEF Framed
<1> QED BY <1>2, <1>3 DEF Typed, TypeOK

\* A bad request has its answer, and the connection ends.
LEMMA BadRequestKeeps == Inv /\ BadRequest => Inv'
<1> SUFFICES ASSUME Inv, BadRequest PROVE Inv'
  OBVIOUS
<1>1. /\ pc = "answer" /\ pc' = "wait" /\ conn' = "DISCONNECTING"
      /\ answers' = Sent(conn, answers, Answer(400, FALSE))
      /\ UNCHANGED <<orderly, asked, coming, buffer, isSuccess, state, req, finished, starts,
                     handed, fault>>
  BY DEF BadRequest, clientVars
<1>2. Answer(400, FALSE) \in Answers
  BY DEF Answer, Answers
<1>3. answers' \in Seq(Answers) /\ Framed'
  BY <1>1, <1>2, SentOnce, SentFramed DEF Inv
<1>4. Typed'
  <2>1. pc' \in {"wait", "parse", "answer"} /\ conn' \in {"CONNECTED", "DISCONNECTING"}
    BY <1>1 DEF Inv, Typed, TypeOK
  <2>2. answers' \in Seq([code : {200, 404, 400, 100}, length : BOOLEAN])
    BY <1>3 DEF Answers
  <2>3. /\ orderly' \in BOOLEAN /\ isSuccess' \in BOOLEAN /\ finished' \in BOOLEAN
        /\ fault' \in BOOLEAN /\ (state' = "EXPECTBODY" => req'.hasBody)
    BY <1>1, Zenon DEF Inv, Typed, TypeOK
  <2>4. /\ asked' \in Seq(IF orderly' THEN Requests ELSE {"any"}) /\ Len(asked') <= MaxRequests
        /\ coming' \in Seq(Marks) /\ buffer' \in Seq(Marks)
        /\ starts' \in Nat /\ handed' \in Seq(Given \cup {"any"})
    BY <1>1, Zenon DEF Inv, Typed, TypeOK
  <2>5. /\ state' \in {"EXPECTSTARTLINE", "EXPECTHEADERLINE", "EXPECTBODY"}
        /\ req' \in Records
    BY <1>1 DEF Inv, Typed, TypeOK, Records
  <2> QED BY <2>1, <2>2, <2>3, <2>4, <2>5, Zenon DEF Typed, TypeOK, Records
<1>5. HandledOnce' /\ OneToCome' /\ Method'
  BY <1>1 DEF Inv, HandledOnce, OneToCome, Method, Started, Known
<1> QED BY <1>3, <1>4, <1>5 DEF Inv

\* A request whose body is to come is waited for.
LEMMA ContinueKeeps == Inv /\ Continue => Inv'
<1> SUFFICES ASSUME Inv, Continue PROVE Inv'
  OBVIOUS
<1>1. /\ pc = "answer" /\ pc' = "wait"
      /\ answers' = Sent(conn, answers, Answer(100, FALSE))
      /\ UNCHANGED <<orderly, asked, coming, buffer, conn, isSuccess, state, req, finished,
                     starts, handed, fault>>
  BY DEF Continue, clientVars
<1>2. Answer(100, FALSE) \in Answers /\ Answer(100, FALSE).code = 100
  BY DEF Answer, Answers
<1>3. answers' \in Seq(Answers) /\ Framed'
  BY <1>1, <1>2, SentOnce, SentFramed DEF Inv
<1>4. Typed'
  <2>1. pc' \in {"wait", "parse", "answer"} /\ conn' \in {"CONNECTED", "DISCONNECTING"}
    BY <1>1 DEF Inv, Typed, TypeOK
  <2>2. answers' \in Seq([code : {200, 404, 400, 100}, length : BOOLEAN])
    BY <1>3 DEF Answers
  <2>3. /\ orderly' \in BOOLEAN /\ isSuccess' \in BOOLEAN /\ finished' \in BOOLEAN
        /\ fault' \in BOOLEAN /\ (state' = "EXPECTBODY" => req'.hasBody)
    BY <1>1, Zenon DEF Inv, Typed, TypeOK
  <2>4. /\ asked' \in Seq(IF orderly' THEN Requests ELSE {"any"}) /\ Len(asked') <= MaxRequests
        /\ coming' \in Seq(Marks) /\ buffer' \in Seq(Marks)
        /\ starts' \in Nat /\ handed' \in Seq(Given \cup {"any"})
    BY <1>1, Zenon DEF Inv, Typed, TypeOK
  <2>5. /\ state' \in {"EXPECTSTARTLINE", "EXPECTHEADERLINE", "EXPECTBODY"}
        /\ req' \in Records
    BY <1>1 DEF Inv, Typed, TypeOK, Records
  <2> QED BY <2>1, <2>2, <2>3, <2>4, <2>5, Zenon DEF Typed, TypeOK, Records
<1>5. HandledOnce' /\ OneToCome' /\ Method'
  BY <1>1 DEF Inv, HandledOnce, OneToCome, Method, Started, Known
<1> QED BY <1>3, <1>4, <1>5 DEF Inv

\* After the shutdown of a 404 the blank response is not sent.
LEMMA NotFoundOnce ==
    ASSUME NEW answer
    PROVE  Sent(AfterNotFound, answers, answer) = answers
BY DEF Sent, AfterNotFound

\* A request is handled once and cleared; so is one that is not found.
LEMMA OnRequestKeeps == Inv /\ OnRequest => Inv'
<1> SUFFICES ASSUME Inv, OnRequest PROVE Inv'
  OBVIOUS
<1>1. /\ pc = "answer" /\ isSuccess /\ pc' = "wait" /\ finished' = FALSE
      /\ req' = Clear(req)
      /\ UNCHANGED <<orderly, asked, coming, buffer, isSuccess, state, starts, fault>>
  BY DEF OnRequest, clientVars
<1>2. /\ req' \in Records
      /\ req'.method = "NONE" /\ req'.hasBody = req.hasBody
  BY <1>1 DEF Clear, Blank, Inv, Typed, TypeOK, Records
<1>3. Len(handed) \in Nat /\ starts \in Nat /\ Len(handed) <= starts
  BY LenProperties DEF Inv, Typed, HandledOnce
<1>4. /\ conn' \in {"CONNECTED", "DISCONNECTING"}
      /\ answers' \in Seq(Answers) /\ Framed'
      /\ handed' \in Seq(Given \cup {"any"})
      /\ Len(handed') <= starts
  <2>1. CASE Known /\ Handle
    <3>1. PICK close \in BOOLEAN :
             /\ handed' = Append(handed, Recorded([method |-> req.method,
                                                   posted |-> req.posted,
                                                   connection |-> req.connection]))
             /\ answers' = Sent(conn, answers, Answer(200, ~close))
             /\ conn' = AfterAnswer(close, conn)
      <4>1. Decides \subseteq BOOLEAN
        BY Zenon DEF Decides, Closes
      <4> QED BY <2>1, <4>1 DEF Handle
    <3>2. Answer(200, ~close) \in Answers /\ Answer(200, ~close).length = ~close
      BY <3>1 DEF Answer, Answers
    <3>3. conn' \in {conn, "DISCONNECTING"} /\ (close => conn' = "DISCONNECTING")
      BY <3>1 DEF AfterAnswer
    <3>4. answers' \in Seq(Answers) /\ Framed'
      BY <3>1, <3>2, <3>3, SentOnce, SentFramed DEF Inv
    <3>5. Recorded([method |-> req.method, posted |-> req.posted,
                    connection |-> req.connection]) \in Given \cup {"any"}
      BY <2>1 DEF Recorded, Given, Known, Inv, Typed, TypeOK, Records
    <3>6. handed' \in Seq(Given \cup {"any"}) /\ Len(handed') = Len(handed) + 1
      BY <3>1, <3>5, AppendProperties DEF Inv, Typed
    <3>7. Len(handed) < starts
      BY <1>1, <2>1 DEF Inv, OneToCome, Started
    <3> QED BY <1>3, <3>3, <3>4, <3>6, <3>7 DEF Inv, Typed, TypeOK, Records
  <2>2. CASE ~Known /\ NotFound
    <3>1. /\ answers' = Sent(conn, answers, Answer(404, FALSE))
          /\ conn' = "DISCONNECTING" /\ handed' = handed
      BY <2>2 DEF NotFound, Sent, AfterNotFound, AfterAnswer
    <3>2. Answer(404, FALSE) \in Answers
      BY DEF Answer, Answers
    <3>3. answers' \in Seq(Answers) /\ Framed'
      BY <3>1, <3>2, SentOnce, SentFramed DEF Inv
    <3> QED BY <1>3, <3>1, <3>3 DEF Inv, Typed
  <2> QED BY <2>1, <2>2 DEF OnRequest
<1>5. Typed'
  BY <1>1, <1>2, <1>4 DEF Inv, Typed, TypeOK, Records, Answers
<1>6. Method' /\ OneToCome'
  BY <1>2 DEF Method, OneToCome, Known
<1>7. HandledOnce'
  BY <1>1, <1>4 DEF HandledOnce
<1> QED BY <1>4, <1>5, <1>6, <1>7 DEF Inv

-----------------------------------------------------------------------------
(* The invariant, and what follows from it *)

\* The invariant is inductive.
LEMMA Inductive == (Init => Inv) /\ (Inv /\ [Next]_vars => Inv')
<1>1. Init => Inv
  <2> SUFFICES ASSUME Init PROVE Inv
    OBVIOUS
  <2>1. req \in Records
    BY DEF Init, Blank, Records
  <2>2. /\ asked \in Seq(IF orderly THEN Requests ELSE {"any"}) /\ Len(asked) <= MaxRequests
        /\ answers \in Seq([code : {200, 404, 400, 100}, length : BOOLEAN])
        /\ coming \in Seq(Marks) /\ buffer \in Seq(Marks)
        /\ starts \in Nat /\ handed \in Seq(Given \cup {"any"})
    BY HttpAssumption DEF Init
  <2>3. /\ orderly \in BOOLEAN /\ isSuccess \in BOOLEAN /\ finished \in BOOLEAN
        /\ fault \in BOOLEAN
    BY Zenon DEF Init
  <2>4. Typed
    BY <2>1, <2>2, <2>3 DEF Init, Typed, TypeOK, Records
  <2>5. HandledOnce /\ OneToCome /\ Method /\ Framed
    BY DEF Init, HandledOnce, OneToCome, Method, Started, Framed
  <2> QED BY <2>4, <2>5 DEF Inv
<1>2. ASSUME Inv, Next PROVE Inv'
  BY <1>2, AskKeeps, DeliverKeeps, NoLineKeeps, ParseStartLineKeeps, ParseHeaderLineKeeps,
     ParseFormBodyKeeps, BadRequestKeeps, ContinueKeeps, OnRequestKeeps DEF Next, OnMessage
<1>3. ASSUME Inv, UNCHANGED vars PROVE Inv'
  BY <1>3 DEF vars, clientVars, serverVars, Inv, Typed, TypeOK, HandledOnce, OneToCome, Method,
              Started, Known, Framed
<1> QED BY <1>1, <1>2, <1>3

\* It holds in every state the server reaches.
LEMMA Invariant == Spec => []Inv
BY Inductive, PTL DEF Spec

\* The state has its type; the parser never gets into the state INVALID
\* (httpParser.cpp:237-245), and it waits for a body only if there is one.
THEOREM TypeCorrect == Spec => []TypeOK
<1>1. Inv => TypeOK
  BY DEF Inv, Typed
<1> QED BY <1>1, Invariant, PTL

\* However the bytes are cut, and whatever the client sends, a handler runs at most once
\* for each start line (httpServer.cpp:47-52, httpRequest.cpp:7-16).
THEOREM HandlersRunOnce == Spec => []HandledOnce
<1>1. Inv => HandledOnce
  BY DEF Inv
<1> QED BY <1>1, Invariant, PTL

\* The method is never read before it was written (httpRequest.h:103,
\* httpServer.cpp:122-155).
THEOREM MethodIsWritten == Spec => []MethodWritten
<1>1. Inv => MethodWritten
  BY DEF Inv, Method, Started, MethodWritten
<1> QED BY <1>1, Invariant, PTL

\* A client can tell where each final answer ends: by its length, or by the end of the
\* connection, which then is to come (httpResponse.cpp:16-25, httpServer.cpp:40-45,
\* 73-89).
THEOREM AnswersFramed == Spec => []Framed
<1>1. Inv => Framed
  BY DEF Inv
<1> QED BY <1>1, Invariant, PTL

\* One message gets at most one answer (httpServer.cpp:73-84).
THEOREM OneAnswerEach == Spec => OneAnswer
<1>1. ASSUME Inv, [Next]_vars PROVE Len(answers') <= Len(answers) + 1
  <2>1. Typed /\ Len(answers) \in Nat
    BY <1>1, LenProperties DEF Inv, Typed, TypeOK
  <2>2. CASE answers' = answers
    BY <2>1, <2>2
  <2>3. CASE BadRequest
    <3>1. Answer(400, FALSE) \in Answers
      BY DEF Answer, Answers
    <3> QED BY <2>1, <2>3, <3>1, SentOnce DEF BadRequest
  <2>4. CASE Continue
    <3>1. Answer(100, FALSE) \in Answers
      BY DEF Answer, Answers
    <3> QED BY <2>1, <2>4, <3>1, SentOnce DEF Continue
  <2>5. CASE Handle
    <3>1. PICK close \in Decides : answers' = Sent(conn, answers, Answer(200, ~close))
      BY <2>5 DEF Handle
    <3>2. Answer(200, ~close) \in Answers
      BY Zenon DEF Answer, Answers
    <3> QED BY <2>1, <3>1, <3>2, SentOnce
  <2>6. CASE NotFound
    <3>1. Answer(404, FALSE) \in Answers
      BY DEF Answer, Answers
    <3>2. answers' = Sent(conn, answers, Answer(404, FALSE))
      BY <2>6 DEF NotFound, Sent, AfterNotFound
    <3> QED BY <2>1, <3>1, <3>2, SentOnce
  <2> QED BY <1>1, <2>2, <2>3, <2>4, <2>5, <2>6
          DEF Next, OnMessage, Ask, Deliver, NoLine, ParseStartLine, ParseHeaderLine,
              ParseFormBody, OnRequest, serverVars, vars
<1>2. [][Len(answers') <= Len(answers) + 1]_vars => OneAnswer
  BY PTL DEF OneAnswer
<1> QED BY <1>1, <1>2, Invariant, PTL DEF Spec

-----------------------------------------------------------------------------
(* An orderly client's exchange *)

Latest == asked[Len(asked)]

\* What the head of request r says, and in which lines after the start line.
Connection(r) == Asked(r).connection
HasForm(r) == r.body # "none"
Keeps(r) == IF Connection(r) = "none" THEN <<>> ELSE <<Connection(r)>>
Forms(r) == IF HasForm(r) THEN <<"form", "length">> ELSE <<>>

\* The record that parsing has made of it.
HeadOf(r, connection, form, length, hasBody) ==
    [method |-> MethodOf(r.start), v11 |-> r.start # "GET10", connection |-> connection,
     form |-> form, length |-> length, posted |-> 0, hasBody |-> hasBody]
Whole(r, hasBody) ==
    HeadOf(r, Connection(r), HasForm(r), IF HasForm(r) THEN "length" ELSE "none", hasBody)

Cleared == state = "EXPECTSTARTLINE" /\ \E m \in {"unset", "NONE"} : req = Blank(m, FALSE)

\* In the buffer are these lines, and the body if it came with the head.
Left(lines, b) == buffer = UnitsOf(lines) \o b

\* Between the start line and the empty one.
InHead(r, b) ==
    /\ state = "EXPECTHEADERLINE" /\ isSuccess
    /\ \/ /\ Left(Keeps(r) \o (Forms(r) \o <<"empty">>), b)
          /\ req = HeadOf(r, "none", FALSE, "none", FALSE)
       \/ /\ Left(Forms(r) \o <<"empty">>, b)
          /\ req = HeadOf(r, Connection(r), FALSE, "none", FALSE)
       \/ /\ HasForm(r) /\ Left(<<"length", "empty">>, b)
          /\ req = HeadOf(r, Connection(r), TRUE, "none", FALSE)
       \/ Left(<<"empty">>, b) /\ req = Whole(r, FALSE)

PastHead(r, b) ==
    /\ buffer = b /\ req = Whole(r, HasForm(r))
    /\ IF HasForm(r) THEN state = "EXPECTBODY" ELSE state = "EXPECTSTARTLINE" /\ isSuccess

\* The stages of request r: on its way, being parsed, waiting for its body, parsed.
Coming(r) == Cleared /\ buffer = <<>> /\ pc = "wait" /\ coming = Units(r)

Reading(r) ==
    /\ pc = "parse"
    /\ \E b \in {<<>>, Body(r)} :
          /\ (b = Body(r) /\ coming = <<>>) \/ (b = <<>> /\ coming = Body(r))
          /\ (Cleared /\ Left(Lines(r), b)) \/ InHead(r, b) \/ PastHead(r, b)

Awaiting(r) ==
    /\ HasForm(r) /\ state = "EXPECTBODY" /\ req = Whole(r, TRUE)
    /\ buffer = <<>> /\ coming = Body(r)
    /\ pc = "wait" \/ (pc = "answer" /\ isSuccess)

Complete(r) ==
    /\ pc = "answer" /\ isSuccess /\ state = "EXPECTSTARTLINE"
    /\ buffer = <<>> /\ coming = <<>>
    /\ req = [Whole(r, FALSE) EXCEPT !.posted = Len(Body(r))]

\* Between two requests nothing is left of the one before; and what is there of the
\* latest request is all of it, in one of its stages.
AtRest ==
    /\ Len(FinalCodes) = Len(asked)
    /\ Cleared /\ buffer = <<>> /\ pc = "wait" /\ coming = <<>>

Busy ==
    /\ Len(asked) = Len(FinalCodes) + 1 /\ conn = "CONNECTED" /\ Orderly(Latest)
    /\ \/ Coming(Latest) \/ Reading(Latest) \/ Awaiting(Latest) \/ Complete(Latest)

Served == orderly => ~finished /\ (AtRest \/ Busy)

-----------------------------------------------------------------------------
(* The lines of an orderly client *)

\* The units of the first line come first.
LEMMA UnitsOfMore ==
    ASSUME NEW line \in Marks, NEW rest \in Seq(Marks)
    PROVE  UnitsOf(<<line>> \o rest) = <<"-", line>> \o UnitsOf(rest)
<1> DEFINE L == <<line>> \o rest
           n == Len(rest)
           u == UnitsOf(L)
           v == <<"-", line>> \o UnitsOf(rest)
<1>1. n \in Nat /\ <<line>> \in Seq(Marks) /\ Len(<<line>>) = 1
  BY LenProperties
<1>2. /\ L \in Seq(Marks) /\ Len(L) = n + 1
      /\ \A i \in 1..n + 1 : L[i] = IF i <= 1 THEN <<line>>[i] ELSE rest[i - 1]
  <2>1. Len(L) = 1 + n /\ \A i \in 1..1 + n : L[i] = IF i <= 1 THEN <<line>>[i] ELSE rest[i - 1]
    BY <1>1, ConcatProperties
  <2>2. L \in Seq(Marks) /\ 1 + n = n + 1
    BY <1>1, ConcatProperties
  <2> QED BY <2>1, <2>2
<1>3. L[1] = line /\ \A i \in 1..n : L[i + 1] = rest[i]
  <2>1. \A i \in 1..n : i + 1 \in 1..n + 1 /\ ~(i + 1 <= 1) /\ (i + 1) - 1 = i
    BY <1>1
  <2> QED BY <1>1, <1>2, <2>1
<1> HIDE DEF L, n
<1>4. u \in Seq(Marks) /\ Len(u) = 2 * n + 2
  <2>1. u \in Seq(Marks) /\ Len(u) = 2 * Len(L)
    BY <1>2, UnitsOfTyped
  <2> HIDE DEF u
  <2> QED BY <1>1, <1>2, <2>1
<1>5. UnitsOf(rest) \in Seq(Marks) /\ Len(UnitsOf(rest)) = 2 * n
  BY UnitsOfTyped DEF n
<1>6. <<"-", line>> \in Seq(Marks) /\ Len(<<"-", line>>) = 2
  BY DEF Marks
<1>7. /\ v \in Seq(Marks) /\ Len(v) = 2 * n + 2
      /\ \A i \in 1..2 * n + 2 : v[i] = IF i <= 2 THEN <<"-", line>>[i] ELSE UnitsOf(rest)[i - 2]
  <2> DEFINE w == UnitsOf(rest)
             p == <<"-", line>>
  <2>1. w \in Seq(Marks) /\ Len(w) = 2 * n /\ p \in Seq(Marks) /\ Len(p) = 2
    BY <1>5, <1>6
  <2> HIDE DEF w, p
  <2>2. /\ p \o w \in Seq(Marks) /\ Len(p \o w) = 2 + 2 * n
        /\ \A i \in 1..2 + 2 * n : (p \o w)[i] = IF i <= 2 THEN p[i] ELSE w[i - 2]
    <3>1. /\ p \o w \in Seq(Marks) /\ Len(p \o w) = Len(p) + Len(w)
          /\ \A i \in 1..Len(p) + Len(w) : (p \o w)[i] = IF i <= Len(p) THEN p[i] ELSE w[i - Len(p)]
      BY <2>1, ConcatProperties
    <3> QED BY <2>1, <3>1
  <2>3. 2 + 2 * n = 2 * n + 2
    BY <1>1
  <2> QED BY <2>2, <2>3 DEF w, p
<1>8. ASSUME NEW i \in 1..2 * n + 2 PROVE u[i] = v[i]
  <2>1. u[i] = IF i % 2 = 1 THEN "-" ELSE L[i \div 2]
    <3>1. i \in 1..2 * Len(L)
      BY <1>1, <1>2
    <3> QED BY <3>1 DEF UnitsOf
  <2>2. CASE i = 1
    BY <1>1, <1>7, <2>1, <2>2
  <2>3. CASE i = 2
    BY <1>1, <1>3, <1>7, <2>1, <2>3
  <2>4. CASE i > 2
    <3>1. /\ i - 2 \in 1..2 * n /\ (i - 2) % 2 = i % 2
          /\ i % 2 # 1 => (i - 2) \div 2 \in 1..n /\ i \div 2 = (i - 2) \div 2 + 1
      BY <1>1, <2>4
    <3>2. v[i] = UnitsOf(rest)[i - 2]
      BY <1>1, <1>7, <2>4
    <3>3. UnitsOf(rest)[i - 2] = IF (i - 2) % 2 = 1 THEN "-" ELSE rest[(i - 2) \div 2]
      BY <3>1 DEF UnitsOf, n
    <3> QED BY <1>3, <2>1, <3>1, <3>2, <3>3
  <2>5. i = 1 \/ i = 2 \/ i > 2
    BY <1>1
  <2> HIDE DEF u, v
  <2> QED BY <2>2, <2>3, <2>4, <2>5
<1> HIDE DEF u, v
<1>9. u = v
  BY <1>4, <1>7, <1>8, SeqEqual
<1> QED BY <1>9 DEF u, v, L

\* The parser finds the first line, and leaves the others and the body.
LEMMA FirstLine ==
    ASSUME NEW line \in Marks \ {"-", "b"}, NEW rest \in Seq(Marks), NEW b \in Seq(Marks),
           Left(<<line>> \o rest, b)
    PROVE  HasLine /\ Line = line /\ RestOfBuffer = UnitsOf(rest) \o b
<1> DEFINE p == <<"-", line>>
           t == UnitsOf(rest) \o b
<1>1. p \in Seq(Marks) /\ Len(p) = 2 /\ p[1] = "-" /\ p[2] = line
  BY DEF Marks
<1>2. UnitsOf(rest) \in Seq(Marks)
  BY UnitsOfTyped
<1>3. t \in Seq(Marks) /\ Len(t) \in Nat
  BY <1>2, ConcatProperties, LenProperties
<1>4. buffer = p \o t
  <2>1. line \in Marks
    OBVIOUS
  <2>2. buffer = (p \o UnitsOf(rest)) \o b
    BY <2>1, UnitsOfMore DEF Left
  <2> HIDE DEF p
  <2> QED BY <1>1, <1>2, <2>2, ConcatAssociative
<1> HIDE DEF p, t
<1>5. /\ buffer \in Seq(Marks) /\ Len(buffer) = 2 + Len(t)
      /\ \A i \in 1..2 + Len(t) : buffer[i] = IF i <= 2 THEN p[i] ELSE t[i - 2]
  <2>1. /\ buffer \in Seq(Marks) /\ Len(buffer) = Len(p) + Len(t)
        /\ \A i \in 1..Len(p) + Len(t) : buffer[i] = IF i <= Len(p) THEN p[i] ELSE t[i - Len(p)]
    BY <1>1, <1>3, <1>4, ConcatProperties
  <2> QED BY <1>1, <2>1
<1>6. 1 \in 1..Len(buffer) /\ 2 \in 1..Len(buffer) /\ buffer[1] = "-" /\ buffer[2] = line
  BY <1>1, <1>3, <1>5
<1>7. ~EndsLine(1) /\ EndsLine(2)
  BY <1>6 DEF EndsLine
<1>8. LineLen = 2
  <2>1. \A j \in 1..2 - 1 : ~EndsLine(j)
    BY <1>7
  <2>2. ASSUME NEW k \in 1..Len(buffer), EndsLine(k), \A j \in 1..k - 1 : ~EndsLine(j)
        PROVE  k = 2
    <3>1. ~(2 \in 1..k - 1)
      BY <1>7, <2>2
    <3>2. k # 1
      BY <1>7, <2>2
    <3> QED BY <1>3, <1>5, <3>1, <3>2
  <2> QED BY <1>6, <1>7, <2>1, <2>2 DEF LineLen
<1>9. HasLine /\ Line = line
  BY <1>6, <1>7, <1>8 DEF HasLine, Line
<1>10. RestOfBuffer = t
  <2> DEFINE q == SubSeq(buffer, 3, Len(buffer))
  <2>1. \A i \in 3..Len(buffer) : buffer[i] \in Marks
    BY <1>3, <1>5, LenProperties
  <2>2. /\ q \in Seq(Marks) /\ Len(q) = Len(t)
        /\ \A i \in 1..Len(t) : q[i] = buffer[i + 2]
    <3>1. 3 \in Int /\ Len(buffer) \in Int
      BY <1>3, <1>5
    <3>2. /\ q \in Seq(Marks)
          /\ Len(q) = IF 3 <= Len(buffer) THEN Len(buffer) - 3 + 1 ELSE 0
          /\ \A i \in 1..Len(buffer) - 3 + 1 : q[i] = buffer[3 + i - 1]
      BY <2>1, <3>1, SubSeqProperties
    <3>3. Len(buffer) - 3 + 1 = Len(t)
      BY <1>3, <1>5
    <3>4. \A i \in 1..Len(t) : 3 + i - 1 = i + 2
      BY <1>3
    <3> HIDE DEF q
    <3> QED BY <1>3, <1>5, <3>2, <3>3, <3>4
  <2>3. \A i \in 1..Len(t) : buffer[i + 2] = t[i]
    <3>1. \A i \in 1..Len(t) : i + 2 \in 1..2 + Len(t) /\ ~(i + 2 <= 2) /\ (i + 2) - 2 = i
      BY <1>3
    <3> QED BY <1>5, <3>1
  <2> HIDE DEF q
  <2>4. q = t
    BY <1>3, <2>2, <2>3, SeqEqual
  <2> QED BY <1>8, <2>4 DEF RestOfBuffer, q
<1> QED BY <1>9, <1>10 DEF t

\* No line is in a body, or in nothing.
LEMMA BodyHasNoLine ==
    ASSUME NEW r, buffer \in {<<>>, Body(r)}
    PROVE  ~HasLine
<1>1. CASE buffer = <<>>
  BY <1>1 DEF HasLine
<1>2. CASE buffer = Body(r)
  BY <1>2, BodyTyped DEF HasLine, EndsLine
<1> QED BY <1>1, <1>2

\* One element and another.
LEMMA TwoElements ==
    ASSUME NEW x, NEW y
    PROVE  <<x>> \o <<y>> = <<x, y>>
<1> DEFINE S == {x, y}
           p == <<x>>
           q == <<y>>
           t == <<x, y>>
<1>1. /\ p \in Seq(S) /\ Len(p) = 1 /\ p[1] = x
      /\ q \in Seq(S) /\ Len(q) = 1 /\ q[1] = y
      /\ t \in Seq(S) /\ Len(t) = 2 /\ t[1] = x /\ t[2] = y
  OBVIOUS
<1> HIDE DEF S, p, q, t
<1>2. /\ p \o q \in Seq(S) /\ Len(p \o q) = Len(p) + Len(q)
      /\ \A i \in 1..Len(p) + Len(q) : (p \o q)[i] = IF i <= Len(p) THEN p[i] ELSE q[i - Len(p)]
  BY <1>1, ConcatProperties
<1>3. p \o q = t
  BY <1>1, <1>2, SeqEqual
<1> QED BY <1>3 DEF p, q, t

\* The lines of an orderly client's request: its start line, those for Connection and
\* for the form, and the empty one.
LEMMA OrderlyLines ==
    ASSUME NEW r \in Requests, Orderly(r)
    PROVE  /\ r.start \in Marks \ {"-", "b"} /\ r.start \in {"GET", "POST", "GET10", "NOWHERE"}
           /\ Keeps(r) \in Seq(Marks) /\ Forms(r) \in Seq(Marks)
           /\ Keeps(r) \o (Forms(r) \o <<"empty">>) \in Seq(Marks)
           /\ Forms(r) \o <<"empty">> \in Seq(Marks)
           /\ Lines(r) = <<r.start>> \o (Keeps(r) \o (Forms(r) \o <<"empty">>))
<1>1. /\ r.start \in {"GET", "POST", "GET10", "NOWHERE"} /\ r.odd = "none" /\ r.keep \in BOOLEAN
      /\ r.body \in {"none", "form"}
  BY DEF Requests, Refused, Orderly
<1>2. Connection(r) \in {"none", "keep", "close"}
  BY DEF Connection, Asked
<1>3. r.start \in Marks \ {"-", "b"} /\ <<r.start>> \in Seq(Marks) /\ <<"empty">> \in Seq(Marks)
  BY <1>1 DEF Marks
<1>4. Keeps(r) \in Seq(Marks)
  <2>1. Connection(r) = "none" \/ Connection(r) \in Marks
    BY <1>2 DEF Marks
  <2> QED BY <2>1 DEF Keeps
<1>5. Forms(r) \in Seq(Marks)
  <2>1. "form" \in Marks /\ "length" \in Marks
    BY DEF Marks
  <2> QED BY <2>1 DEF Forms
<1>6. Forms(r) \o <<"empty">> \in Seq(Marks)
  BY <1>3, <1>5, ConcatProperties
<1>7. Keeps(r) \o (Forms(r) \o <<"empty">>) \in Seq(Marks)
  BY <1>4, <1>6, ConcatProperties
<1> DEFINE s == <<r.start>>
           e == <<"empty">>
           k1 == If(r.keep /\ r.start # "GET10", "keep")
           k2 == If(~r.keep /\ r.start = "GET10", "close")
           o == If(r.odd # "none", r.odd)
           f1 == If(r.body = "form", "form")
           f2 == If(r.body # "none", "length")
<1>8. /\ k1 \in Seq(Marks) /\ k2 \in Seq(Marks) /\ f1 \in Seq(Marks) /\ f2 \in Seq(Marks)
      /\ o = <<>> /\ s \in Seq(Marks) /\ e \in Seq(Marks)
  <2>1. "keep" \in Marks /\ "close" \in Marks /\ "form" \in Marks /\ "length" \in Marks
    BY DEF Marks
  <2> QED BY <1>1, <1>3, <2>1 DEF If
<1>9. k1 \o k2 = Keeps(r)
  <2>1. CASE r.start = "GET10" /\ r.keep
    BY <2>1 DEF If, Keeps, Connection, Asked
  <2>2. CASE r.start = "GET10" /\ ~r.keep
    <3>1. k1 = <<>> /\ k2 = Keeps(r)
      BY <2>2 DEF If, Keeps, Connection, Asked
    <3> HIDE DEF k1, k2
    <3> QED BY <1>8, <3>1, ConcatEmptySeq
  <2>3. CASE r.start # "GET10" /\ r.keep
    <3>1. k1 = Keeps(r) /\ k2 = <<>>
      BY <2>3 DEF If, Keeps, Connection, Asked
    <3> HIDE DEF k1, k2
    <3> QED BY <1>8, <3>1, ConcatEmptySeq
  <2>4. CASE r.start # "GET10" /\ ~r.keep
    BY <2>4 DEF If, Keeps, Connection, Asked
  <2> QED BY <2>1, <2>2, <2>3, <2>4
<1>10. f1 \o f2 = Forms(r)
  <2>1. CASE r.body = "none"
    BY <2>1 DEF If, Forms, HasForm
  <2>2. CASE r.body = "form"
    <3>1. f1 = <<"form">> /\ f2 = <<"length">> /\ Forms(r) = <<"form", "length">>
      BY <2>2 DEF If, Forms, HasForm
    <3>2. <<"form">> \o <<"length">> = <<"form", "length">>
      BY TwoElements
    <3> QED BY <3>1, <3>2
  <2> QED BY <1>1, <2>1, <2>2
<1>11. Lines(r) = s \o k1 \o k2 \o o \o f1 \o f2 \o e
  BY DEF Lines
<1> HIDE DEF s, e, k1, k2, o, f1, f2
<1>12. ASSUME NEW x \in Seq(Marks), NEW y \in Seq(Marks), NEW z \in Seq(Marks)
       PROVE  x \o y \in Seq(Marks) /\ (x \o y) \o z = x \o (y \o z)
  BY ConcatProperties, ConcatAssociative
<1>13. s \o k1 \o k2 \o o = s \o Keeps(r)
  <2>1. s \o k1 \o k2 = s \o Keeps(r)
    <3>1. s \in Seq(Marks) /\ k1 \in Seq(Marks) /\ k2 \in Seq(Marks)
      BY <1>8
    <3>2. (s \o k1) \o k2 = s \o (k1 \o k2)
      BY <3>1, <1>12
    <3>3. k1 \o k2 = Keeps(r)
      BY <1>9
    <3> QED BY <3>2, <3>3
  <2>2. s \o Keeps(r) \in Seq(Marks)
    BY <1>4, <1>8, <1>12
  <2> QED BY <1>8, <2>1, <2>2, ConcatEmptySeq
<1>14. Lines(r) = (s \o Keeps(r)) \o Forms(r) \o e
  <2>1. s \o Keeps(r) \in Seq(Marks)
    BY <1>4, <1>8, <1>12
  <2> DEFINE h == s \o Keeps(r)
  <2>2. Lines(r) = h \o f1 \o f2 \o e
    BY <1>11, <1>13
  <2> HIDE DEF h
  <2>3. (h \o f1) \o f2 = h \o (f1 \o f2)
    BY <1>8, <1>12, <2>1 DEF h
  <2> QED BY <1>10, <2>2, <2>3 DEF h
<1>15. (s \o Keeps(r)) \o Forms(r) \o e = s \o (Keeps(r) \o (Forms(r) \o e))
  <2> DEFINE k == Keeps(r)
             f == Forms(r)
  <2>1. s \in Seq(Marks) /\ k \in Seq(Marks) /\ f \in Seq(Marks) /\ e \in Seq(Marks)
    BY <1>4, <1>5, <1>8
  <2> HIDE DEF k, f
  <2>2. (s \o k) \o f = s \o (k \o f) /\ k \o f \in Seq(Marks)
    <3>1. (s \o k) \o f = s \o (k \o f)
      BY <2>1, <1>12
    <3>2. k \o f \in Seq(Marks)
      BY <2>1, ConcatProperties
    <3> QED BY <3>1, <3>2
  <2>3. (s \o (k \o f)) \o e = s \o ((k \o f) \o e)
    BY <2>1, <2>2, <1>12
  <2>4. (k \o f) \o e = k \o (f \o e)
    BY <2>1, <1>12
  <2> QED BY <2>2, <2>3, <2>4 DEF k, f
<1> QED BY <1>1, <1>3, <1>4, <1>5, <1>6, <1>7, <1>14, <1>15 DEF s, e

\* Which of these lines come next.
LEMMA FormLines ==
    ASSUME NEW r \in Requests
    PROVE  /\ ~HasForm(r) => Forms(r) \o <<"empty">> = <<"empty">>
           /\ HasForm(r) => Forms(r) \o <<"empty">> = <<"form">> \o <<"length", "empty">>
           /\ "form" \in Marks \ {"-", "b"} /\ <<"length", "empty">> \in Seq(Marks)
<1>1. /\ <<"form">> \in Seq(Marks) /\ <<"length">> \in Seq(Marks) /\ <<"empty">> \in Seq(Marks)
      /\ <<"length", "empty">> \in Seq(Marks) /\ "form" \in Marks \ {"-", "b"}
  BY DEF Marks
<1>2. <<>> \o <<"empty">> = <<"empty">>
  BY <1>1, ConcatEmptySeq
<1>3. <<"form", "length">> \o <<"empty">> = <<"form">> \o <<"length", "empty">>
  <2>1. <<"form", "length">> = <<"form">> \o <<"length">>
    BY TwoElements
  <2>2. <<"length", "empty">> = <<"length">> \o <<"empty">>
    BY TwoElements
  <2>3. (<<"form">> \o <<"length">>) \o <<"empty">> = <<"form">> \o (<<"length">> \o <<"empty">>)
    BY <1>1, ConcatAssociative
  <2> QED BY <2>1, <2>2, <2>3
<1> QED BY <1>1, <1>2, <1>3 DEF Forms

LEMMA KeepLines ==
    ASSUME NEW r \in Requests, Orderly(r)
    PROVE  LET rest == Forms(r) \o <<"empty">>
           IN  /\ Connection(r) = "none" => Keeps(r) \o rest = rest
               /\ Connection(r) # "none" => /\ Keeps(r) \o rest = <<Connection(r)>> \o rest
                                            /\ Connection(r) \in {"keep", "close"}
                                            /\ Connection(r) \in Marks \ {"-", "b"}
               /\ rest \in Seq(Marks)
<1> DEFINE rest == Forms(r) \o <<"empty">>
<1>1. rest \in Seq(Marks)
  BY OrderlyLines
<1>2. Connection(r) \in {"none", "keep", "close"}
  BY DEF Connection, Asked
<1>3. Connection(r) # "none" => Connection(r) \in Marks \ {"-", "b"}
  BY <1>2 DEF Marks
<1> HIDE DEF rest
<1>4. <<>> \o rest = rest
  BY <1>1, ConcatEmptySeq
<1>5. (Connection(r) = "none" => Keeps(r) = <<>>) /\ (Connection(r) # "none" => Keeps(r) = <<Connection(r)>>)
  BY DEF Keeps
<1> QED BY <1>1, <1>2, <1>3, <1>4, <1>5 DEF rest

-----------------------------------------------------------------------------
(* The codes of the final answers *)

\* What CodesOf has counted up to the n-th answer.
Follows(a, n, f) ==
    /\ f[0] = <<>>
    /\ \A i \in 1..n : f[i] = IF a[i].code = 100 THEN f[i - 1] ELSE Append(f[i - 1], a[i].code)

Counts(a, n, f) == f \in [0..n -> Seq({200, 404, 400})] /\ Follows(a, n, f)

\* There is such a count: take the first answer for which there were none.
LEMMA CountExists ==
    ASSUME NEW a \in Seq(Answers), NEW n \in 0..Len(a)
    PROVE  \E f : Counts(a, n, f)
<1> DEFINE T == {m \in 0..Len(a) : ~\E f : Counts(a, m, f)}
<1>1. Len(a) \in Nat /\ \A i \in 1..Len(a) : a[i] \in Answers
  BY LenProperties
<1>2. T \in SUBSET Nat
  BY <1>1
<1>3. CASE T # {}
  <2>1. PICK m \in T : \A k \in T : m <= k
    <3> HIDE DEF T
    <3> QED BY <1>2, <1>3, LeastNatural
  <2>2. m \in 0..Len(a) /\ m \in Nat /\ ~\E f : Counts(a, m, f)
    BY <1>2, <2>1
  <2>3. CASE m = 0
    <3>1. Counts(a, 0, [i \in 0..0 |-> <<>>])
      BY DEF Counts, Follows
    <3> QED BY <2>2, <2>3, <3>1
  <2>4. CASE m # 0
    <3>1. m - 1 \in 0..Len(a) /\ ~(m <= m - 1) /\ m - 1 \in Nat
      BY <1>1, <2>2, <2>4
    <3>2. m - 1 \notin T
      BY <2>1, <3>1
    <3>3. PICK f : Counts(a, m - 1, f)
      BY <3>1, <3>2
    <3> DEFINE last == IF a[m].code = 100 THEN f[m - 1] ELSE Append(f[m - 1], a[m].code)
               g == [i \in 0..m |-> IF i = m THEN last ELSE f[i]]
    <3>4. f[m - 1] \in Seq({200, 404, 400}) /\ a[m] \in Answers
      BY <1>1, <2>2, <2>4, <3>3 DEF Counts, Follows
    <3>5. last \in Seq({200, 404, 400})
      BY <3>4 DEF Answers
    <3> HIDE DEF last
    <3>6. g \in [0..m -> Seq({200, 404, 400})] /\ g[0] = <<>>
      BY <2>2, <2>4, <3>3, <3>5 DEF Counts, Follows
    <3>7. ASSUME NEW i \in 1..m
          PROVE  g[i] = IF a[i].code = 100 THEN g[i - 1] ELSE Append(g[i - 1], a[i].code)
      <4>1. i - 1 \in 0..m /\ i - 1 # m /\ i \in 0..m
        BY <2>2
      <4>2. g[i - 1] = f[i - 1]
        BY <4>1
      <4>3. CASE i = m
        BY <4>1, <4>2, <4>3 DEF last
      <4>4. CASE i # m
        <5>1. i \in 1..m - 1 /\ g[i] = f[i]
          BY <2>2, <4>1, <4>4
        <5> QED BY <3>3, <4>2, <5>1 DEF Counts, Follows
      <4> QED BY <4>3, <4>4
    <3> HIDE DEF g
    <3>8. Counts(a, m, g)
      BY <3>6, <3>7 DEF Counts, Follows
    <3> QED BY <2>2, <3>8
  <2> QED BY <2>3, <2>4
<1> QED BY <1>3

\* Two counts agree as far as their answers do.
LEMMA CountUnique ==
    ASSUME NEW n \in Nat, NEW m \in Nat, n <= m, NEW a, NEW b, NEW f, NEW g,
           Follows(a, n, f), Follows(b, m, g), \A i \in 1..n : a[i] = b[i]
    PROVE  f[n] = g[n]
<1> DEFINE T == {i \in 0..n : f[i] # g[i]}
<1>1. T \in SUBSET Nat
  OBVIOUS
<1>2. CASE T # {}
  <2>1. PICK i \in T : \A k \in T : i <= k
    <3> HIDE DEF T
    <3> QED BY <1>1, <1>2, LeastNatural
  <2>2. i \in 0..n /\ f[i] # g[i]
    BY <2>1
  <2>3. i # 0
    BY <2>2 DEF Follows
  <2>4. i \in 1..n /\ i \in 1..m /\ i - 1 \in 0..n /\ ~(i <= i - 1)
    BY <2>2, <2>3
  <2>5. f[i - 1] = g[i - 1]
    BY <2>1, <2>4
  <2>6. a[i] = b[i]
    BY <2>4
  <2>7. f[i] = IF a[i].code = 100 THEN f[i - 1] ELSE Append(f[i - 1], a[i].code)
    BY <2>4 DEF Follows
  <2>8. g[i] = IF b[i].code = 100 THEN g[i - 1] ELSE Append(g[i - 1], b[i].code)
    BY <2>4 DEF Follows
  <2> QED BY <2>2, <2>5, <2>6, <2>7, <2>8
<1>3. n \in 0..n
  OBVIOUS
<1> QED BY <1>2, <1>3

\* CodesOf is what a count of all answers comes to.
LEMMA CodesCounted ==
    ASSUME NEW a \in Seq(Answers), NEW f, Counts(a, Len(a), f)
    PROVE  CodesOf(a) = f[Len(a)]
<1> DEFINE Step(h, n) == IF n = 0 THEN <<>>
                         ELSE IF a[n].code = 100 THEN h[n - 1] ELSE Append(h[n - 1], a[n].code)
           codes == CHOOSE h : h = [n \in 0..Len(a) |-> Step(h, n)]
<1>1. Len(a) \in Nat
  BY LenProperties
<1>2. \A n \in 0..Len(a) : f[n] = Step(f, n)
  <2>1. f[0] = Step(f, 0)
    BY DEF Counts, Follows
  <2>2. ASSUME NEW n \in 1..Len(a) PROVE f[n] = Step(f, n)
    BY <1>1 DEF Counts, Follows
  <2>3. \A n \in 0..Len(a) : n = 0 \/ n \in 1..Len(a)
    BY <1>1
  <2> HIDE DEF Step
  <2> QED BY <2>1, <2>2, <2>3
<1>3. f = [n \in 0..Len(a) |-> f[n]]
  BY DEF Counts
<1>4. codes = [n \in 0..Len(a) |-> Step(codes, n)]
  <2> HIDE DEF Step
  <2>1. f = [n \in 0..Len(a) |-> Step(f, n)]
    BY <1>2, <1>3
  <2> QED BY <2>1
<1>5. Follows(a, Len(a), codes)
  <2> HIDE DEF codes
  <2>1. codes[0] = Step(codes, 0)
    <3> HIDE DEF Step
    <3> QED BY <1>1, <1>4
  <2>2. ASSUME NEW n \in 1..Len(a) PROVE codes[n] = Step(codes, n) /\ n # 0
    <3> HIDE DEF Step
    <3> QED BY <1>1, <1>4
  <2> QED BY <2>1, <2>2 DEF Follows
<1>6. f[Len(a)] = codes[Len(a)]
  <2> HIDE DEF codes
  <2> QED BY <1>1, <1>5, CountUnique DEF Counts
<1>7. CodesOf(a) = codes[Len(a)]
  BY DEF CodesOf
<1> QED BY <1>6, <1>7

\* No answer, no code; one more answer, one more code, unless it asks the client to go on.
LEMMA CodesOfNone == CodesOf(<<>>) = <<>>
<1>1. <<>> \in Seq(Answers) /\ Len(<<>>) = 0
  OBVIOUS
<1>2. Counts(<<>>, 0, [i \in 0..0 |-> <<>>])
  BY DEF Counts, Follows
<1>3. CodesOf(<<>>) = [i \in 0..0 |-> <<>>][0]
  BY <1>1, <1>2, CodesCounted
<1> QED BY <1>3

LEMMA CodesOfMore ==
    ASSUME NEW a \in Seq(Answers), NEW answer \in Answers
    PROVE  /\ CodesOf(a) \in Seq({200, 404, 400})
           /\ CodesOf(Append(a, answer)) =
                 IF answer.code = 100 THEN CodesOf(a) ELSE Append(CodesOf(a), answer.code)
<1> DEFINE n == Len(a)
           b == Append(a, answer)
<1>1. n \in Nat /\ n \in 0..n
  BY LenProperties
<1>2. /\ b \in Seq(Answers) /\ Len(b) = n + 1 /\ b[n + 1] = answer
      /\ \A i \in 1..n : b[i] = a[i]
  BY AppendProperties
<1> HIDE DEF n, b
<1>3. PICK f : Counts(a, n, f)
  BY <1>1, CountExists DEF n
<1>4. PICK g : Counts(b, n + 1, g)
  <2>1. n + 1 \in 0..Len(b)
    BY <1>1, <1>2
  <2> QED BY <1>2, <2>1, CountExists
<1>5. CodesOf(a) = f[n]
  BY <1>3, CodesCounted DEF n
<1>6. CodesOf(b) = g[n + 1]
  <2>1. Counts(b, Len(b), g)
    BY <1>2, <1>4
  <2> QED BY <1>2, <2>1, CodesCounted
<1>7. f[n] = g[n]
  <2>1. n + 1 \in Nat /\ n <= n + 1
    BY <1>1
  <2>2. Follows(a, n, f) /\ Follows(b, n + 1, g)
    BY <1>3, <1>4 DEF Counts
  <2>3. \A i \in 1..n : a[i] = b[i]
    BY <1>2
  <2> HIDE DEF Follows
  <2> DEFINE m == n + 1
  <2>4. m \in Nat /\ n <= m /\ Follows(b, m, g)
    BY <2>1, <2>2
  <2>5. f[n] = g[n]
    <3> HIDE DEF m
    <3> QED BY <1>1, <2>2, <2>3, <2>4, CountUnique
  <2> QED BY <2>5
<1>8. g[n + 1] = IF answer.code = 100 THEN g[n] ELSE Append(g[n], answer.code)
  <2>1. n + 1 \in 1..n + 1 /\ (n + 1) - 1 = n
    BY <1>1
  <2> QED BY <1>2, <1>4, <2>1 DEF Counts, Follows
<1>9. f[n] \in Seq({200, 404, 400})
  BY <1>1, <1>3 DEF Counts
<1> QED BY <1>5, <1>6, <1>7, <1>8, <1>9 DEF b

-----------------------------------------------------------------------------
(* Each action keeps an orderly client served *)

\* The codes are a sequence, and the latest request is one.
LEMMA CodesTyped ==
    ASSUME Inv
    PROVE  /\ answers \in Seq(Answers)
           /\ FinalCodes \in Seq({200, 404, 400}) /\ Len(FinalCodes) \in Nat
<1>1. answers \in Seq(Answers) /\ Answer(100, FALSE) \in Answers
  BY DEF Inv, Typed, TypeOK, Answers, Answer
<1>2. FinalCodes \in Seq({200, 404, 400})
  BY <1>1, CodesOfMore DEF FinalCodes
<1> QED BY <1>1, <1>2, LenProperties

LEMMA LatestTyped ==
    ASSUME Inv, orderly, Busy
    PROVE  Latest \in Requests /\ Orderly(Latest)
<1>1. asked \in Seq(Requests) /\ Len(asked) \in Nat /\ Len(asked) = Len(FinalCodes) + 1
  BY LenProperties DEF Inv, Typed, TypeOK, Busy
<1>2. Len(asked) \in 1..Len(asked)
  BY <1>1, CodesTyped
<1>3. Latest \in Requests
  BY <1>1, <1>2, LenProperties DEF Latest
<1> QED BY <1>3 DEF Busy

\* A request is sent when nothing is left of the one before.
LEMMA AskServed == ASSUME Inv, Served, orderly, Ask PROVE Served'
<1>1. PICK r \in Requests : /\ Answered /\ Orderly(r)
                            /\ asked' = Append(asked, r) /\ coming' = coming \o Units(r)
  BY DEF Ask, Recorded
<1>2. UNCHANGED <<orderly, buffer, conn, pc, state, req, finished, answers>>
  BY DEF Ask, serverVars
<1>3. FinalCodes' = FinalCodes
  BY <1>2 DEF FinalCodes
<1>4. asked \in Seq(Requests) /\ Len(asked) \in Nat
  BY LenProperties DEF Inv, Typed, TypeOK
<1>5. Len(asked) = Len(FinalCodes) /\ conn = "CONNECTED" /\ coming = <<>>
  BY <1>1 DEF Answered
<1>6. AtRest /\ ~finished
  BY <1>4, <1>5 DEF Served, Busy
<1>7. Len(asked') = Len(asked) + 1 /\ Latest' = r
  BY <1>1, <1>4, AppendProperties DEF Latest
<1>8. coming' = Units(r)
  BY <1>1, <1>5, UnitsTyped, ConcatEmptySeq
<1>9. Coming(r)'
  BY <1>2, <1>6, <1>8 DEF AtRest, Cleared, Coming
<1>10. Coming(Latest)'
  BY <1>7, <1>9 DEF Coming
<1>11. Busy'
  BY <1>1, <1>2, <1>3, <1>5, <1>7, <1>10 DEF Busy
<1> QED BY <1>2, <1>6, <1>11 DEF Served

\* The head comes in one piece, with the body or without it.
LEMMA HeadInOnePiece ==
    ASSUME NEW r \in Requests, NEW n \in 1..Len(Units(r)),
           SubSeq(Units(r), n + 1, Len(Units(r))) \in {<<>>, Body(r)}
    PROVE  \E b \in {<<>>, Body(r)} :
              /\ SubSeq(Units(r), 1, n) = UnitsOf(Lines(r)) \o b
              /\ \/ b = Body(r) /\ SubSeq(Units(r), n + 1, Len(Units(r))) = <<>>
                 \/ b = <<>> /\ SubSeq(Units(r), n + 1, Len(Units(r))) = Body(r)
<1> DEFINE U == UnitsOf(Lines(r))
           B == Body(r)
           W == Units(r)
           rest == SubSeq(W, n + 1, Len(W))
<1>1. U \in Seq(Marks) /\ B \in Seq(Marks) /\ W \in Seq(Marks) /\ W = U \o B
  BY LinesTyped, UnitsOfTyped, BodyTyped, UnitsTyped DEF Units
<1> HIDE DEF U, B, W
<1>2. Len(U) \in Nat /\ Len(B) \in Nat /\ Len(W) \in Nat
  BY <1>1, LenProperties
<1>3. /\ Len(W) = Len(U) + Len(B)
      /\ \A i \in 1..Len(U) + Len(B) : W[i] = IF i <= Len(U) THEN U[i] ELSE B[i - Len(U)]
  BY <1>1, ConcatProperties
<1>4. n \in 1..Len(W)
  BY DEF W
<1>5. Len(rest) = Len(W) - n
  <2>1. \A i \in n + 1..Len(W) : W[i] \in Marks
    BY <1>1, <1>2, <1>4, LenProperties
  <2>2. n + 1 \in Int /\ Len(W) \in Int
    BY <1>2, <1>4
  <2>3. Len(rest) = IF n + 1 <= Len(W) THEN Len(W) - (n + 1) + 1 ELSE 0
    BY <2>1, <2>2, SubSeqProperties
  <2> HIDE DEF rest
  <2> QED BY <1>2, <1>4, <2>3
<1>6. rest = <<>> \/ rest = B
  BY DEF W, B
<1>7. CASE rest = <<>>
  <2>1. n = Len(W)
    <3> HIDE DEF rest
    <3>1. Len(rest) = 0
      BY <1>7
    <3> QED BY <1>2, <1>4, <1>5, <3>1
  <2>2. SubSeq(W, 1, n) = U \o B
    BY <1>1, <2>1, SubSeqFull
  <2> QED BY <1>7, <2>2 DEF U, B, W
<1>8. CASE rest = B
  <2>1. n = Len(U)
    <3>1. Len(rest) = Len(B)
      BY <1>8
    <3> HIDE DEF rest
    <3> QED BY <1>2, <1>3, <1>4, <1>5, <3>1
  <2> DEFINE q == SubSeq(W, 1, n)
  <2>2. \A i \in 1..n : W[i] = U[i] /\ U[i] \in Marks
    BY <1>1, <1>2, <1>3, <2>1, LenProperties
  <2>3. q \in Seq(Marks) /\ Len(q) = n /\ \A i \in 1..n : q[i] = W[i]
    <3>1. /\ q \in Seq(Marks) /\ Len(q) = IF 1 <= n THEN n - 1 + 1 ELSE 0
          /\ \A i \in 1..n - 1 + 1 : q[i] = W[1 + i - 1]
      BY <1>2, <2>1, <2>2, SubSeqProperties
    <3>2. n - 1 + 1 = n /\ 1 <= n /\ \A i \in 1..n : 1 + i - 1 = i
      BY <1>4
    <3> HIDE DEF q
    <3> QED BY <3>1, <3>2
  <2> HIDE DEF q
  <2>4. q = U
    BY <1>1, <2>1, <2>2, <2>3, SeqEqual
  <2>5. U \o <<>> = U
    BY <1>1, ConcatEmptySeq
  <2> QED BY <1>8, <2>4, <2>5 DEF U, B, W, q
<1> QED BY <1>6, <1>7, <1>8

\* What is sent is the head, or the body of a request that waits for it.
LEMMA DeliverServed == ASSUME Inv, Served, orderly, Deliver PROVE Served'
<1>1. PICK n \in 1..Len(coming) : /\ buffer' = buffer \o SubSeq(coming, 1, n)
                                  /\ coming' = SubSeq(coming, n + 1, Len(coming))
                                  /\ coming' \in {<<>>, Body(Latest)}
  BY DEF Deliver, Latest
<1>2. /\ pc = "wait" /\ coming # <<>> /\ pc' = "parse"
      /\ UNCHANGED <<orderly, asked, conn, state, req, finished, answers>>
  BY DEF Deliver
<1>3. FinalCodes' = FinalCodes /\ Latest' = Latest
  BY <1>2 DEF FinalCodes, Latest
<1>4. Busy /\ ~finished
  BY <1>2 DEF Served, AtRest
<1>5. PICK r \in Requests : r = Latest
  BY <1>4, LatestTyped
<1>6. Coming(r) \/ Awaiting(r)
  BY <1>2, <1>4, <1>5 DEF Busy, Reading, Complete
<1>7. Reading(r)'
  <2>1. CASE Coming(r)
    <3>1. coming = Units(r) /\ buffer = <<>> /\ Cleared
      BY <2>1 DEF Coming
    <3>2. n \in 1..Len(Units(r)) /\ SubSeq(Units(r), n + 1, Len(Units(r))) \in {<<>>, Body(r)}
      BY <1>1, <1>5, <3>1
    <3>3. PICK b \in {<<>>, Body(r)} :
             /\ SubSeq(Units(r), 1, n) = UnitsOf(Lines(r)) \o b
             /\ \/ b = Body(r) /\ SubSeq(Units(r), n + 1, Len(Units(r))) = <<>>
                \/ b = <<>> /\ SubSeq(Units(r), n + 1, Len(Units(r))) = Body(r)
      BY <3>2, HeadInOnePiece
    <3>4. SubSeq(Units(r), 1, n) \in Seq(Marks)
      <4>1. Units(r) \in Seq(Marks) /\ Len(Units(r)) \in Nat
        BY UnitsTyped, LenProperties
      <4>2. 1 \in Nat \ {0} /\ n \in Nat /\ n <= Len(Units(r))
        BY <3>2, <4>1
      <4> QED BY <4>1, <4>2, Piece
    <3>5. buffer' = UnitsOf(Lines(r)) \o b
      BY <1>1, <3>1, <3>3, <3>4, ConcatEmptySeq
    <3>6. (b = Body(r) /\ coming' = <<>>) \/ (b = <<>> /\ coming' = Body(r))
      BY <1>1, <3>1, <3>3
    <3>7. Cleared' /\ Left(Lines(r), b)'
      BY <1>2, <3>1, <3>5 DEF Cleared, Left
    <3> QED BY <1>2, <3>6, <3>7 DEF Reading
  <2>2. CASE Awaiting(r)
    <3>1. /\ coming = Body(r) /\ buffer = <<>> /\ HasForm(r)
          /\ state = "EXPECTBODY" /\ req = Whole(r, TRUE)
      BY <2>2 DEF Awaiting
    <3>2. Body(r) \in Seq(Marks) /\ Len(Body(r)) \in Nat /\ n \in 1..Len(Body(r))
      BY <1>1, <3>1, BodyTyped
    <3>3. Len(SubSeq(Body(r), n + 1, Len(Body(r)))) = Len(Body(r)) - n
      <4> DEFINE B == Body(r)
                 rest == SubSeq(B, n + 1, Len(B))
      <4>1. B \in Seq(Marks) /\ Len(B) \in Nat /\ n \in 1..Len(B)
        BY <3>2
      <4> HIDE DEF B
      <4>2. \A i \in n + 1..Len(B) : B[i] \in Marks
        BY <4>1, LenProperties
      <4>3. n + 1 \in Int /\ Len(B) \in Int
        BY <4>1
      <4>4. Len(rest) = IF n + 1 <= Len(B) THEN Len(B) - (n + 1) + 1 ELSE 0
        BY <4>2, <4>3, SubSeqProperties
      <4> HIDE DEF rest
      <4>5. Len(rest) = Len(B) - n
        BY <4>1, <4>4
      <4> QED BY <4>5 DEF rest, B
    <3>4. coming' = <<>>
      <4>1. coming' = SubSeq(Body(r), n + 1, Len(Body(r)))
        BY <1>1, <3>1
      <4>2. Len(coming') # Len(Body(r))
        BY <3>2, <3>3, <4>1
      <4> QED BY <1>1, <1>5, <4>2
    <3>5. n = Len(Body(r))
      <4>1. Len(coming') = 0
        BY <3>4
      <4> QED BY <1>1, <3>1, <3>2, <3>3, <4>1
    <3>6. buffer' = Body(r)
      BY <1>1, <3>1, <3>2, <3>5, SubSeqFull, ConcatEmptySeq
    <3>7. PastHead(r, Body(r))'
      BY <1>2, <3>1, <3>6 DEF PastHead
    <3> QED BY <1>2, <3>4, <3>7 DEF Reading
  <2> QED BY <1>6, <2>1, <2>2
<1>8. Reading(Latest)'
  BY <1>3, <1>5, <1>7
<1>9. Busy'
  BY <1>2, <1>3, <1>4, <1>8 DEF Busy
<1> QED BY <1>2, <1>4, <1>9 DEF Served

\* What becomes of the record of a request when one or two of its fields are set.
Record(m, v, c, f, l, p, h) ==
    [method |-> m, v11 |-> v, connection |-> c, form |-> f, length |-> l, posted |-> p,
     hasBody |-> h]
WithStart(r, m, v) == [r EXCEPT !.method = m, !.v11 = v]
WithPosted(r, p) == [r EXCEPT !.posted = p]
WithBody(r, p, h) == [r EXCEPT !.posted = p, !.hasBody = h]

LEMMA FieldsSet ==
    ASSUME NEW m, NEW v, NEW c, NEW f, NEW l, NEW p, NEW h, NEW n, NEW w
    PROVE  /\ WithStart(Record(m, v, c, f, l, p, h), n, w) = Record(n, w, c, f, l, p, h)
           /\ WithPosted(Record(m, v, c, f, l, p, h), n) = Record(m, v, c, f, l, n, h)
           /\ WithBody(Record(m, v, c, f, l, p, h), n, w) = Record(m, v, c, f, l, n, w)
<1> DEFINE F(a, b, d, g, k, q, i) ==
             [x \in {"method", "v11", "connection", "form", "length", "posted", "hasBody"} |->
                 CASE x = "method" -> a [] x = "v11" -> b [] x = "connection" -> d
                   [] x = "form" -> g [] x = "length" -> k [] x = "posted" -> q
                   [] x = "hasBody" -> i]
           r == Record(m, v, c, f, l, p, h)
<1>1. ASSUME NEW a, NEW b, NEW d, NEW g, NEW k, NEW q, NEW i
      PROVE  Record(a, b, d, g, k, q, i) = F(a, b, d, g, k, q, i)
  BY DEF Record
<1>2. r = F(m, v, c, f, l, p, h)
  BY <1>1
<1> HIDE DEF r
<1>3. /\ WithStart(r, n, w) = F(n, w, c, f, l, p, h)
      /\ WithPosted(r, n) = F(m, v, c, f, l, n, h)
      /\ WithBody(r, n, w) = F(m, v, c, f, l, n, w)
  BY <1>2 DEF WithStart, WithPosted, WithBody
<1> HIDE DEF F
<1> QED BY <1>1, <1>3 DEF r

LEMMA RecordOf ==
    ASSUME NEW r
    PROVE  /\ HasForm(r) = TRUE \/ HasForm(r) = FALSE
           /\ ~HasForm(r) => /\ Whole(r, HasForm(r)) = Whole(r, FALSE)
                             /\ HeadOf(r, Connection(r), FALSE, "none", FALSE) = Whole(r, FALSE)
           /\ Whole(r, FALSE) = [Whole(r, FALSE) EXCEPT !.posted = 0]
           /\ \A m : HeadOf(r, "none", FALSE, "none", FALSE) =
                       [Blank(m, FALSE) EXCEPT !.method = MethodOf(r.start),
                                               !.v11 = (r.start # "GET10")]
           /\ \A n : [Whole(r, TRUE) EXCEPT !.posted = n, !.hasBody = FALSE] =
                       [Whole(r, FALSE) EXCEPT !.posted = n]
<1>1. HasForm(r) = TRUE \/ HasForm(r) = FALSE
  BY Zenon DEF HasForm
<1>2. ASSUME HasForm(r) = FALSE
      PROVE  /\ Whole(r, HasForm(r)) = Whole(r, FALSE)
             /\ HeadOf(r, Connection(r), FALSE, "none", FALSE) = Whole(r, FALSE)
  BY <1>2 DEF Whole
<1> DEFINE method == MethodOf(r.start)
           v11 == r.start # "GET10"
           connection == Connection(r)
           form == HasForm(r)
           length == IF HasForm(r) THEN "length" ELSE "none"
           no == FALSE
           yes == TRUE
           W(n, h) == Record(method, v11, connection, form, length, n, h)
<1>3. ASSUME NEW m
      PROVE  HeadOf(r, "none", FALSE, "none", FALSE) =
                WithStart(Blank(m, FALSE), method, v11)
  <2> DEFINE blank == Blank(m, FALSE)
             head == HeadOf(r, "none", FALSE, "none", FALSE)
  <2>1. blank = Record(m, no, "none", no, "none", 0, no)
    BY DEF Blank, Record
  <2>2. head = Record(method, v11, "none", no, "none", 0, no)
    BY DEF HeadOf, Record
  <2> HIDE DEF blank, head, method, v11, no
  <2>3. WithStart(blank, method, v11) = head
    BY <2>1, <2>2, FieldsSet
  <2> QED BY <2>3 DEF blank, head
<1>4. Whole(r, FALSE) = W(0, no) /\ Whole(r, TRUE) = W(0, yes)
  BY DEF Whole, HeadOf, Record
<1>5. ASSUME NEW n
      PROVE  WithPosted(W(0, no), n) = W(n, no)
  <2> HIDE DEF method, v11, connection, form, length, no
  <2> QED BY FieldsSet
<1>6. ASSUME NEW n
      PROVE  WithBody(W(0, yes), n, no) = W(n, no)
  <2> HIDE DEF method, v11, connection, form, length, no, yes
  <2> QED BY FieldsSet
<1> HIDE DEF W, method, v11
<1>7. /\ Whole(r, FALSE) = WithPosted(Whole(r, FALSE), 0)
      /\ \A n : WithBody(Whole(r, TRUE), n, no) = WithPosted(Whole(r, FALSE), n)
  BY <1>4, <1>5, <1>6
<1> QED BY <1>1, <1>2, <1>3, <1>7 DEF method, v11, WithStart, WithPosted, WithBody

\* A line is left as long as the empty one has not been read.
LEMMA LinesLeft ==
    ASSUME NEW r \in Requests, Orderly(r), NEW b \in {<<>>, Body(r)}, ~HasLine
    PROVE  ~Left(Lines(r), b) /\ ~InHead(r, b)
<1>1. b \in Seq(Marks)
  BY BodyTyped
<1>2. ASSUME NEW line \in Marks \ {"-", "b"}, NEW rest \in Seq(Marks)
      PROVE  ~Left(<<line>> \o rest, b)
  BY <1>1, <1>2, FirstLine
<1>3. ~Left(Lines(r), b)
  BY <1>2, OrderlyLines
<1>4. ~Left(<<"empty">>, b) /\ ~Left(<<"length", "empty">>, b)
  <2>1. /\ "empty" \in Marks \ {"-", "b"} /\ "length" \in Marks \ {"-", "b"}
        /\ <<>> \in Seq(Marks) /\ <<"empty">> \in Seq(Marks)
    BY DEF Marks
  <2>2. <<"empty">> = <<"empty">> \o <<>> /\ <<"length", "empty">> = <<"length">> \o <<"empty">>
    BY <2>1, TwoElements, ConcatEmptySeq
  <2> QED BY <1>2, <2>1, <2>2
<1>5. ~Left(Forms(r) \o <<"empty">>, b)
  BY <1>2, <1>4, FormLines
<1>6. ~Left(Keeps(r) \o (Forms(r) \o <<"empty">>), b)
  BY <1>2, <1>5, KeepLines
<1> QED BY <1>3, <1>4, <1>5, <1>6 DEF InHead

\* One line of the head.
LEMMA HeaderLine ==
    ASSUME NEW r \in Requests, Orderly(r), NEW b \in {<<>>, Body(r)}, InHead(r, b),
           ParseHeaderLine
    PROVE  InHead(r, b)' \/ PastHead(r, b)'
<1>1. /\ state = "EXPECTHEADERLINE" /\ isSuccess' = TRUE /\ buffer' = RestOfBuffer
      /\ b \in Seq(Marks)
  <2>1. b \in Seq(Marks)
    BY BodyTyped
  <2> QED BY <2>1 DEF ParseHeaderLine
<1>2. ASSUME NEW line \in Headers, NEW rest \in Seq(Marks), Left(<<line>> \o rest, b)
      PROVE  /\ state' = "EXPECTHEADERLINE" /\ req' = SetHeader(req, line)
             /\ buffer' = UnitsOf(rest) \o b
  <2>1. line \in Marks \ {"-", "b"} /\ line # "colon"
    BY DEF Headers, Marks
  <2>2. Line = line /\ RestOfBuffer = UnitsOf(rest) \o b
    BY <1>1, <1>2, <2>1, FirstLine
  <2> QED BY <1>1, <2>1, <2>2 DEF ParseHeaderLine
<1>3. CASE /\ Left(<<"empty">>, b) /\ req = Whole(r, FALSE)
  <2>1. <<"empty">> = <<"empty">> \o <<>> /\ <<>> \in Seq(Marks) /\ "empty" \in Marks \ {"-", "b"}
    <3>1. <<"empty">> \in Seq(Marks)
      BY DEF Marks
    <3> QED BY <3>1, ConcatEmptySeq DEF Marks
  <2>2. Line = "empty" /\ RestOfBuffer = UnitsOf(<<>>) \o b
    BY <1>1, <1>3, <2>1, FirstLine
  <2>3. RestOfBuffer = b
    <3>1. UnitsOf(<<>>) \in Seq(Marks) /\ Len(UnitsOf(<<>>)) = 0
      <4>1. UnitsOf(<<>>) \in Seq(Marks) /\ Len(UnitsOf(<<>>)) = 2 * Len(<<>>)
        BY <2>1, UnitsOfTyped
      <4>2. Len(<<>>) = 0
        OBVIOUS
      <4> QED BY <4>1, <4>2
    <3>2. UnitsOf(<<>>) = <<>>
      BY <3>1, EmptySeq
    <3> QED BY <1>1, <2>2, <3>2, ConcatEmptySeq
  <2>4. Line \notin Headers /\ Line # "colon" /\ req.length # "number"
    BY <1>3, <2>2 DEF Headers, Whole, HeadOf
  <2>5. req' = [req EXCEPT !.hasBody = @ \/ req.length = "length"] /\ state' = AfterHead(req')
    BY <2>4 DEF ParseHeaderLine
  <2>6. CASE HasForm(r)
    <3>1. r.start = "POST"
      BY <2>6 DEF HasForm, Orderly, Requests
    <3>2. req' = Whole(r, TRUE)
      BY <1>3, <2>5, <2>6 DEF Whole, HeadOf
    <3>3. state' = "EXPECTBODY"
      BY <2>5, <2>6, <3>1, <3>2 DEF AfterHead, Whole, HeadOf, MethodOf
    <3> QED BY <1>1, <2>3, <2>6, <3>2, <3>3 DEF PastHead
  <2>7. CASE ~HasForm(r)
    <3>1. req' = Whole(r, FALSE)
      BY <1>3, <2>5, <2>7 DEF Whole, HeadOf
    <3>2. state' = "EXPECTSTARTLINE"
      BY <2>5, <2>7, <3>1 DEF AfterHead, Whole, HeadOf
    <3> QED BY <1>1, <2>3, <2>7, <3>1, <3>2, RecordOf DEF PastHead
  <2> QED BY <2>6, <2>7
<1>4. CASE /\ HasForm(r) /\ Left(<<"length", "empty">>, b)
           /\ req = HeadOf(r, Connection(r), TRUE, "none", FALSE)
  <2>1. <<"length", "empty">> = <<"length">> \o <<"empty">> /\ <<"empty">> \in Seq(Marks)
    BY TwoElements DEF Marks
  <2>2. "length" \in Headers
    BY DEF Headers
  <2>3. /\ state' = "EXPECTHEADERLINE" /\ req' = SetHeader(req, "length")
        /\ buffer' = UnitsOf(<<"empty">>) \o b
    BY <1>2, <1>4, <2>1, <2>2
  <2>4. req' = Whole(r, FALSE)
    BY <1>4, <2>3 DEF SetHeader, Whole, HeadOf
  <2> QED BY <1>1, <2>3, <2>4 DEF InHead, Left
<1>5. CASE /\ Left(Forms(r) \o <<"empty">>, b)
           /\ req = HeadOf(r, Connection(r), FALSE, "none", FALSE)
  <2>1. CASE HasForm(r)
    <3>1. /\ Forms(r) \o <<"empty">> = <<"form">> \o <<"length", "empty">>
          /\ <<"length", "empty">> \in Seq(Marks)
      BY <2>1, FormLines
    <3>2. "form" \in Headers
      BY DEF Headers
    <3>3. /\ state' = "EXPECTHEADERLINE" /\ req' = SetHeader(req, "form")
          /\ buffer' = UnitsOf(<<"length", "empty">>) \o b
      BY <1>2, <1>5, <3>1, <3>2
    <3>4. req' = HeadOf(r, Connection(r), TRUE, "none", FALSE)
      BY <1>5, <3>3 DEF SetHeader, HeadOf
    <3> QED BY <1>1, <2>1, <3>3, <3>4 DEF InHead, Left
  <2>2. CASE ~HasForm(r)
    <3>1. Left(<<"empty">>, b)
      BY <1>5, <2>2, FormLines
    <3>2. req = Whole(r, FALSE)
      BY <1>5, <2>2, RecordOf
    <3> QED BY <1>3, <3>1, <3>2
  <2> QED BY <2>1, <2>2
<1>6. CASE /\ Left(Keeps(r) \o (Forms(r) \o <<"empty">>), b)
           /\ req = HeadOf(r, "none", FALSE, "none", FALSE)
  <2>1. CASE Connection(r) = "none"
    <3>1. Left(Forms(r) \o <<"empty">>, b)
      BY <1>6, <2>1, KeepLines
    <3> QED BY <1>5, <1>6, <2>1, <3>1
  <2>2. CASE Connection(r) # "none"
    <3>1. /\ Connection(r) \in {"keep", "close"}
          /\ Keeps(r) \o (Forms(r) \o <<"empty">>) = <<Connection(r)>> \o (Forms(r) \o <<"empty">>)
      BY <2>2, KeepLines
    <3>2. Connection(r) \in Headers /\ Forms(r) \o <<"empty">> \in Seq(Marks)
      BY <3>1, OrderlyLines DEF Headers
    <3>3. /\ state' = "EXPECTHEADERLINE" /\ req' = SetHeader(req, Connection(r))
          /\ buffer' = UnitsOf(Forms(r) \o <<"empty">>) \o b
      BY <1>2, <1>6, <3>1, <3>2
    <3>4. req' = HeadOf(r, Connection(r), FALSE, "none", FALSE)
      BY <1>6, <3>1, <3>3 DEF SetHeader, HeadOf
    <3> QED BY <1>1, <3>3, <3>4 DEF InHead, Left
  <2> QED BY <2>1, <2>2
<1> QED BY <1>3, <1>4, <1>5, <1>6 DEF InHead

\* An answer that asks to go on is not a final one.
LEMMA CodesKept ==
    ASSUME Inv, answers' = Sent(conn, answers, Answer(100, FALSE))
    PROVE  FinalCodes' = FinalCodes
<1> DEFINE goOn == Answer(100, FALSE)
<1>1. goOn \in Answers /\ goOn.code = 100
  BY DEF Answers, Answer
<1>2. answers' = Append(answers, goOn) \/ answers' = answers
  BY DEF Sent
<1> HIDE DEF goOn
<1>3. answers \in Seq(Answers)
  BY CodesTyped
<1>4. CodesOf(Append(answers, goOn)) = CodesOf(answers)
  BY <1>1, <1>3, CodesOfMore
<1> QED BY <1>2, <1>4, Zenon DEF FinalCodes

\* A request that has been read to its end is complete.
LEMMA NoLineServed == ASSUME Inv, Served, orderly, NoLine PROVE Served'
<1>1. /\ pc = "parse" /\ pc' = "answer" /\ ~HasLine
      /\ state \in {"EXPECTSTARTLINE", "EXPECTHEADERLINE"}
      /\ UNCHANGED <<orderly, asked, coming, buffer, conn, isSuccess, state, req, finished,
                     answers>>
  BY DEF NoLine, Incomplete, clientVars
<1>2. Busy /\ ~finished
  BY <1>1 DEF Served, AtRest
<1>3. PICK r \in Requests : r = Latest /\ Orderly(r)
  BY <1>2, LatestTyped
<1>4. PICK b \in {<<>>, Body(r)} :
         /\ (b = Body(r) /\ coming = <<>>) \/ (b = <<>> /\ coming = Body(r))
         /\ (Cleared /\ Left(Lines(r), b)) \/ InHead(r, b) \/ PastHead(r, b)
  BY <1>1, <1>2, <1>3 DEF Busy, Coming, Reading, Awaiting, Complete
<1>5. ~Left(Lines(r), b) /\ ~InHead(r, b)
  BY <1>1, <1>3, <1>4, LinesLeft
<1>6. buffer = b /\ req = Whole(r, FALSE) /\ state = "EXPECTSTARTLINE" /\ isSuccess /\ ~HasForm(r)
  BY <1>1, <1>4, <1>5, RecordOf DEF PastHead
<1>7. Body(r) = <<>> /\ Len(Body(r)) = 0
  BY <1>6, BodyTyped DEF HasForm
<1>8. Whole(r, FALSE) = [Whole(r, FALSE) EXCEPT !.posted = Len(Body(r))]
  BY <1>7, RecordOf
<1>9. Complete(r)'
  BY <1>1, <1>4, <1>6, <1>7, <1>8 DEF Complete
<1>10. Busy'
  BY <1>1, <1>2, <1>3, <1>9 DEF Busy, FinalCodes, Latest, Complete
<1> QED BY <1>1, <1>2, <1>10 DEF Served

\* The start line of the request makes a new record, of which nothing was there before.
LEMMA ParseStartLineServed == ASSUME Inv, Served, orderly, ParseStartLine PROVE Served'
<1>1. /\ pc = "parse" /\ HasLine /\ state = "EXPECTSTARTLINE"
      /\ UNCHANGED <<orderly, asked, coming, conn, finished, answers>>
  BY DEF ParseStartLine, clientVars
<1>2. Busy /\ ~finished
  BY <1>1 DEF Served, AtRest
<1>3. PICK r \in Requests : r = Latest /\ Orderly(r)
  BY <1>2, LatestTyped
<1>4. PICK b \in {<<>>, Body(r)} :
         /\ (b = Body(r) /\ coming = <<>>) \/ (b = <<>> /\ coming = Body(r))
         /\ (Cleared /\ Left(Lines(r), b)) \/ InHead(r, b) \/ PastHead(r, b)
  BY <1>1, <1>2, <1>3 DEF Busy, Coming, Reading, Awaiting, Complete
<1>5. Cleared /\ Left(Lines(r), b)
  BY <1>1, <1>4, BodyHasNoLine DEF InHead, PastHead
<1> DEFINE rest == Keeps(r) \o (Forms(r) \o <<"empty">>)
<1>6. Line = r.start /\ RestOfBuffer = UnitsOf(rest) \o b
  <2>1. r.start \in Marks \ {"-", "b"} /\ rest \in Seq(Marks) /\ b \in Seq(Marks)
    <3>1. b \in Seq(Marks)
      BY BodyTyped
    <3> QED BY <1>3, <3>1, OrderlyLines
  <2>2. Left(<<r.start>> \o rest, b)
    BY <1>3, <1>5, OrderlyLines
  <2> HIDE DEF rest
  <2> QED BY <2>1, <2>2, FirstLine
<1>7. r.start \in {"GET", "POST", "GET10", "NOWHERE"}
  BY <1>3, OrderlyLines
<1>8. /\ isSuccess' = TRUE /\ state' = "EXPECTHEADERLINE" /\ pc' = pc
      /\ req' = [req EXCEPT !.method = MethodOf(r.start), !.v11 = (r.start # "GET10")]
      /\ buffer' = UnitsOf(rest) \o b
  BY <1>6, <1>7 DEF ParseStartLine
<1>9. req' = HeadOf(r, "none", FALSE, "none", FALSE)
  <2>1. PICK m : req = Blank(m, FALSE)
    BY <1>5 DEF Cleared
  <2> QED BY <1>8, <2>1, RecordOf
<1>10. InHead(r, b)'
  BY <1>8, <1>9 DEF InHead, Left
<1>11. Reading(r)'
  BY <1>1, <1>4, <1>8, <1>10 DEF Reading
<1>12. Busy'
  BY <1>1, <1>2, <1>3, <1>11 DEF Busy, FinalCodes, Latest
<1> QED BY <1>1, <1>2, <1>12 DEF Served

\* The header lines make it what the request says, and the empty line decides whether a
\* body is to follow.
LEMMA ParseHeaderLineServed == ASSUME Inv, Served, orderly, ParseHeaderLine PROVE Served'
<1>1. /\ pc = "parse" /\ state = "EXPECTHEADERLINE" /\ isSuccess' = TRUE
      /\ buffer' = RestOfBuffer
      /\ UNCHANGED <<orderly, asked, coming, conn, pc, finished, answers>>
  BY DEF ParseHeaderLine, clientVars
<1>2. Busy /\ ~finished
  BY <1>1 DEF Served, AtRest
<1>3. PICK r \in Requests : r = Latest /\ Orderly(r)
  BY <1>2, LatestTyped
<1>4. PICK b \in {<<>>, Body(r)} :
         /\ (b = Body(r) /\ coming = <<>>) \/ (b = <<>> /\ coming = Body(r))
         /\ (Cleared /\ Left(Lines(r), b)) \/ InHead(r, b) \/ PastHead(r, b)
  BY <1>1, <1>2, <1>3 DEF Busy, Coming, Reading, Awaiting, Complete
<1>5. InHead(r, b)
  BY <1>1, <1>4 DEF Cleared, PastHead
<1>6. InHead(r, b)' \/ PastHead(r, b)'
  BY <1>1, <1>3, <1>4, <1>5, HeaderLine
<1>7. Reading(r)'
  BY <1>1, <1>4, <1>6 DEF Reading
<1>8. Busy'
  BY <1>1, <1>2, <1>3, <1>7 DEF Busy, FinalCodes, Latest
<1> QED BY <1>1, <1>2, <1>8 DEF Served

\* The body is all that is in the buffer, or all that is still to come.
LEMMA ParseFormBodyServed == ASSUME Inv, Served, orderly, ParseFormBody PROVE Served'
<1>1. /\ pc = "parse" /\ pc' = "answer" /\ state = "EXPECTBODY" /\ isSuccess' = TRUE
      /\ buffer' = <<>>
      /\ UNCHANGED <<orderly, asked, coming, conn, finished, answers>>
  BY DEF ParseFormBody, clientVars
<1>2. Busy /\ ~finished
  BY <1>1 DEF Served, AtRest
<1>3. PICK r \in Requests : r = Latest /\ Orderly(r)
  BY <1>2, LatestTyped
<1>4. PICK b \in {<<>>, Body(r)} :
         /\ (b = Body(r) /\ coming = <<>>) \/ (b = <<>> /\ coming = Body(r))
         /\ (Cleared /\ Left(Lines(r), b)) \/ InHead(r, b) \/ PastHead(r, b)
  BY <1>1, <1>2, <1>3 DEF Busy, Coming, Reading, Awaiting, Complete
<1>5. buffer = b /\ HasForm(r) /\ req = Whole(r, TRUE)
  BY <1>1, <1>4 DEF Cleared, InHead, PastHead
<1>6. Body(r) # <<>>
  BY <1>5, BodyTyped DEF HasForm
<1>7. Awaiting(r)' \/ Complete(r)'
  <2>1. CASE b = <<>>
    <3>1. coming = Body(r) /\ UNCHANGED <<state, req>>
      BY <1>4, <1>5, <1>6, <2>1 DEF ParseFormBody
    <3> QED BY <1>1, <1>5, <3>1 DEF Awaiting
  <2>2. CASE b = Body(r)
    <3>1. /\ coming = <<>> /\ state' = "EXPECTSTARTLINE"
          /\ req' = [req EXCEPT !.posted = Len(Body(r)), !.hasBody = FALSE]
      BY <1>4, <1>5, <1>6, <2>2 DEF ParseFormBody, AfterBody, BodyRead
    <3>2. req' = [Whole(r, FALSE) EXCEPT !.posted = Len(Body(r))]
      BY <1>5, <3>1, RecordOf
    <3> QED BY <1>1, <3>1, <3>2 DEF Complete
  <2> QED BY <1>4, <2>1, <2>2
<1>8. Busy'
  <2>1. Latest' = r /\ FinalCodes' = FinalCodes
    BY <1>1, <1>3 DEF Latest, FinalCodes
  <2>2. Awaiting(Latest)' \/ Complete(Latest)'
    BY <1>7, <2>1 DEF Awaiting, Complete
  <2> QED BY <1>1, <1>2, <1>3, <2>1, <2>2 DEF Busy
<1> QED BY <1>1, <1>2, <1>8 DEF Served

\* A request that waits for its body is told to go on, and waits.
LEMMA ContinueServed == ASSUME Inv, Served, orderly, Continue PROVE Served'
<1>1. /\ pc = "answer" /\ pc' = "wait" /\ ~Finishes
      /\ answers' = Sent(conn, answers, Answer(100, FALSE))
      /\ UNCHANGED <<orderly, asked, coming, buffer, conn, state, req, finished>>
  BY DEF Continue, clientVars
<1>2. Busy /\ ~finished
  BY <1>1 DEF Served, AtRest
<1>3. PICK r \in Requests : r = Latest
  BY <1>2, LatestTyped
<1>4. Awaiting(r)
  <2>1. ~Complete(r)
    BY <1>1 DEF Finishes, Complete, Whole, HeadOf
  <2> QED BY <1>1, <1>2, <1>3, <2>1 DEF Busy, Coming, Reading
<1>5. Awaiting(r)'
  BY <1>1, <1>4 DEF Awaiting
<1>6. FinalCodes' = FinalCodes
  BY <1>1, CodesKept
<1>7. Busy'
  BY <1>1, <1>2, <1>3, <1>5, <1>6 DEF Busy, Latest, Awaiting
<1> QED BY <1>1, <1>2, <1>7 DEF Served

\* No request of an orderly client is a bad one.
LEMMA NoBadRequest == ASSUME Served, orderly PROVE ~BadRequest
BY DEF BadRequest, Served, AtRest, Busy, Coming, Reading, Awaiting, Complete

\* The request that is answered is complete: the handler gets what was asked, the answer is
\* one final one, and nothing of the request is left.
Found == {r \in Requests : r.start \in {"GET", "POST", "GET10"}}

LEMMA RequestAnswered ==
    ASSUME Inv, Served, orderly, OnRequest
    PROVE  /\ Busy /\ AtRest' /\ ~finished'
           /\ FinalCodes' = Append(FinalCodes, IF Latest \in Found THEN 200 ELSE 404)
           /\ handed' = IF Latest \in Found THEN Append(handed, Asked(Latest)) ELSE handed
           /\ conn' = "CONNECTED" <=> Latest \in Found /\ Latest.keep
<1>1. /\ pc = "answer" /\ pc' = "wait" /\ Finishes /\ req' = Clear(req) /\ finished' = FALSE
      /\ UNCHANGED <<orderly, asked, coming, buffer, isSuccess, state>>
  BY DEF OnRequest, clientVars
<1>2. Busy /\ ~finished
  BY <1>1 DEF Served, AtRest
<1>3. PICK r \in Requests : r = Latest /\ Orderly(r)
  BY <1>2, LatestTyped
<1>4. Complete(r)
  <2>1. ~Awaiting(r)
    BY <1>1, <1>2 DEF Finishes, Awaiting, Whole, HeadOf
  <2> QED BY <1>1, <1>2, <1>3, <2>1 DEF Busy, Coming, Reading
<1>5. /\ req.method = MethodOf(r.start) /\ req.connection = Connection(r)
      /\ req.posted = Len(Body(r)) /\ req.hasBody = FALSE
      /\ req.v11 <=> r.start # "GET10"
  BY <1>4 DEF Complete, Whole, HeadOf
<1>6. r.start \in {"GET", "POST", "GET10", "NOWHERE"}
  BY <1>3, OrderlyLines
<1>7. Known <=> r \in Found
  BY <1>5, <1>6 DEF Known, MethodOf, Found
<1>8. Closes <=> ~r.keep
  <2>1. Connection(r) = IF r.start = "GET10" THEN IF r.keep THEN "none" ELSE "close"
                        ELSE IF r.keep THEN "keep" ELSE "none"
    BY DEF Connection, Asked
  <2> QED BY <1>5, <2>1 DEF Closes
<1>9. conn = "CONNECTED" /\ Len(asked) = Len(FinalCodes) + 1 /\ answers \in Seq(Answers)
  BY <1>2, CodesTyped DEF Busy
<1>10. ASSUME NEW code \in {200, 404}, NEW length \in BOOLEAN,
              answers' = Append(answers, Answer(code, length))
       PROVE  FinalCodes' = Append(FinalCodes, code)
  <2>1. Answer(code, length) \in Answers /\ Answer(code, length).code = code
    BY DEF Answer, Answers
  <2>2. CodesOf(answers') = Append(CodesOf(answers), code)
    BY <1>9, <1>10, <2>1, CodesOfMore
  <2> QED BY <2>2 DEF FinalCodes
<1>11. /\ FinalCodes' = Append(FinalCodes, IF r \in Found THEN 200 ELSE 404)
       /\ handed' = IF r \in Found THEN Append(handed, Asked(r)) ELSE handed
       /\ conn' = "CONNECTED" <=> r \in Found /\ r.keep
  <2>1. CASE Known /\ Handle
    <3>1. PICK close \in {Closes} :
             /\ handed' = Append(handed, [method |-> req.method, posted |-> req.posted,
                                          connection |-> req.connection])
             /\ answers' = Append(answers, Answer(200, ~close))
             /\ conn' = AfterAnswer(close, conn)
      BY <1>9, <2>1 DEF Handle, Decides, Recorded, Sent
    <3>2. FinalCodes' = Append(FinalCodes, 200)
      <4>1. (~close) \in BOOLEAN
        BY Zenon
      <4> QED BY <1>10, <3>1, <4>1
    <3>3. Asked(r) = [method |-> req.method, posted |-> req.posted,
                      connection |-> req.connection]
      BY <1>5 DEF Connection, Asked
    <3>4. close <=> ~r.keep
      BY <1>8, <3>1, Zenon
    <3>5. conn' = "CONNECTED" <=> r.keep
      BY <1>9, <3>1, <3>4 DEF AfterAnswer
    <3> QED BY <1>7, <2>1, <3>1, <3>2, <3>3, <3>5
  <2>2. CASE ~Known /\ NotFound
    <3>1. /\ answers' = Append(answers, Answer(404, FALSE))
          /\ conn' = "DISCONNECTING" /\ handed' = handed
      BY <1>9, <2>2 DEF NotFound, Sent, AfterNotFound, AfterAnswer
    <3>2. FinalCodes' = Append(FinalCodes, 404)
      BY <1>10, <3>1
    <3> QED BY <1>7, <2>2, <3>1, <3>2
  <2> QED BY <2>1, <2>2 DEF OnRequest
<1>12. AtRest'
  <2>1. Len(FinalCodes') = Len(FinalCodes) + 1
    BY <1>11, CodesTyped, AppendProperties
  <2>2. req' = Blank("NONE", FALSE)
    BY <1>1, <1>5 DEF Clear
  <2>3. state' = "EXPECTSTARTLINE" /\ buffer' = <<>> /\ coming' = <<>>
    BY <1>1, <1>4 DEF Complete
  <2> QED BY <1>1, <1>9, <2>1, <2>2, <2>3 DEF AtRest, Cleared
<1> QED BY <1>1, <1>2, <1>3, <1>11, <1>12

\* So an orderly client is served.
LEMMA OrderlyServed == (Init => Served) /\ (Inv /\ Served /\ [Next]_vars => Served')
<1>1. Init => Served
  <2> SUFFICES ASSUME Init, orderly PROVE ~finished /\ AtRest
    BY DEF Served
  <2>1. Len(FinalCodes) = Len(asked)
    BY CodesOfNone DEF Init, FinalCodes
  <2>2. Cleared
    <3>1. PICK h \in BOOLEAN : ~h /\ req = Blank("unset", h)
      BY DEF Init
    <3>2. h = FALSE
      BY <3>1, Zenon
    <3> QED BY <3>1, <3>2 DEF Init, Cleared
  <2> QED BY <2>1, <2>2 DEF Init, AtRest
<1>2. ASSUME Inv, Served, Next PROVE Served'
  <2>1. orderly' = orderly
    BY <1>2 DEF Next, OnMessage, Ask, Deliver, NoLine, ParseStartLine, ParseHeaderLine,
                ParseFormBody, BadRequest, Continue, OnRequest, clientVars
  <2>2. CASE orderly
    <3>1. CASE OnRequest
      BY <1>2, <2>2, <3>1, RequestAnswered DEF Served
    <3> QED BY <1>2, <2>2, <3>1, AskServed, DeliverServed, NoLineServed, ParseStartLineServed,
               ParseHeaderLineServed, ParseFormBodyServed, NoBadRequest, ContinueServed
            DEF Next, OnMessage
  <2>3. CASE ~orderly
    BY <2>1, <2>3 DEF Served
  <2> QED BY <2>2, <2>3
<1>3. ASSUME Served, UNCHANGED vars PROVE Served'
  BY <1>3 DEF vars, clientVars, serverVars, Served, AtRest, Busy, Cleared, FinalCodes, Latest,
              Coming, Reading, Awaiting, Complete, InHead, PastHead, Left
<1> QED BY <1>1, <1>2, <1>3

-----------------------------------------------------------------------------
(* The exchange *)

\* Every step of the server is one of the exchange or leaves it alone: of all it does to a
\* request, only the answer shows.
LEMMA ExchangeStep ==
    ASSUME Inv, Served, [Next]_vars
    PROVE  [Exchange!Next]_(Exchange!exchangeVars)
<1>1. orderly' = orderly
  BY DEF Next, OnMessage, Ask, Deliver, NoLine, ParseStartLine, ParseHeaderLine,
         ParseFormBody, BadRequest, Continue, OnRequest, clientVars, vars
<1>2. ASSUME UNCHANGED <<asked, handed, FinalCodes, conn>> PROVE UNCHANGED Exchange!exchangeVars
  BY <1>1, <1>2, Zenon DEF Exchange!exchangeVars
<1>3. CASE ~orderly
  <2>1. ~orderly'
    BY <1>1, <1>3
  <2>2. (orderly => conn = "CONNECTED")' = (orderly => conn = "CONNECTED")
    BY <1>3, <2>1, Zenon
  <2>3. /\ (IF orderly THEN asked ELSE <<>>)' = (IF orderly THEN asked ELSE <<>>)
        /\ (IF orderly THEN handed ELSE <<>>)' = (IF orderly THEN handed ELSE <<>>)
        /\ (IF orderly THEN FinalCodes ELSE <<>>)' = (IF orderly THEN FinalCodes ELSE <<>>)
    BY <1>3, <2>1
  <2> QED BY <2>2, <2>3, Zenon DEF Exchange!exchangeVars
<1>4. CASE orderly /\ Ask
  <2>1. PICK r \in Requests : Answered /\ asked' = Append(asked, r)
    BY <1>4 DEF Ask, Recorded
  <2>2. conn' = conn /\ handed' = handed /\ FinalCodes' = FinalCodes
    BY <1>4 DEF Ask, serverVars, FinalCodes
  <2>3. (orderly => conn = "CONNECTED")' = (orderly => conn = "CONNECTED")
    BY <1>1, <2>2, Zenon
  <2>4. Len(FinalCodes) = Len(asked) /\ conn = "CONNECTED"
    BY <2>1 DEF Answered
  <2>5. Exchange!Ask
    BY <1>1, <1>4, <2>1, <2>2, <2>3, <2>4 DEF Exchange!Ask
  <2> QED BY <2>5 DEF Exchange!Next
<1>5. CASE orderly /\ OnRequest
  <2>1. /\ Busy
        /\ FinalCodes' = Append(FinalCodes, IF Latest \in Found THEN 200 ELSE 404)
        /\ handed' = IF Latest \in Found THEN Append(handed, Asked(Latest)) ELSE handed
        /\ conn' = "CONNECTED" <=> Latest \in Found /\ Latest.keep
    BY <1>5, RequestAnswered
  <2>2. asked' = asked
    BY <1>5 DEF OnRequest, clientVars
  <2>3. /\ Len(FinalCodes) < Len(asked) /\ asked[Len(FinalCodes) + 1] = Latest
    <3>1. Len(asked) = Len(FinalCodes) + 1 /\ Len(FinalCodes) \in Nat
      BY <2>1, CodesTyped DEF Busy
    <3> QED BY <3>1 DEF Latest
  <2>4. Latest \in Requests
    BY <1>5, <2>1, LatestTyped
  <2>5. (orderly => conn = "CONNECTED")' =
           (Latest \in {r \in Requests : r.start \in {"GET", "POST", "GET10"}}
                         \cap {r \in Requests : r.keep})
    <3>1. CASE Latest \in Found /\ Latest.keep
      <4>1. (orderly => conn = "CONNECTED")' = TRUE
        BY <1>1, <1>5, <2>1, <3>1, Zenon
      <4>2. (Latest \in {r \in Requests : r.start \in {"GET", "POST", "GET10"}}
                           \cap {r \in Requests : r.keep}) = TRUE
        BY <2>4, <3>1, Zenon DEF Found
      <4> QED BY <4>1, <4>2, Zenon
    <3>2. CASE ~(Latest \in Found /\ Latest.keep)
      <4>1. (orderly => conn = "CONNECTED")' = FALSE
        BY <1>1, <1>5, <2>1, <3>2, Zenon
      <4>2. ~(Latest \in {r \in Requests : r.start \in {"GET", "POST", "GET10"}}
                           \cap {r \in Requests : r.keep})
        BY <3>2 DEF Found
      <4>3. (Latest \in {r \in Requests : r.start \in {"GET", "POST", "GET10"}}
                           \cap {r \in Requests : r.keep}) = FALSE
        BY <4>2
      <4> QED BY <4>1, <4>3, Zenon
    <3> QED BY <3>1, <3>2
  <2>6. Exchange!Answer
    BY <1>1, <1>5, <2>1, <2>2, <2>3, <2>5 DEF Exchange!Answer, Found
  <2> QED BY <2>6 DEF Exchange!Next
<1>6. CASE orderly /\ ~Ask /\ ~OnRequest
  <2>1. UNCHANGED <<asked, handed, FinalCodes, conn>>
    <3>1. CASE Deliver \/ NoLine \/ ParseStartLine \/ ParseHeaderLine \/ ParseFormBody \/ UNCHANGED vars
      BY <3>1 DEF Deliver, NoLine, ParseStartLine, ParseHeaderLine, ParseFormBody, vars,
                  clientVars, serverVars, FinalCodes
    <3>2. CASE Continue
      BY <3>2, CodesKept DEF Continue, clientVars
    <3> QED BY <1>6, <3>1, <3>2, NoBadRequest DEF Next, OnMessage
  <2> QED BY <1>2, <2>1
<1> QED BY <1>3, <1>4, <1>5, <1>6

\* For an orderly client the server is an HttpExchange, for any number of requests and
\* bodies of any length: the handler gets what each request says, nothing of an earlier
\* one and nothing missing, and the answers come in the order of the requests, one for
\* each, until one of them ends the connection (httpServer.cpp:36-90,
\* httpContext.h:28-32, httpParser.cpp:131-160).
THEOREM ExchangeRefined == Spec => ExchangeSpec
<1>1. Init => Exchange!Init
  <2> SUFFICES ASSUME Init PROVE Exchange!Init
    OBVIOUS
  <2>1. FinalCodes = <<>> /\ asked = <<>> /\ handed = <<>> /\ conn = "CONNECTED"
    BY CodesOfNone DEF Init, FinalCodes
  <2>2. (orderly => conn = "CONNECTED") = TRUE
    BY <2>1, Zenon
  <2> QED BY <2>1, <2>2 DEF Exchange!Init
<1>2. Spec => [](Inv /\ Served)
  BY Inductive, OrderlyServed, PTL DEF Spec
<1>3. Inv /\ Served /\ [Next]_vars => [Exchange!Next]_(Exchange!exchangeVars)
  BY ExchangeStep
<1> QED BY <1>1, <1>2, <1>3, PTL DEF Spec, ExchangeSpec, Exchange!ExchangeSpec
===============================================================================
