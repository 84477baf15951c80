----------------------------- MODULE HttpServer -----------------------------
(***************************************************************************)
(* http/: one connection of the HTTP server, from the bytes its client     *)
(* sends to the answers handed to sendData.  onMessage parses what the     *)
(* segments have left in the input buffer, line by line, into the request  *)
(* of the connection's HttpContext, calls the handler and clears the       *)
(* request.  All of it runs on the connection's io loop.                   *)
(*                                                                         *)
(* A line is two units, its first half "-" and the rest, which ends in     *)
(* CRLF and is named for the line.  A body is units "b" without a CRLF.    *)
(* Of the headers the server reads Connection ("keep" for keep-alive,      *)
(* "close"), Content-Type ("form") and Content-Length ("length" for a      *)
(* number above 0, "number" for none at all); a "colon" is a header that   *)
(* ends at its colon.  A line that is put together from the wrong pieces   *)
(* is "garbled": no method begins it and it has no colon.                  *)
(*                                                                         *)
(* An orderly client sends what the server is made for, one request at a   *)
(* time; the network delivers head and body each in one piece; and the     *)
(* memory of the new context is zero.  Any other client sends anything, at *)
(* any time, cut anywhere, and the memory holds anything.                  *)
(***************************************************************************)
EXTENDS Naturals, Sequences

CONSTANTS BodyLen,      \* units of a body
          MaxRequests   \* bound: requests of the client

ASSUME HttpAssumption == BodyLen \in Nat \ {0} /\ MaxRequests \in Nat

VARIABLES orderly,    \* is the client orderly?  Never changes.
          asked,      \* requests the client has sent
          coming,     \* units on their way
          buffer,     \* m_inputBuffer
          conn,       \* m_state of the TcpConnection
          pc,         \* "wait" for a message, "parse" it, "answer" it
          isSuccess,  \* of HttpParser::parse
          state,      \* m_state of the HttpParser
          req,        \* m_request of the HttpContext
          finished,   \* m_parseFinished
          starts,     \* history: start lines parsed
          handed,     \* history: what the handlers were given
          answers,    \* answers sent, in order: their status codes, and whether they
                      \* say how long they are
          fault       \* did an exception end the program?

clientVars == <<orderly, asked, coming>>
serverVars == <<conn, pc, isSuccess, state, req, finished, starts, handed, answers>>
vars == <<clientVars, buffer, serverVars, fault>>

Running == ~fault

-----------------------------------------------------------------------------
(* Requests.  "GET" and "POST" are of HTTP/1.1, "GET10" a GET of HTTP/1.0, *)
(* "NOWHERE" a GET of a path without a handler, "OLD" a GET of yet another *)
(* version and "BAD" of no method at all.                                  *)

Refused == {"BAD", "OLD"}

\* What follows a start line that is refused is never looked at; and what a body or an
\* odd header does, it does on any other request as on those that have one here.
Requests ==
    {r \in [start : {"GET", "POST", "GET10", "NOWHERE"} \cup Refused, keep : BOOLEAN,
             body : {"none", "form", "other"}, odd : {"none", "colon", "number"}] :
        /\ r.start \in Refused => ~r.keep
        /\ r.odd # "none" => r.start = "GET" /\ r.body = "none" /\ ~r.keep
        /\ r.body # "none" => r.start \in {"GET", "POST"}}

Orderly(r) ==
    /\ r.start \notin Refused /\ r.odd = "none"
    /\ r.body = "none" \/ (r.body = "form" /\ r.start = "POST")

If(condition, line) == IF condition THEN <<line>> ELSE <<>>

Lines(r) ==
    <<r.start>> \o If(r.keep /\ r.start # "GET10", "keep")
                \o If(~r.keep /\ r.start = "GET10", "close")
                \o If(r.odd # "none", r.odd)
                \o If(r.body = "form", "form")
                \o If(r.body # "none", "length")
                \o <<"empty">>

Body(r) == IF r.body = "none" THEN <<>> ELSE [i \in 1..BodyLen |-> "b"]

UnitsOf(L) == [i \in 1..2 * Len(L) |-> IF i % 2 = 1 THEN "-" ELSE L[i \div 2]]
Units(r) == UnitsOf(Lines(r)) \o Body(r)

\* The histories tell apart only what an orderly client asks.
Recorded(r) == IF orderly THEN r ELSE "any"

Answer(code, length) == [code |-> code, length |-> length]

\* The status codes of the answers, but for those that ask the client to go on.
CodesOf(a) ==
    LET codes[n \in 0..Len(a)] ==
            IF n = 0 THEN <<>>
            ELSE IF a[n].code = 100 THEN codes[n - 1] ELSE Append(codes[n - 1], a[n].code)
    IN  codes[Len(a)]

FinalCodes == CodesOf(answers)

-----------------------------------------------------------------------------
(* The client and the network *)

Answered == Len(FinalCodes) = Len(asked) /\ conn = "CONNECTED" /\ coming = <<>>

Ask ==
    /\ Running
    /\ Len(asked) < MaxRequests
    /\ \E r \in Requests :
          /\ orderly => Answered /\ Orderly(r)
          /\ asked' = Append(asked, Recorded(r))
          /\ coming' = coming \o Units(r)
    /\ UNCHANGED <<orderly, buffer, serverVars, fault>>

\* A segment arrives; onMessage begins to parse.
Deliver ==
    /\ Running /\ pc = "wait"
    /\ coming # <<>>
    /\ \E n \in 1..Len(coming) :
          /\ buffer' = buffer \o SubSeq(coming, 1, n)
          /\ coming' = SubSeq(coming, n + 1, Len(coming))
          /\ orderly => coming' \in {<<>>, Body(asked[Len(asked)])}
    /\ pc' = "parse"
    /\ isSuccess' = FALSE
    /\ UNCHANGED <<orderly, asked, conn, state, req, finished, starts, handed, answers,
                   fault>>

-----------------------------------------------------------------------------
(* HttpParser *)

EndsLine(k) == buffer[k] \notin {"-", "b"}
HasLine == \E k \in 1..Len(buffer) : EndsLine(k)
LineLen == CHOOSE k \in 1..Len(buffer) : EndsLine(k) /\ \A j \in 1..k - 1 : ~EndsLine(j)
Line == IF LineLen = 2 /\ buffer[1] = "-" THEN buffer[2] ELSE "garbled"
RestOfBuffer == SubSeq(buffer, LineLen + 1, Len(buffer))

\* mutant: what is incomplete is no error
IncompleteIsFine == isSuccess' = TRUE

\* Without a whole line parse ends with the result of the line before.
Incomplete == UNCHANGED isSuccess

NoLine ==
    /\ Running /\ pc = "parse"
    /\ state \in {"EXPECTSTARTLINE", "EXPECTHEADERLINE"} /\ ~HasLine
    /\ Incomplete
    /\ pc' = "answer"
    /\ UNCHANGED <<clientVars, buffer, conn, state, req, finished, starts, handed, answers,
                   fault>>

MethodOf(line) == IF line \in {"OLD", "GET10"} THEN "GET" ELSE line

\* A start line of another version leaves its method and its path in the request.
ParseStartLine ==
    /\ Running /\ pc = "parse"
    /\ state = "EXPECTSTARTLINE" /\ HasLine
    /\ \/ /\ Line \in {"GET", "POST", "GET10", "NOWHERE"}
          /\ isSuccess' = TRUE
          /\ state' = "EXPECTHEADERLINE"
          /\ req' = [req EXCEPT !.method = MethodOf(Line), !.v11 = (Line # "GET10")]
          /\ starts' = starts + 1
          /\ buffer' = RestOfBuffer
          /\ UNCHANGED pc
       \/ /\ Line \notin {"GET", "POST", "GET10", "NOWHERE"}
          /\ isSuccess' = FALSE
          /\ pc' = "answer"
          /\ req' = IF Line = "OLD" THEN [req EXCEPT !.method = MethodOf(Line)] ELSE req
          /\ UNCHANGED <<buffer, state, starts>>
    /\ UNCHANGED <<clientVars, conn, finished, handed, answers, fault>>

\* m_headers: the later of two headers of one name stands.
SetHeader(r, line) ==
    CASE line \in {"keep", "close"}    -> [r EXCEPT !.connection = line]
      [] line = "form"                 -> [r EXCEPT !.form = TRUE]
      [] line \in {"length", "number"} -> [r EXCEPT !.length = line]

AfterHead(r) ==
    IF r.form /\ r.method = "POST" /\ r.hasBody THEN "EXPECTBODY" ELSE "EXPECTSTARTLINE"

Headers == {"keep", "close", "form", "length", "number"}

\* A header, or a line without a colon, which ends the head.  An exception in the
\* string past a colon, or in the number of Content-Length, ends the program.
ParseHeaderLine ==
    /\ Running /\ pc = "parse"
    /\ state = "EXPECTHEADERLINE" /\ HasLine
    /\ fault' = (Line = "colon" \/ (Line \notin Headers /\ req.length = "number"))
    /\ \/ /\ Line \in Headers
          /\ req' = SetHeader(req, Line)
          /\ UNCHANGED state
       \/ /\ Line \notin Headers /\ ~fault'
          /\ req' = [req EXCEPT !.hasBody = @ \/ req.length = "length"]
          /\ state' = AfterHead(req')
       \/ fault' /\ UNCHANGED <<req, state>>
    /\ isSuccess' = TRUE
    /\ buffer' = RestOfBuffer
    /\ UNCHANGED <<clientVars, conn, pc, finished, starts, handed, answers>>

\* mutant: the flag stays up
BodyReadKeeps(r, n) == [r EXCEPT !.posted = n]

BodyRead(r, n) == [r EXCEPT !.posted = n, !.hasBody = FALSE]

\* A malformed form is a success all the same.
AfterBody(n) == "EXPECTSTARTLINE"

\* All that is in the buffer is the form; with nothing there it is waited for.
ParseFormBody ==
    /\ Running /\ pc = "parse"
    /\ state = "EXPECTBODY"
    /\ IF buffer = <<>>
       THEN UNCHANGED <<state, req>>
       ELSE /\ state' = AfterBody(Len(buffer))
            /\ req' = BodyRead(req, Len(buffer))
    /\ isSuccess' = TRUE
    /\ buffer' = <<>>
    /\ pc' = "answer"
    /\ UNCHANGED <<clientVars, conn, finished, starts, handed, answers,
                   fault>>

-----------------------------------------------------------------------------
(* HttpContext and HttpServer *)

\* sendData, on a connection in state c that has sent a.
Sent(c, a, answer) == IF c = "CONNECTED" THEN Append(a, answer) ELSE a

Blank(method, hasBody) ==
    [method |-> method, v11 |-> FALSE, connection |-> "none", form |-> FALSE,
     length |-> "none", posted |-> 0, hasBody |-> hasBody]

\* mutants: the method stays; the headers stay
ClearNotMethod(r) == Blank(r.method, r.hasBody)
ClearNotHeaders(r) == [r EXCEPT !.method = "NONE", !.v11 = FALSE, !.posted = 0]

\* HttpRequest::clear leaves m_hasBody.
Clear(r) == Blank("NONE", r.hasBody)

Finishes == finished \/ ~req.hasBody

BadRequest ==
    /\ Running /\ pc = "answer" /\ ~isSuccess
    /\ answers' = Sent(conn, answers, Answer(400, FALSE))
    /\ conn' = "DISCONNECTING"
    /\ pc' = "wait"
    /\ UNCHANGED <<clientVars, buffer, isSuccess, state, req, finished, starts, handed, fault>>

Continue ==
    /\ Running /\ pc = "answer" /\ isSuccess /\ ~Finishes
    /\ answers' = Sent(conn, answers, Answer(100, FALSE))
    /\ pc' = "wait"
    /\ UNCHANGED <<clientVars, buffer, conn, isSuccess, state, req, finished, starts, handed,
                   fault>>

\* mutant: an unknown path does not end the connection
AfterNotFoundOpen == conn

AfterNotFound == "DISCONNECTING"

Known == req.method \in {"GET", "POST"}

\* A connection of HTTP/1.0, or of no version, is not closed unless the request says so.
Closes == req.connection = "close" \/ (req.v11 /\ req.connection # "keep")

\* What a handler may make of it: the one of an orderly client's request leaves it.
Decides == IF orderly THEN {Closes} ELSE BOOLEAN

\* mutant: the connection is left open
AfterAnswerOpen(close, c) == c

AfterAnswer(close, c) == IF close THEN "DISCONNECTING" ELSE c

\* fillBuffer leaves Content-Length out when the connection is to be closed.
Handle ==
    \E close \in Decides :
        /\ handed' = Append(handed, Recorded([method |-> req.method, posted |-> req.posted,
                                              connection |-> req.connection]))
        /\ answers' = Sent(conn, answers, Answer(200, ~close))
        /\ conn' = AfterAnswer(close, conn)

\* After the 404 the blank response is sent as well, if the connection lets it.
NotFound ==
    /\ answers' = Sent(AfterNotFound, Sent(conn, answers, Answer(404, FALSE)),
                       Answer(200, ~Closes))
    /\ conn' = AfterAnswer(Closes, AfterNotFound)
    /\ UNCHANGED handed

OnRequest ==
    /\ Running /\ pc = "answer" /\ isSuccess /\ Finishes
    /\ \/ Known /\ Handle
       \/ ~Known /\ NotFound
    /\ req' = Clear(req)
    /\ finished' = FALSE
    /\ pc' = "wait"
    /\ UNCHANGED <<clientVars, buffer, isSuccess, state, starts, fault>>

Init ==
    /\ orderly \in BOOLEAN
    /\ asked = <<>> /\ coming = <<>> /\ buffer = <<>>
    /\ conn = "CONNECTED" /\ pc = "wait" /\ isSuccess = FALSE
    /\ state = "EXPECTSTARTLINE"
    /\ \E h \in BOOLEAN :
          /\ orderly => ~h
          /\ req = Blank("unset", h)
    /\ finished \in BOOLEAN /\ (orderly => ~finished)
    /\ starts = 0 /\ handed = <<>> /\ answers = <<>>
    /\ fault = FALSE

OnMessage ==
    \/ NoLine \/ ParseStartLine \/ ParseHeaderLine \/ ParseFormBody
    \/ BadRequest \/ Continue \/ OnRequest

Next == Ask \/ Deliver \/ OnMessage

Spec == Init /\ [][Next]_vars

\* What was sent arrives, and onMessage runs to its end.
FairSpec == Spec /\ WF_vars(Deliver) /\ WF_vars(OnMessage)

-----------------------------------------------------------------------------
(* Properties *)

\* The state has its type, and the parser never gets into the state INVALID
\* (httpParser.cpp:237-245).
TypeOK ==
    /\ orderly \in BOOLEAN
    /\ asked \in Seq(IF orderly THEN Requests ELSE {"any"})
    /\ Len(asked) <= MaxRequests
    /\ conn \in {"CONNECTED", "DISCONNECTING"}
    /\ pc \in {"wait", "parse", "answer"}
    /\ isSuccess \in BOOLEAN /\ finished \in BOOLEAN
    /\ state \in {"EXPECTSTARTLINE", "EXPECTHEADERLINE", "EXPECTBODY"}
    /\ req \in [method : {"unset", "NONE", "GET", "POST", "NOWHERE"}, v11 : BOOLEAN,
                connection : {"none", "keep", "close"}, form : BOOLEAN,
                length : {"none", "length", "number"}, posted : Nat, hasBody : BOOLEAN]
    /\ state = "EXPECTBODY" => req.hasBody
    /\ answers \in Seq([code : {200, 404, 400, 100}, length : BOOLEAN])
    /\ fault \in BOOLEAN

\* However the bytes are cut, a handler runs at most once for each start line
\* (httpServer.cpp:47-52, httpRequest.cpp:7-16).
HandledOnce == Len(handed) <= starts

\* m_method, which no constructor sets, is read only after it was written
\* (httpRequest.h:103, httpServer.cpp:122-155).
MethodWritten == pc = "answer" /\ isSuccess => req.method # "unset"

\* One message gets at most one answer, although the path of the 404 falls through
\* to a second sendData (httpServer.cpp:73-84).
OneAnswer == [][Len(answers') <= Len(answers) + 1]_vars

\* A final answer that does not say how long it is is the last one, and the connection
\* is shut down behind it, whatever the handler decides (httpResponse.cpp:16-25,
\* httpServer.cpp:40-45, 73-89).
Framed ==
    \A k \in DOMAIN answers :
        answers[k].code # 100 /\ ~answers[k].length
            => k = Len(answers) /\ conn = "DISCONNECTING"

\* For an orderly client the server is an HttpExchange: the handler gets what the
\* request says, nothing of an earlier one and nothing missing, and the answers come
\* in the order of the requests, one for each (httpServer.cpp:36-90,
\* httpContext.h:28-32, httpParser.cpp:131-160).
Asked(r) ==
    [method |-> MethodOf(r.start), posted |-> Len(Body(r)),
     connection |-> IF r.start = "GET10" THEN IF r.keep THEN "none" ELSE "close"
                    ELSE IF r.keep THEN "keep" ELSE "none"]

Exchange == INSTANCE HttpExchange WITH
    Known   <- {r \in Requests : r.start \in {"GET", "POST", "GET10"}},
    Lasting <- {r \in Requests : r.keep},
    Wanted  <- Asked,
    asked   <- IF orderly THEN asked ELSE <<>>,
    given   <- IF orderly THEN handed ELSE <<>>,
    codes   <- IF orderly THEN FinalCodes ELSE <<>>,
    open    <- orderly => conn = "CONNECTED"

ExchangeSpec == Exchange!ExchangeSpec

\* Every request of an orderly client is answered in the end (httpServer.cpp:36-58).
AllAnswered ==
    \A n \in 1..MaxRequests : orderly /\ Len(asked) >= n ~> Len(FinalCodes) >= n

\* A header line in which some error occurs is refused, as the comment on
\* parseHeaderLine has it (httpParser.cpp:126-130): it does not end the program.
HeaderErrorReturned == ~fault
=============================================================================
