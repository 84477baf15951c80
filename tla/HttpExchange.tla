---------------------------- MODULE HttpExchange ----------------------------
(***************************************************************************)
(* What the HTTP server promises to a client that sends one request at a   *)
(* time: its handler, if it has one, gets the request as it was sent, and  *)
(* the client one answer, after which the connection goes on or ends.      *)
(***************************************************************************)
EXTENDS Naturals, Sequences

CONSTANTS Requests,     \* what a client may ask
          Known,        \* those there is a handler for
          Lasting,      \* those after whose answer the connection goes on
          Wanted(_)     \* what the handler of a request is given

VARIABLES asked,     \* the requests so far
          given,     \* what the handlers were given
          codes,     \* the status codes of the answers
          open       \* does the connection go on?

exchangeVars == <<asked, given, codes, open>>

Init == asked = <<>> /\ given = <<>> /\ codes = <<>> /\ open = TRUE

Ask ==
    /\ open /\ Len(codes) = Len(asked)
    /\ \E r \in Requests : asked' = Append(asked, r)
    /\ UNCHANGED <<given, codes, open>>

Answer ==
    /\ Len(codes) < Len(asked)
    /\ LET r == asked[Len(codes) + 1]
       IN  /\ codes' = Append(codes, IF r \in Known THEN 200 ELSE 404)
           /\ given' = IF r \in Known THEN Append(given, Wanted(r)) ELSE given
           /\ open' = (r \in Known \cap Lasting)
    /\ UNCHANGED asked

Next == Ask \/ Answer

ExchangeSpec == Init /\ [][Next]_exchangeVars
=============================================================================
