----------------------------- MODULE HttpRouting -----------------------------
(***************************************************************************)
(* http/httpServer.cpp: the maps of handlers, one for each method, which   *)
(* every io loop's thread reads when it has parsed a request.  A request   *)
(* is looked up with operator[], which inserts an empty function for a     *)
(* path that is not there; the maps have no lock.  A thread that is in a   *)
(* map while another one inserts into it is a data race: from then on the  *)
(* map may answer anything or end the program; a behaviour that stops      *)
(* there is one in which it has ended.                                     *)
(*                                                                         *)
(* Before that, each thread parses what its request sends along, a query   *)
(* or a form, one element at a time.                                       *)
(*                                                                         *)
(* Handlers may be registered, replaced and taken back at any time: the    *)
(* code does not keep that away from the look-ups.                         *)
(* All clients send one text along, as a query or as a form.               *)
(***************************************************************************)
EXTENDS HttpParameters, TLC

CONSTANTS Threads,      \* the io loops' threads
          Methods,      \* those of HttpMethod that have a map
          Paths,        \* what clients ask for
          Forms,        \* the methods whose text is a form and not a query
          Handlers      \* the functions that are registered, but for the empty one

ASSUME RoutingAssumption ==
    /\ Methods # {} /\ Paths # {} /\ Forms \subseteq Methods
    /\ {"absent", "empty"} \cap Handlers = {}

\* The values of a std::function, and what a map can hold under a key.
Functions == Handlers \cup {"empty"}
Entries == Functions \cup {"absent"}

VARIABLES text,        \* what every request sends along.  Never changes.
          map,         \* what the maps hold for each key, method and path
          registered,  \* history: the function last registered for each key
          serving,     \* has HttpServer::start been called?
          pc,          \* each thread: "idle", at "parse", about to "refuse" or "lookup",
                       \* "inMap", about to "answer"
          request,     \* each thread's request
          start,       \* where the parser's next element starts
          params,      \* the parameters it has found
          inserts,     \* each thread in a map: does it insert?
          found,       \* each thread: the function that it has read from the map
          corrupt,     \* the methods whose map a race has damaged
          stirred      \* history: the methods asked for with a path they do not have, or
                       \* registered for while the server runs

mapVars == <<map, registered, corrupt, stirred>>
parserVars == <<start, params>>
vars == <<text, mapVars, serving, pc, request, parserVars, inserts, found>>

Key(r) == <<r.method, r.path>>
Keys == Methods \X Paths

\* What the maps are asked with.
Requests == [method : Methods, path : Paths]

-----------------------------------------------------------------------------

InMap(m) == {t \in Threads : pc[t] = "inMap" /\ request[t].method = m}

\* mutant: a path keeps what it has, as with emplace
KeepsFirst(key, func) ==
    [map EXCEPT ![key] = IF @ = "absent" THEN func ELSE @]

\* An assignment through operator[] of a map.
Stored(key, func) == [map EXCEPT ![key] = func]

\* HttpServer::handleFunc.  A thread that is in the map races with it, unless the one
\* reads another function than the other replaces.  It is one step: a thread that enters
\* the map meanwhile is one that was there before.
HandleFunc ==
    /\ \E m \in Methods, p \in Paths, func \in Functions :
          /\ map' = Stored(<<m, p>>, func)
          /\ registered' = [registered EXCEPT ![<<m, p>>] = func]
          /\ corrupt' = IF \E u \in InMap(m) :
                               \/ map[<<m, p>>] = "absent"
                               \/ inserts[u] \/ Key(request[u]) = <<m, p>>
                        THEN corrupt \cup {m} ELSE corrupt
          /\ stirred' = IF serving THEN stirred \cup {m} ELSE stirred
    /\ UNCHANGED <<text, serving, pc, request, parserVars, inserts, found>>

\* HttpServer::start.  The caller starts it once.
Start ==
    /\ ~serving
    /\ serving' = TRUE
    /\ UNCHANGED <<text, mapVars, pc, request, parserVars, inserts, found>>

\* What a thread has between two requests.
NoRequest == [method |-> "none", path |-> "none"]

\* A request whose query or form has arrived.  An empty form is waited for.
Receive(t) ==
    /\ serving /\ pc[t] = "idle"
    /\ \E r \in Requests :
          /\ r.method \in Forms => text # <<>>
          /\ request' = [request EXCEPT ![t] = r]
    /\ pc' = [pc EXCEPT ![t] = "parse"]
    /\ UNCHANGED <<text, mapVars, serving, parserVars, inserts, found>>

\* A turn of the loop in parseQueryParam, parseFormBody.
ParseElement(t) ==
    /\ pc[t] = "parse" /\ TurnsOn(text, start[t])
    /\ LET s == start[t]
       IN  /\ params' = [params EXCEPT
                           ![t] = Put(@, text, s, NextEqual(text, s), NextAnd(text, s))]
           /\ start' = [start EXCEPT ![t] = NextAnd(text, s) + 1]
    /\ UNCHANGED <<text, mapVars, serving, pc, request, inserts, found>>

\* What follows the loop.
ParseLast(t) ==
    /\ pc[t] = "parse" /\ ~TurnsOn(text, start[t])
    /\ params' = [params EXCEPT ![t] = PutLast(@, text, start[t])]
    /\ start' = [start EXCEPT ![t] = 1]
    /\ pc' = [pc EXCEPT ![t] =
                  IF request[t].method \in Forms \/ QueryAccepted(text, start[t])
                  THEN "lookup" ELSE "refuse"]
    /\ UNCHANGED <<text, mapVars, serving, request, inserts, found>>

\* mutant: each lookup puts an empty function there
InsertsAlways(r) == TRUE

\* operator[] of a path that is not in the map.
Inserts(r) == map[Key(r)] = "absent"

EnterMap(t) ==
    /\ pc[t] = "lookup"
    /\ LET r == request[t]
           writes == Inserts(r)
       IN  /\ inserts' = [inserts EXCEPT ![t] = writes]
           /\ corrupt' = IF \E u \in InMap(r.method) : writes \/ inserts[u]
                         THEN corrupt \cup {r.method} ELSE corrupt
           /\ stirred' = IF registered[Key(r)] = "empty" THEN stirred \cup {r.method}
                                                        ELSE stirred
    /\ pc' = [pc EXCEPT ![t] = "inMap"]
    /\ UNCHANGED <<text, map, registered, serving, request, parserVars, found>>

\* What operator[] refers to when it returns.
Gives(t) == IF inserts[t] THEN "empty" ELSE map[Key(request[t])]

\* The function is inserted and copied.  What a damaged map holds is not looked at.
LeaveMap(t) ==
    /\ pc[t] = "inMap"
    /\ \/ /\ request[t].method \notin corrupt
          /\ map' = Stored(Key(request[t]), Gives(t))
          /\ found' = [found EXCEPT ![t] = Gives(t)]
       \/ /\ request[t].method \in corrupt
          /\ \E any \in Functions : found' = [found EXCEPT ![t] = any]
          /\ UNCHANGED map
    /\ inserts' = [inserts EXCEPT ![t] = FALSE]
    /\ pc' = [pc EXCEPT ![t] = "answer"]
    /\ UNCHANGED <<text, registered, corrupt, stirred, serving, request, parserVars>>

\* The handler runs, or a 404 or a 400 is sent.
Respond(t) ==
    /\ pc[t] \in {"answer", "refuse"}
    /\ pc' = [pc EXCEPT ![t] = "idle"]
    /\ request' = [request EXCEPT ![t] = NoRequest]
    /\ params' = [params EXCEPT ![t] = <<>>]
    /\ found' = [found EXCEPT ![t] = "empty"]
    /\ UNCHANGED <<text, mapVars, serving, start, inserts>>

Init ==
    /\ text \in Texts
    /\ map = [key \in Keys |-> "absent"] /\ registered = [key \in Keys |-> "empty"]
    /\ corrupt = {} /\ stirred = {}
    /\ serving = FALSE
    /\ pc = [t \in Threads |-> "idle"]
    /\ request = [t \in Threads |-> NoRequest]
    /\ start = [t \in Threads |-> 1]
    /\ params = [t \in Threads |-> <<>>]
    /\ inserts = [t \in Threads |-> FALSE]
    /\ found = [t \in Threads |-> "empty"]

Next ==
    \/ HandleFunc \/ Start
    \/ \E t \in Threads :
          \/ Receive(t) \/ ParseElement(t) \/ ParseLast(t)
          \/ EnterMap(t) \/ LeaveMap(t) \/ Respond(t)

Spec == Init /\ [][Next]_vars

\* Nothing tells the threads apart, nor the paths.
RoutingSymmetry == Permutations(Threads) \cup Permutations(Paths)

-----------------------------------------------------------------------------
(* Properties *)

\* The state has its type.
TypeOK ==
    /\ text \in Texts
    /\ map \in [Keys -> Entries] /\ registered \in [Keys -> Functions]
    /\ corrupt \subseteq Methods /\ stirred \subseteq Methods
    /\ serving \in BOOLEAN
    /\ pc \in [Threads -> {"idle", "parse", "refuse", "lookup", "inMap", "answer"}]
    /\ request \in [Threads -> Requests \cup {NoRequest}]
    /\ start \in [Threads -> 1..End(text)] /\ DOMAIN params = Threads
    /\ inserts \in [Threads -> BOOLEAN] /\ found \in [Threads -> Functions]

\* A query is refused when one of its elements has no "="; otherwise its handler gets
\* the parameters that it has.  Of a form, which is never refused, it gets those and,
\* if there is a bad element, what comes before (httpParser.cpp:162-193, 208-234).
ParamsAsWritten ==
    \A t \in Threads :
        /\ pc[t] = "refuse" => ~WellFormed(text)
        /\ pc[t] \in {"lookup", "inMap", "answer"} =>
              /\ WellFormed(text) \/ request[t].method \in Forms
              /\ WellFormed(text) => AsWritten(text, params[t])
              /\ KeepsGoodOnes(text, params[t])

\* A request gets the function that was last registered for its method and path, and
\* none if there was none, although look-ups write to the maps too: whether the path was
\* asked for before, by whom, and whether it had its handler then, makes no difference;
\* unless a race has damaged the map (httpServer.cpp:98-155).
RoutedAsRegistered ==
    [][\A t \in Threads :
          /\ pc[t] = "inMap" /\ pc'[t] = "answer"
          /\ request[t].method \notin corrupt
          => found'[t] = registered[Key(request[t])]]_vars

\* The threads race in a map only if some client has asked for a path that it does not
\* have, or a handler was registered while the server runs: handlers that are there
\* are only read (httpServer.cpp:128-146).
RaceNeedsStranger == corrupt \subseteq stirred
=============================================================================
