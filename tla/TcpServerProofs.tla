--------------------------- MODULE TcpServerProofs ---------------------------
(***************************************************************************)
(* The pool of io loops as TcpServer uses it, and the connections on it,   *)
(* for any number of loops, connections and descriptors.                   *)
(***************************************************************************)
EXTENDS TcpServer, SequenceTheorems, TLAPS

\* A thread publishes its own loop, and a wait that has returned has seen it,
\* unless nobody had notified it.
Published ==
    /\ \A j \in Loops :
          eventLoop[j] = (IF thread[j] \in {"none", "spawned"} THEN Null ELSE j)
    /\ pc \in {"lock", "waiting", "woken"} => i < N
    /\ pc = "serve" => i = N
    /\ pc = "woken" => i \in unasked \/ eventLoop[i] = i

\* The place in the pool that is d places before another one, going round.
Place(place, d) == IF place >= d THEN place - d ELSE (place - d) + N

\* The last N connections were dealt to the N places before m_next.
Dealt ==
    /\ dealt # <<>> => started
    /\ \A k \in DOMAIN dealt :
          LET d == Len(dealt) + 1 - k
          IN  d <= N => dealt[k] \in {Place(next, d), Null}

PoolInv == PoolTypeOK /\ LoopsReal /\ Published /\ Dealt /\ RoundRobin

-----------------------------------------------------------------------------
(* The pool by itself *)

\* The pool has no loops before it starts.
LEMMA PoolInitInv == PoolInit => PoolInv
<1> SUFFICES ASSUME PoolInit PROVE PoolInv
  OBVIOUS
<1> USE PoolAssumption, ServerAssumption
<1>1. PoolTypeOK
  BY DEF PoolInit, PoolTypeOK, Loops, Null
<1>2. LoopsReal /\ Published
  BY DEF PoolInit, LoopsReal, Published, Loops, Null
<1>3. Dealt /\ RoundRobin
  BY DEF PoolInit, Dealt, RoundRobin
<1> QED BY <1>1, <1>2, <1>3 DEF PoolInv

\* What start and the threads do keeps the pool's state typed and its loops real.
LEMMA StartKeepsLoops ==
    ASSUME PoolInv, PoolStarts
    PROVE  PoolTypeOK' /\ LoopsReal' /\ Published'
<1> USE PoolAssumption, ServerAssumption DEF PoolInv, PoolTypeOK, LoopsReal, Published, Loops, Null
<1>1. CASE CreateThread
  BY <1>1 DEF CreateThread
<1>2. CASE Wait
  BY <1>2 DEF Wait
<1>3. CASE SpuriousWakeup
  BY <1>3 DEF SpuriousWakeup
<1>4. CASE Return
  <2>1. i \in Loops /\ i + 1 \in 0..N
    BY <1>4 DEF Return
  <2>2. loops' = [loops EXCEPT ![i] = eventLoop[i]] /\ i' = i + 1
    BY <1>4 DEF Return
  <2>3. eventLoop[i] = i \/ (i \in unasked /\ eventLoop[i] = Null)
    BY <1>4, <2>1 DEF Return
  <2>4. LoopsReal'
    BY <1>4, <2>1, <2>2, <2>3 DEF Return
  <2>5. PoolTypeOK' /\ Published'
    BY <1>4, <2>1, <2>2 DEF Return
  <2> QED BY <2>4, <2>5
<1>5. CASE PoolStarted
  <2>1. /\ pc = "create" /\ i = N /\ pc' = "serve" /\ started' = TRUE
        /\ UNCHANGED <<i, thread, mutex, eventLoop, loops, next, dealt, unasked>>
    BY <1>5 DEF PoolStarted
  <2>2. started' = (pc' = "serve")
    BY <2>1
  <2>3. \A j \in Loops : thread'[j] # "none" <=> j < i' \/ (j = i' /\ pc' # "create")
    BY <2>1
  <2>4. PoolTypeOK'
    BY <2>1, <2>2, <2>3
  <2>5. LoopsReal' /\ Published'
    BY <2>1
  <2> QED BY <2>4, <2>5
<1>6. ASSUME NEW j \in Loops, LockAndPublish(j)
      PROVE  PoolTypeOK' /\ LoopsReal' /\ Published'
  BY <1>6 DEF LockAndPublish, Publish
<1>7. ASSUME NEW j \in Loops, Notify(j)
      PROVE  PoolTypeOK' /\ LoopsReal' /\ Published'
  BY <1>7 DEF Notify, WakeStarter
<1>8. ASSUME NEW j \in Loops, Unlock(j)
      PROVE  PoolTypeOK' /\ LoopsReal' /\ Published'
  BY <1>8 DEF Unlock
<1> QED
  BY <1>1, <1>2, <1>3, <1>4, <1>5, <1>6, <1>7, <1>8 DEF PoolStarts, Starter, Thread

\* Before the pool has started no connection is dealt out.
LEMMA StartDealsNothing ==
    ASSUME PoolInv, PoolStarts
    PROVE  Dealt' /\ RoundRobin'
<1>1. UNCHANGED <<dealt, next>> /\ (started => started')
  BY DEF PoolInv, PoolTypeOK, PoolStarts, Starter, CreateThread, Wait, SpuriousWakeup,
         Return, PoolStarted, Thread, LockAndPublish, Notify, WakeStarter, Unlock
<1> QED BY <1>1 DEF PoolInv, Dealt, RoundRobin, Place

\* The loop that is given out has the place m_next, to which none of the N - 1
\* connections before this one was dealt.
LEMMA NextDealt ==
    ASSUME PoolInv, GetNextLoop
    PROVE  PoolInv'
<1> USE PoolAssumption, ServerAssumption DEF Loops, Null
<1>1. /\ N \in Nat /\ N > 0 /\ next \in 0..N - 1
      /\ dealt \in Seq(Loops \cup {Null}) /\ Len(dealt) \in Nat
      /\ pc = "serve" /\ i = N /\ started
  BY DEF PoolInv, PoolTypeOK, Published, GetNextLoop
<1>2. /\ dealt' = Append(dealt, loops[next])
      /\ next' = IF next + 1 >= N THEN 0 ELSE next + 1
      /\ UNCHANGED <<pc, i, thread, mutex, eventLoop, loops, started, unasked>>
  BY <1>1 DEF GetNextLoop, AfterNext
<1>3. loops[next] \in {next, Null}
  BY <1>1 DEF PoolInv, LoopsReal
<1>4. /\ dealt' \in Seq(Loops \cup {Null}) /\ Len(dealt') = Len(dealt) + 1
      /\ DOMAIN dealt = 1..Len(dealt) /\ DOMAIN dealt' = 1..Len(dealt) + 1
      /\ dealt'[Len(dealt) + 1] = loops[next]
      /\ \A k \in 1..Len(dealt) : dealt'[k] = dealt[k]
  BY <1>1, <1>2, <1>3
<1>5. PoolTypeOK' /\ LoopsReal' /\ Published'
  <2>1. next' \in 0..N - 1
    BY <1>1, <1>2
  <2>2. PoolTypeOK'
    <3>1. started' = (pc' = "serve")
      BY <1>2, Zenon DEF PoolInv, PoolTypeOK
    <3>2. next' \in 0..N /\ (N > 0 => next' < N)
      BY <1>1, <2>1
    <3>3. /\ pc' = pc /\ i' = i /\ thread' = thread /\ mutex' = mutex
          /\ eventLoop' = eventLoop /\ loops' = loops /\ unasked' = unasked
      BY <1>2
    <3>4. PoolTypeOK
      BY DEF PoolInv
    <3> QED BY <1>4, <3>1, <3>2, <3>3, <3>4 DEF PoolTypeOK
  <2>3. LoopsReal' /\ Published'
    BY <1>2 DEF PoolInv, LoopsReal, Published
  <2> QED BY <2>2, <2>3
<1>6. Dealt'
  <2> SUFFICES ASSUME NEW k \in DOMAIN dealt', Len(dealt') + 1 - k <= N
               PROVE  dealt'[k] \in {Place(next', Len(dealt') + 1 - k), Null}
    BY <1>1, <1>2 DEF Dealt
  <2>1. CASE k = Len(dealt) + 1
    <3>1. Len(dealt') + 1 - k = 1 /\ dealt'[k] = loops[next]
      BY <1>1, <1>4, <2>1
    <3>2. Place(next', 1) = next
      BY <1>1, <1>2 DEF Place
    <3> QED BY <1>3, <3>1, <3>2
  <2>2. CASE k \in DOMAIN dealt
    <3>1. dealt[k] \in {Place(next, Len(dealt) + 1 - k), Null}
      BY <1>1, <1>4, <2>2 DEF PoolInv, Dealt
    <3> QED BY <1>1, <1>2, <1>4, <2>2, <3>1 DEF Place
  <2> QED BY <1>1, <1>4, <2>1, <2>2
<1>7. RoundRobin'
  <2> SUFFICES ASSUME NEW a \in DOMAIN dealt', NEW b \in DOMAIN dealt', a < b, b < a + N
               PROVE  dealt'[a] # dealt'[b] \/ dealt'[a] = Null
    BY DEF RoundRobin
  <2>1. CASE b \in DOMAIN dealt
    BY <1>1, <1>4, <2>1 DEF PoolInv, RoundRobin
  <2>2. CASE b = Len(dealt) + 1
    <3>1. a \in DOMAIN dealt /\ Len(dealt) + 1 - a \in 1..N - 1
      BY <1>1, <1>4, <2>2
    <3>2. dealt[a] \in {Place(next, Len(dealt) + 1 - a), Null}
      BY <1>1, <1>4, <3>1 DEF PoolInv, Dealt
    <3>3. Place(next, Len(dealt) + 1 - a) # next
      BY <1>1, <3>1 DEF Place
    <3> QED BY <1>1, <1>3, <1>4, <2>2, <3>1, <3>2, <3>3
  <2> QED BY <1>1, <1>4, <2>1, <2>2
<1> QED BY <1>5, <1>6, <1>7 DEF PoolInv

\* The invariant of the pool.
LEMMA PoolInductive == PoolInv /\ [PoolNext]_poolVars => PoolInv'
<1>1. ASSUME PoolInv, PoolStarts PROVE PoolInv'
  BY <1>1, StartKeepsLoops, StartDealsNothing DEF PoolInv
<1>2. ASSUME PoolInv, GetNextLoop PROVE PoolInv'
  BY <1>2, NextDealt
<1>3. ASSUME PoolInv, UNCHANGED poolVars PROVE PoolInv'
  BY <1>3 DEF poolVars, PoolInv, PoolTypeOK, LoopsReal, Published, Dealt, Place, RoundRobin
<1> QED BY <1>1, <1>2, <1>3 DEF PoolNext

-----------------------------------------------------------------------------
(* The pool within the server *)

\* What the server does to the pool are steps of the pool: start starts it and
\* newConnection asks it for a loop (tcpserver.cpp:33, 45).
THEOREM PoolRefined == Spec => PoolSpec
<1>1. Init => PoolInit
  BY DEF Init
<1>2. ASSUME [Next]_vars PROVE [PoolNext]_poolVars
  <2>1. CASE UNCHANGED vars
    BY <2>1 DEF vars
  <2>2. CASE ServerLoop
    BY <2>2 DEF ServerLoop, StartPool, Start, NewConnection, AcceptFails,
                RemoveConnectionInLoop, Fail, PoolNext, poolVars
  <2>3. ASSUME NEW l \in Loops, IoTask(l) PROVE UNCHANGED poolVars
    BY <2>3 DEF IoTask, ConnectEstablished, ConnectDestroyed, CloseSocket, Fail, poolVars
  <2>4. ASSUME NEW l \in Loops, IoEvent(l) PROVE UNCHANGED poolVars
    BY <2>4 DEF IoEvent, Select, HandleEvents, poolVars
  <2>5. CASE Connect
    BY <2>5 DEF Connect, poolVars
  <2>6. ASSUME NEW c \in Conns, PeerCloses(c) PROVE UNCHANGED poolVars
    BY <2>6 DEF PeerCloses, poolVars
  <2> QED BY <1>2, <2>1, <2>2, <2>3, <2>4, <2>5, <2>6 DEF Next
<1> QED BY <1>1, <1>2, PTL DEF Spec, PoolSpec

\* A place of the pool that start is done with holds its own thread's loop, unless its
\* wait returned unnotified (eventLoopThread.cpp:21-26, 33-37).
THEOREM LoopsPublished == Spec => []LoopsReal
<1>1. PoolInv => LoopsReal
  BY DEF PoolInv
<1> QED BY <1>1, PoolInitInv, PoolInductive, PoolRefined, PTL DEF PoolSpec

\* Any N connections in a row go to N different loops, however many loops there are
\* (eventLoopThreadPool.cpp:31-47).
THEOREM DealtInTurn == Spec => []RoundRobin
<1>1. PoolInv => RoundRobin
  BY DEF PoolInv
<1> QED BY <1>1, PoolInitInv, PoolInductive, PoolRefined, PTL DEF PoolSpec

-----------------------------------------------------------------------------
(* The queues between the loops *)

Distinct(q) == \A j, k \in DOMAIN q : q[j] = q[k] => j = k

\* A task at the end of a queue that does not have it.
LEMMA TaskAppended ==
    ASSUME NEW S, NEW q \in Seq(S), NEW e \in S, Distinct(q), e \notin Elements(q)
    PROVE  /\ Append(q, e) \in Seq(S)
           /\ Elements(Append(q, e)) = Elements(q) \cup {e}
           /\ Distinct(Append(q, e))
<1>1. /\ DOMAIN q = 1..Len(q) /\ Len(q) \in Nat
      /\ Append(q, e) \in Seq(S)
      /\ DOMAIN Append(q, e) = (1..Len(q)) \cup {Len(q) + 1}
      /\ \A k \in 1..Len(q) : Append(q, e)[k] = q[k]
      /\ Append(q, e)[Len(q) + 1] = e
  BY AppendProperties, LenProperties
<1>2. Elements(Append(q, e)) = Elements(q) \cup {e}
  BY <1>1, Zenon DEF Elements
<1>3. \A k \in 1..Len(q) : q[k] # e
  BY <1>1 DEF Elements
<1>4. Distinct(Append(q, e))
  BY <1>1, <1>3 DEF Distinct
<1> QED BY <1>1, <1>2, <1>4

\* The task at the head of a queue is taken.
LEMMA TaskTaken ==
    ASSUME NEW S, NEW q \in Seq(S), q # <<>>, Distinct(q)
    PROVE  /\ Head(q) \in S /\ Head(q) \in Elements(q)
           /\ Tail(q) \in Seq(S)
           /\ Elements(Tail(q)) = Elements(q) \ {Head(q)}
           /\ Distinct(Tail(q))
<1>1. /\ Len(q) \in Nat \ {0} /\ DOMAIN q = 1..Len(q) /\ Head(q) = q[1]
      /\ Head(q) \in S /\ Tail(q) \in Seq(S)
      /\ DOMAIN Tail(q) = 1..Len(q) - 1
      /\ \A k \in 1..Len(q) - 1 : Tail(q)[k] = q[k + 1]
  BY EmptySeq, LenProperties, HeadTailProperties
<1>2. Elements(q) = {Head(q)} \cup Elements(Tail(q))
  <2>1. \A m \in 1..Len(q) : q[m] = Head(q) \/ \E j \in 1..Len(q) - 1 : q[m] = Tail(q)[j]
    <3>1. ASSUME NEW m \in 1..Len(q), m # 1
          PROVE  m - 1 \in 1..Len(q) - 1 /\ q[m] = Tail(q)[m - 1]
      BY <1>1, <3>1
    <3> QED BY <1>1, <3>1
  <2>2. \A j \in 1..Len(q) - 1 : j + 1 \in 1..Len(q) /\ Tail(q)[j] = q[j + 1]
    BY <1>1
  <2>3. 1 \in 1..Len(q)
    BY <1>1
  <2>4. {q[m] : m \in 1..Len(q)} = {Head(q)} \cup {Tail(q)[j] : j \in 1..Len(q) - 1}
    <3>1. {q[m] : m \in 1..Len(q)} \subseteq {Head(q)} \cup {Tail(q)[j] : j \in 1..Len(q) - 1}
      BY <2>1
    <3>2. {Tail(q)[j] : j \in 1..Len(q) - 1} \subseteq {q[m] : m \in 1..Len(q)}
      BY <2>2
    <3>3. Head(q) \in {q[m] : m \in 1..Len(q)}
      BY <1>1, <2>3
    <3> QED BY <3>1, <3>2, <3>3
  <2> QED BY <1>1, <2>4 DEF Elements
<1>3. \A k \in DOMAIN Tail(q) : k + 1 \in DOMAIN q /\ k + 1 # 1
  BY <1>1
<1>4. 1 \in DOMAIN q
  BY <1>1
<1>5. Head(q) \notin Elements(Tail(q))
  BY <1>1, <1>3, <1>4 DEF Elements, Distinct
<1>6. Distinct(Tail(q))
  <2> SUFFICES ASSUME NEW j \in DOMAIN Tail(q), NEW k \in DOMAIN Tail(q), Tail(q)[j] = Tail(q)[k]
               PROVE  j = k
    BY DEF Distinct
  <2>1. j + 1 = k + 1
    BY <1>1, <1>3 DEF Distinct
  <2> QED BY <1>1, <2>1
<1> QED BY <1>1, <1>2, <1>5, <1>6

\* What is typed by a smaller set is typed by a larger one.
LEMMA SeqOfMore ==
    ASSUME NEW S, NEW T, S \subseteq T, NEW q \in Seq(S)
    PROVE  q \in Seq(T)
<1>1. Len(q) \in Nat /\ q \in [1..Len(q) -> S]
  BY LenProperties
<1>2. q \in [1..Len(q) -> T]
  BY <1>1
<1> QED BY <1>1, <1>2, SeqDef

-----------------------------------------------------------------------------
(* The life of a connection: what each step relies on that the steps before *)
(* it, on other loops, have left behind                                     *)

IoTasks == [op : {"establish", "destroy"}, conn : 1..accepted]

\* No task is queued twice, and an io loop has the tasks of its own connections only.
Queues ==
    /\ Distinct(serverQ)
    /\ \A l \in Loops : Distinct(ioQ[l])
    /\ \A l \in Loops : \A task \in Elements(ioQ[l]) : LoopOf(task.conn) = l

\* A task finds its connection in the state its assert asks for.
Stages ==
    /\ \A c \in Conns : c > accepted => state[c] = "NONE"
    /\ \A l \in Loops : \A task \in Elements(ioQ[l]) :
          IF task.op = "establish" THEN state[task.conn] = "NONE"
          ELSE state[task.conn] = "closing" /\ task.conn \notin connMap
    /\ \A c \in Elements(serverQ) : state[c] = "closing" /\ c \in connMap
    /\ \A l \in Loops :
          halfway[l] # None =>
             /\ halfway[l] <= accepted /\ LoopOf(halfway[l]) = l
             /\ state[halfway[l]] = "DISCONNECT"

\* Until connectDestroyed the map holds the connection, and then the task itself.
Kept ==
    \A c \in 1..accepted :
        /\ state[c] \in {"NONE", "CONNECTED"} => c \in connMap
        /\ state[c] = "closing" =>
              c \in connMap \/ Task("destroy", c) \in Elements(ioQ[LoopOf(c)])

Open(c) == state[c] \in {"CONNECTED", "closing"}

\* The channels of a Selector are those of the open connections of its loop.
Selected ==
    /\ \A l \in Loops : \A fd \in Fds :
          chan[l][fd] # None =>
             /\ chan[l][fd] <= accepted /\ Open(chan[l][fd])
             /\ LoopOf(chan[l][fd]) = l /\ fdOf[chan[l][fd]] = fd
    /\ \A c \in 1..accepted : Open(c) => LoopOf(c) \in Loops /\ chan[LoopOf(c)][fdOf[c]] = c
    /\ \A l \in Loops : active[l] \subseteq Channels(l)

\* A connection has its descriptor until CloseSocket.
Holding(c) == state[c] # "DISCONNECT" \/ \E l \in Loops : halfway[l] = c

Owned == \A c \in 1..accepted : Holding(c) => fdOf[c] \in Fds /\ owner[fdOf[c]] = c

Life == Queues /\ Stages /\ Kept /\ Selected /\ Owned /\ AssertsHold

ServerInv == PoolInv /\ TypeOK /\ Life

\* What the leaves below need of the types.
LEMMA Ranges ==
    ASSUME TypeOK
    PROVE  /\ accepted \in Nat /\ MaxConns \in Nat /\ accepted <= MaxConns
           /\ Conns = 1..MaxConns /\ 1..accepted \subseteq Conns /\ None \notin Conns
           /\ Null \notin Loops /\ None \notin Fds
           /\ \A c \in 1..accepted : LoopOf(c) \in Loops \cup {Null}
<1> USE PoolAssumption, ServerAssumption DEF TypeOK, Conns, None, Null, Loops
<1>1. accepted \in Nat /\ MaxConns \in Nat /\ accepted <= MaxConns
  OBVIOUS
<1>2. DOMAIN dealt = 1..accepted /\ \A c \in 1..accepted : dealt[c] \in Loops \cup {Null}
  BY DEF PoolTypeOK
<1> QED BY <1>1, <1>2 DEF LoopOf

\* There are no connections at first.
LEMMA ServerInitInv == Init => ServerInv
<1> SUFFICES ASSUME Init PROVE ServerInv
  OBVIOUS
<1> USE PoolAssumption, ServerAssumption DEF Init
<1>1. PoolInv
  BY PoolInitInv
<1>2. PoolTypeOK /\ Len(dealt) = accepted
  BY <1>1 DEF PoolInv, PoolInit
<1>3. TypeOK
  <2>1. accepted \in 0..MaxConns /\ backlog \in 0..MaxConns - accepted
    BY DEF PoolAssumption
  <2>2. serverQ \in Seq(1..accepted) /\ ioQ \in [Loops -> Seq(IoTasks)]
    BY DEF IoTasks
  <2>3. /\ connMap \subseteq 1..accepted /\ peerOpen \subseteq Conns
        /\ fdOf \in [Conns -> Fds \cup {None}]
        /\ state \in [Conns -> {"NONE", "CONNECTED", "closing", "DISCONNECT"}]
        /\ owner \in [Fds -> Conns \cup {None}]
        /\ chan \in [Loops -> [Fds -> Conns \cup {None}]]
        /\ active \in [Loops -> SUBSET Conns] /\ halfway \in [Loops -> Conns \cup {None}]
        /\ \A l \in Loops : active[l] = {}
    OBVIOUS
  <2> QED BY <1>2, <2>1, <2>2, <2>3 DEF TypeOK, IoTasks
<1>4. \A q : q = <<>> => Elements(q) = {} /\ Distinct(q)
  BY DEF Elements, Distinct
<1>5. Queues /\ Stages
  <2>1. Elements(serverQ) = {} /\ \A l \in Loops : Elements(ioQ[l]) = {} /\ Distinct(ioQ[l])
    BY <1>4
  <2> QED BY <1>4, <2>1 DEF Queues, Stages, None
<1>6. Kept /\ Owned /\ AssertsHold
  BY DEF Kept, Owned, AssertsHold
<1>7. Selected
  BY DEF Selected, None, Channels
<1> QED BY <1>1, <1>3, <1>5, <1>6, <1>7 DEF ServerInv, Life

\* Steps that leave every connection and its place alone.
LEMMA QuietSteps ==
    ASSUME ServerInv, PoolInv',
           \/ StartPool \/ Start \/ AcceptFails \/ Connect \/ UNCHANGED vars
           \/ \E l \in Loops : Select(l)
           \/ \E c \in Conns : PeerCloses(c)
    PROVE  ServerInv'
<1> USE PoolAssumption, ServerAssumption
<1>1. /\ UNCHANGED <<accepted, connMap, serverQ, ioQ, fdOf, state, owner, chan, halfway>>
      /\ dealt' = dealt /\ (started => started') /\ (unasked # {} => unasked' # {})
  <2>1. CASE StartPool
    <3>1. PoolStarts /\ UNCHANGED tcpVars
      BY <2>1 DEF StartPool
    <3>2. dealt' = dealt /\ (started => started') /\ unasked \subseteq unasked'
      BY <3>1 DEF ServerInv, PoolInv, PoolTypeOK, PoolStarts, Starter, CreateThread, Wait,
         SpuriousWakeup, Return, PoolStarted, Thread, LockAndPublish, Notify, WakeStarter, Unlock
    <3> QED BY <3>1, <3>2 DEF tcpVars
  <2>2. CASE Start \/ AcceptFails \/ Connect \/ UNCHANGED vars
    BY <2>2 DEF Start, AcceptFails, Fail, Connect, vars, poolVars, tcpVars, serverVars, kernelVars
  <2>3. ASSUME NEW l \in Loops, Select(l) PROVE <1>1
    BY <2>3 DEF Select, poolVars, serverVars, kernelVars
  <2>4. ASSUME NEW c \in Conns, PeerCloses(c) PROVE <1>1
    BY <2>4 DEF PeerCloses, poolVars, serverVars
  <2> QED BY <2>1, <2>2, <2>3, <2>4
<1>2. \/ UNCHANGED <<listening, backlog, peerOpen, active, fault>>
      \/ started /\ listening' = TRUE /\ UNCHANGED <<backlog, peerOpen, active, fault>>
      \/ fault' = "accept" /\ UNCHANGED <<listening, backlog, peerOpen, active>>
      \/ /\ accepted + backlog < MaxConns /\ backlog' = backlog + 1
         /\ UNCHANGED <<listening, peerOpen, active, fault>>
      \/ \E c \in Conns : peerOpen' = peerOpen \ {c} /\ UNCHANGED <<listening, backlog, active, fault>>
      \/ \E l \in Loops :
            /\ halfway[l] = None /\ active' = [active EXCEPT ![l] = Channels(l) \ peerOpen]
            /\ UNCHANGED <<listening, backlog, peerOpen, fault>>
  BY DEF StartPool, tcpVars, Start, AcceptFails, Fail, Connect, vars, Select, PeerCloses,
         poolVars, serverVars, kernelVars
<1>3. TypeOK /\ Life /\ PoolTypeOK'
  BY DEF ServerInv, PoolInv
<1>4. \A l \in Loops : Channels(l) \subseteq Conns
  BY <1>3 DEF TypeOK, Channels
<1>5. TypeOK'
  <2>1. /\ Len(dealt') = accepted' /\ (listening' => started') /\ listening' \in BOOLEAN
        /\ accepted' \in 0..MaxConns /\ backlog' \in 0..MaxConns - accepted'
        /\ peerOpen' \subseteq Conns
    <3>1. MaxConns \in Nat /\ accepted \in 0..MaxConns /\ backlog \in 0..MaxConns - accepted
      BY <1>3 DEF TypeOK
    <3>2. backlog' \in 0..MaxConns - accepted'
      <4>1. backlog' = backlog \/ (accepted + backlog < MaxConns /\ backlog' = backlog + 1)
        BY <1>2
      <4> QED BY <1>1, <3>1, <4>1
    <3>3. (listening' => started') /\ listening' \in BOOLEAN
      <4>1. listening' = listening \/ (started /\ listening' = TRUE)
        BY <1>2
      <4>2. listening \in BOOLEAN /\ (listening => started)
        BY <1>3 DEF TypeOK
      <4>3. started => started'
        BY <1>1
      <4>4. CASE listening' = listening
        BY <4>2, <4>3, <4>4, Zenon
      <4>5. CASE started /\ listening' = TRUE
        BY <4>3, <4>5
      <4> QED BY <4>1, <4>4, <4>5
    <3>4. peerOpen' \subseteq peerOpen
      BY <1>2
    <3> QED BY <1>1, <1>3, <3>1, <3>2, <3>3, <3>4 DEF TypeOK
  <2>2. fault' = fault \/ fault' = "accept"
    BY <1>2
  <2>3. /\ active' \in [Loops -> SUBSET Conns]
        /\ \A l \in Loops : active'[l] = {} \/ halfway'[l] = None
    BY <1>1, <1>2, <1>3, <1>4 DEF TypeOK
  <2> QED BY <1>1, <1>3, <2>1, <2>2, <2>3 DEF TypeOK
<1>6. Queues' /\ Stages' /\ Kept' /\ Owned'
  BY <1>1, <1>3 DEF Life, Queues, Stages, Kept, Owned, Holding, LoopOf
<1>7. Selected'
  <2>1. \A l \in Loops : active'[l] \subseteq Channels(l)
    BY <1>2, <1>3 DEF TypeOK, Life, Selected
  <2> QED BY <1>1, <1>3, <2>1 DEF Life, Selected, Open, LoopOf, Channels
<1>8. AssertsHold'
  <2>1. fault' = fault \/ fault' = "accept"
    BY <1>2
  <2> QED BY <1>1, <1>3, <2>1 DEF Life, AssertsHold
<1> QED BY <1>5, <1>6, <1>7, <1>8 DEF ServerInv, Life

\* The connections that queues speak of have been accepted.
LEMMA QueuedAccepted ==
    ASSUME TypeOK
    PROVE  /\ \A l \in Loops : /\ ioQ[l] \in Seq(IoTasks)
                               /\ \A task \in Elements(ioQ[l]) : task \in IoTasks
           /\ \A c \in Elements(serverQ) : c \in 1..accepted
<1>1. \A l \in Loops : ioQ[l] \in Seq(IoTasks)
  BY DEF TypeOK, IoTasks
<1>2. \A l \in Loops : \A k \in DOMAIN ioQ[l] : ioQ[l][k] \in IoTasks
  BY <1>1, ElementOfSeq, LenProperties
<1>3. \A k \in DOMAIN serverQ : serverQ[k] \in 1..accepted
  BY ElementOfSeq, LenProperties DEF TypeOK
<1> QED BY <1>1, <1>2, <1>3 DEF Elements

\* The task that establishes a new connection is the first that knows it, and the
\* descriptor it got was nobody's.
LEMMA NewConnectionKeeps ==
    ASSUME ServerInv, PoolInv', NewConnection
    PROVE  ServerInv'
<1> DEFINE new    == accepted + 1
           ioLoop == loops[next]
           task   == Task("establish", new)
           More   == [op : {"establish", "destroy"}, conn : 1..new]
<1> USE PoolAssumption, ServerAssumption
<1>1. TypeOK /\ Life /\ PoolInv /\ PoolTypeOK'
  BY DEF ServerInv, PoolInv
<1>2. /\ fault = "none" /\ listening /\ backlog > 0 /\ GetNextLoop
      /\ UNCHANGED <<listening, serverQ, state, peerOpen, chan, active, halfway>>
      /\ backlog' = backlog - 1 /\ accepted' = new
      /\ connMap' = connMap \cup {new}
  BY DEF NewConnection, Running, Keep
<1>3. PICK fd \in Fds :
        /\ owner[fd] = None
        /\ owner' = [owner EXCEPT ![fd] = new] /\ fdOf' = [fdOf EXCEPT ![new] = fd]
        /\ IF ioLoop = Null THEN fault' = "newConnection" /\ UNCHANGED ioQ
           ELSE /\ ioQ' = [ioQ EXCEPT ![ioLoop] = Append(@, task)]
                /\ fault' = fault
  BY DEF NewConnection
<1>4. /\ accepted \in Nat /\ MaxConns \in Nat /\ accepted + 1 <= MaxConns
      /\ backlog \in 0..MaxConns - accepted
      /\ Conns = 1..MaxConns /\ new \in Conns /\ 1..accepted \subseteq Conns
      /\ None \notin Conns /\ Null \notin Loops /\ None \notin Fds
      /\ \A c \in 1..accepted : LoopOf(c) \in Loops \cup {Null}
  <2>1. backlog \in 0..MaxConns - accepted
    BY <1>1 DEF TypeOK
  <2> QED BY <1>1, <1>2, <2>1, Ranges
<1>5. ioLoop \in Loops \cup {Null} /\ (ioLoop = Null => unasked # {}) /\ unasked' = unasked
  <2>1. next \in Loops /\ i = N /\ unasked' = unasked
    BY <1>1, <1>2 DEF PoolInv, PoolTypeOK, Published, GetNextLoop, Loops
  <2>2. next < i
    BY <2>1 DEF Loops
  <2> QED BY <1>1, <2>1, <2>2 DEF PoolInv, LoopsReal, Null, Loops
<1>6. /\ Len(dealt') = new /\ dealt'[new] = ioLoop
      /\ \A c \in 1..accepted : LoopOf(c)' = LoopOf(c)
  <2>1. dealt' = Append(dealt, ioLoop)
    BY <1>2 DEF GetNextLoop
  <2>2. dealt \in Seq(Loops \cup {Null}) /\ Len(dealt) = accepted
    BY <1>1 DEF TypeOK, PoolTypeOK
  <2> QED BY <1>4, <1>5, <2>1, <2>2 DEF LoopOf
<1>7. /\ \A c \in 1..new : c \in 1..accepted \/ c = new
      /\ 1..accepted \subseteq 1..new /\ new \in 1..new /\ new \notin 1..accepted
  BY <1>4
<1>8. task \in More /\ IoTasks \subseteq More /\ task.op = "establish" /\ task.conn = new
  BY <1>4, <1>7 DEF Task, IoTasks
<1>9. \A l \in Loops : \A t \in Elements(ioQ[l]) : t \in IoTasks /\ t.conn \in 1..accepted /\ t # task
  BY <1>1, <1>7, <1>8, QueuedAccepted DEF IoTasks
<1>10. \A l \in Loops : /\ ioQ'[l] \in Seq(More) /\ Distinct(ioQ'[l])
                        /\ Elements(ioQ'[l]) = Elements(ioQ[l]) \cup (IF l = ioLoop THEN {task} ELSE {})
  <2> HIDE DEF new, ioLoop, task, More
  <2> TAKE l \in Loops
  <2>1. ioQ \in [Loops -> Seq(IoTasks)] /\ Distinct(ioQ[l]) /\ task \notin Elements(ioQ[l])
    BY <1>1, <1>9 DEF TypeOK, Life, Queues, IoTasks
  <2>2. ioQ[l] \in Seq(More)
    BY <1>8, <2>1, SeqOfMore
  <2>3. CASE l = ioLoop
    <3>1. ioQ'[l] = Append(ioQ[l], task)
      BY <1>3, <1>4, <2>1, <2>3
    <3> QED BY <1>8, <2>1, <2>2, <2>3, <3>1, TaskAppended
  <2>4. CASE l # ioLoop
    <3>1. ioQ'[l] = ioQ[l]
      BY <1>3, <2>1, <2>4
    <3> QED BY <2>1, <2>2, <2>4, <3>1
  <2> QED BY <2>3, <2>4
<1>11. /\ fdOf'[new] = fd /\ owner'[fd] = new
       /\ \A c \in Conns \ {new} : fdOf'[c] = fdOf[c]
       /\ \A f \in Fds \ {fd} : owner'[f] = owner[f]
  BY <1>1, <1>3, <1>4 DEF TypeOK
<1> HIDE DEF new, ioLoop, task, More
<1>12. state[new] = "NONE" /\ \A l \in Loops : halfway[l] # new /\ new \notin Channels(l)
  BY <1>1, <1>4, <1>7 DEF Life, Stages, Selected, Channels, new
<1>13. TypeOK'
  <2>1. ioQ' \in [Loops -> Seq(More)]
    <3>1. DOMAIN ioQ' = Loops /\ ioQ' = [l \in Loops |-> ioQ'[l]]
      BY <1>1, <1>3 DEF TypeOK
    <3> QED BY <1>10, <3>1
  <2>2. serverQ' \in Seq(1..new)
    BY <1>1, <1>2, <1>7, SeqOfMore DEF TypeOK
  <2>3. /\ listening' \in BOOLEAN /\ (listening' => started')
    BY <1>1, <1>2 DEF TypeOK, GetNextLoop
  <2>4. /\ fdOf' \in [Conns -> Fds \cup {None}] /\ owner' \in [Fds -> Conns \cup {None}]
    BY <1>1, <1>3, <1>4 DEF TypeOK
  <2>5. connMap' \subseteq 1..new
    BY <1>1, <1>2, <1>7 DEF TypeOK
  <2>6. accepted' \in 0..MaxConns /\ backlog' \in 0..MaxConns - accepted'
    BY <1>2, <1>4 DEF new
  <2>7. fault' \in {"none", "newConnection"}
    BY <1>2, <1>3
  <2> QED BY <1>1, <1>2, <1>6, <2>1, <2>2, <2>3, <2>4, <2>5, <2>6, <2>7 DEF TypeOK, More
<1>14. Queues'
  <2>1. \A l \in Loops : \A t \in Elements(ioQ'[l]) : LoopOf(t.conn)' = l
    <3> SUFFICES ASSUME NEW l \in Loops, NEW t \in Elements(ioQ'[l])
                 PROVE  LoopOf(t.conn)' = l
      OBVIOUS
    <3>1. CASE t \in Elements(ioQ[l])
      BY <1>1, <1>6, <1>9, <3>1 DEF Life, Queues
    <3>2. CASE l = ioLoop /\ t = task
      BY <1>6, <1>8, <3>2 DEF LoopOf
    <3> QED BY <1>10, <3>1, <3>2
  <2> QED BY <1>1, <1>2, <1>10, <2>1 DEF Life, Queues
<1>15. Stages'
  <2>1. \A c \in Conns : c > accepted' => state'[c] = "NONE"
    BY <1>1, <1>2, <1>4 DEF Life, Stages, new
  <2>2. \A l \in Loops : \A t \in Elements(ioQ'[l]) :
          IF t.op = "establish" THEN state'[t.conn] = "NONE"
          ELSE state'[t.conn] = "closing" /\ t.conn \notin connMap'
    BY <1>1, <1>2, <1>7, <1>8, <1>9, <1>10, <1>12 DEF Life, Stages
  <2>3. \A c \in Elements(serverQ') : state'[c] = "closing" /\ c \in connMap'
    BY <1>1, <1>2 DEF Life, Stages
  <2>4. \A l \in Loops : halfway'[l] # None =>
          /\ halfway'[l] <= accepted' /\ LoopOf(halfway[l])' = l
          /\ state'[halfway'[l]] = "DISCONNECT"
    <3> SUFFICES ASSUME NEW l \in Loops, halfway[l] # None
                 PROVE  /\ halfway[l] <= accepted' /\ LoopOf(halfway[l])' = l
                        /\ state[halfway[l]] = "DISCONNECT"
      BY <1>2
    <3>1. halfway[l] \in 1..accepted
      BY <1>1, <1>4 DEF TypeOK, Life, Stages
    <3> QED BY <1>1, <1>2, <1>4, <1>6, <3>1 DEF Life, Stages, new
  <2> QED BY <1>2, <2>1, <2>2, <2>3, <2>4 DEF Stages
<1>16. Kept'
  <2> SUFFICES ASSUME NEW c \in 1..new
               PROVE  /\ state[c] \in {"NONE", "CONNECTED"} => c \in connMap'
                      /\ state[c] = "closing" =>
                            c \in connMap' \/ Task("destroy", c) \in Elements(ioQ'[LoopOf(c)'])
    BY <1>2 DEF Kept, Task
  <2>1. CASE c = new
    BY <1>2, <2>1
  <2>2. CASE c \in 1..accepted
    <3>1. Task("destroy", c) \in Elements(ioQ[LoopOf(c)]) /\ LoopOf(c) \in Loops =>
             Task("destroy", c) \in Elements(ioQ'[LoopOf(c)'])
      BY <1>6, <1>10, <2>2
    <3>2. LoopOf(c) \notin Loops => state[c] # "closing"
      BY <1>1, <2>2 DEF Life, Selected, Open
    <3> QED BY <1>1, <1>2, <2>2, <3>1, <3>2 DEF Life, Kept
  <2> QED BY <1>7, <2>1, <2>2
<1>17. Selected'
  <2>1. \A l \in Loops : \A f \in Fds : chan'[l][f] # None =>
             /\ chan'[l][f] <= accepted' /\ Open(chan[l][f])'
             /\ LoopOf(chan[l][f])' = l /\ fdOf'[chan'[l][f]] = f
    <3> SUFFICES ASSUME NEW l \in Loops, NEW f \in Fds, chan[l][f] # None
                 PROVE  /\ chan[l][f] <= accepted' /\ Open(chan[l][f])
                        /\ LoopOf(chan[l][f])' = l /\ fdOf'[chan[l][f]] = f
      BY <1>2 DEF Open
    <3>1. chan[l][f] \in 1..accepted
      BY <1>1, <1>4 DEF TypeOK, Life, Selected
    <3> QED BY <1>1, <1>2, <1>4, <1>6, <1>7, <1>11, <3>1 DEF Life, Selected, new
  <2>2. \A c \in 1..accepted' : Open(c)' => LoopOf(c)' \in Loops /\ chan'[LoopOf(c)'][fdOf'[c]] = c
    <3> SUFFICES ASSUME NEW c \in 1..new, Open(c)
                 PROVE  LoopOf(c)' \in Loops /\ chan[LoopOf(c)'][fdOf'[c]] = c
      BY <1>2 DEF Open
    <3>1. c \in 1..accepted
      BY <1>7, <1>12 DEF Open
    <3> QED BY <1>1, <1>4, <1>6, <1>7, <1>11, <3>1 DEF Life, Selected
  <2>3. \A l \in Loops : active'[l] \subseteq Channels(l)'
    BY <1>1, <1>2 DEF Life, Selected, Channels
  <2> QED BY <2>1, <2>2, <2>3 DEF Selected
<1>18. Owned'
  <2> SUFFICES ASSUME NEW c \in 1..new, Holding(c)
               PROVE  fdOf'[c] \in Fds /\ owner'[fdOf'[c]] = c
    BY <1>2 DEF Owned, Holding
  <2>1. CASE c = new
    BY <1>3, <1>11, <2>1
  <2>2. CASE c \in 1..accepted
    <3>1. fdOf[c] \in Fds /\ owner[fdOf[c]] = c
      BY <1>1, <2>2 DEF Life, Owned
    <3> QED BY <1>3, <1>4, <1>7, <1>11, <2>2, <3>1
  <2> QED BY <1>7, <2>1, <2>2
<1>19. AssertsHold'
  BY <1>2, <1>3, <1>5 DEF AssertsHold
<1> QED BY <1>13, <1>14, <1>15, <1>16, <1>17, <1>18, <1>19 DEF ServerInv, Life

\* The loop of a connection that has one takes its destroy task, for the map had it.
LEMMA RemoveConnectionKeeps ==
    ASSUME ServerInv, PoolInv', RemoveConnectionInLoop
    PROVE  ServerInv'
<1> DEFINE c == Head(serverQ)
           io == LoopOf(c)
           task == Task("destroy", c)
<1>1. TypeOK /\ Life /\ PoolTypeOK' /\ serverQ # <<>> /\ serverQ \in Seq(1..accepted)
  BY DEF ServerInv, PoolInv, RemoveConnectionInLoop, TypeOK
<1>2. /\ c \in 1..accepted /\ c \in Elements(serverQ)
      /\ Tail(serverQ) \in Seq(1..accepted) /\ Distinct(Tail(serverQ))
      /\ Elements(Tail(serverQ)) = Elements(serverQ) \ {c}
  BY <1>1, TaskTaken DEF Life, Queues
<1>3. c \in connMap /\ state[c] = "closing"
  BY <1>1, <1>2 DEF Life, Stages
<1>4. /\ serverQ' = Tail(serverQ) /\ connMap' = connMap \ {c}
      /\ ioQ' = [ioQ EXCEPT ![io] = Append(@, task)]
      /\ UNCHANGED <<poolVars, serverVars, fdOf, state, kernelVars, chan, active, halfway, fault>>
  BY <1>3 DEF RemoveConnectionInLoop, Erase
<1>5. io \in Loops
  BY <1>1, <1>2, <1>3 DEF Life, Selected, Open
<1>6. task \in IoTasks /\ task.op = "destroy" /\ task.conn = c
  BY <1>2 DEF Task, IoTasks
<1> HIDE DEF c, io, task
<1>7. \A l \in Loops : /\ ioQ'[l] \in Seq(IoTasks) /\ Distinct(ioQ'[l])
                       /\ Elements(ioQ'[l]) = Elements(ioQ[l]) \cup (IF l = io THEN {task} ELSE {})
  <2> TAKE l \in Loops
  <2>1. ioQ \in [Loops -> Seq(IoTasks)] /\ Distinct(ioQ[l])
    BY <1>1 DEF TypeOK, Life, Queues, IoTasks
  <2>2. task \notin Elements(ioQ[l])
    BY <1>1, <1>3, <1>6 DEF Life, Stages
  <2>3. CASE l = io
    <3>1. ioQ'[l] = Append(ioQ[l], task)
      BY <1>4, <2>1, <2>3
    <3> QED BY <1>6, <2>1, <2>2, <2>3, <3>1, TaskAppended
  <2>4. CASE l # io
    <3>1. ioQ'[l] = ioQ[l]
      BY <1>4, <2>1, <2>4
    <3> QED BY <2>1, <2>4, <3>1
  <2> QED BY <2>3, <2>4
<1>8. /\ UNCHANGED <<accepted, dealt, listening, backlog, started, fdOf, state, peerOpen, owner,
                     chan, active, halfway, fault, unasked>>
      /\ IoTasks' = IoTasks /\ \A d : LoopOf(d)' = LoopOf(d)
  BY <1>4 DEF poolVars, serverVars, kernelVars, IoTasks, LoopOf
<1>9. TypeOK'
  <2>1. ioQ' = [l \in Loops |-> ioQ'[l]]
    BY <1>1, <1>4 DEF TypeOK
  <2>2. ioQ' \in [Loops -> Seq(IoTasks)]
    BY <1>7, <2>1
  <2>3. listening' \in BOOLEAN /\ (listening' => started')
    BY <1>1, <1>8, Zenon DEF TypeOK
  <2>4. connMap' \subseteq 1..accepted
    BY <1>1, <1>4 DEF TypeOK
  <2> QED BY <1>1, <1>2, <1>4, <1>8, <2>2, <2>3, <2>4 DEF TypeOK, IoTasks
<1>10. Queues'
  <2>1. \A l \in Loops : \A t \in Elements(ioQ'[l]) : LoopOf(t.conn) = l
    BY <1>1, <1>6, <1>7 DEF Life, Queues, io
  <2> QED BY <1>2, <1>4, <1>7, <1>8, <2>1 DEF Queues
<1>11. Stages'
  <2>1. \A l \in Loops : \A t \in Elements(ioQ'[l]) :
          IF t.op = "establish" THEN state[t.conn] = "NONE"
          ELSE state[t.conn] = "closing" /\ t.conn \notin connMap'
    <3> SUFFICES ASSUME NEW l \in Loops, NEW t \in Elements(ioQ'[l])
                 PROVE  IF t.op = "establish" THEN state[t.conn] = "NONE"
                        ELSE state[t.conn] = "closing" /\ t.conn \notin connMap'
      OBVIOUS
    <3>1. CASE t \in Elements(ioQ[l])
      BY <1>1, <1>4, <3>1 DEF Life, Stages
    <3>2. CASE t = task
      BY <1>3, <1>4, <1>6, <3>2
    <3> QED BY <1>7, <3>1, <3>2
  <2>2. \A d \in Elements(serverQ') : state[d] = "closing" /\ d \in connMap'
    BY <1>1, <1>2, <1>4 DEF Life, Stages
  <2> QED BY <1>1, <1>8, <2>1, <2>2 DEF Life, Stages
<1>12. Kept'
  <2> SUFFICES ASSUME NEW d \in 1..accepted
               PROVE  /\ state[d] \in {"NONE", "CONNECTED"} => d \in connMap'
                      /\ state[d] = "closing" =>
                            d \in connMap' \/ Task("destroy", d) \in Elements(ioQ'[LoopOf(d)])
    BY <1>8 DEF Kept, Task
  <2>1. CASE d = c
    BY <1>3, <1>5, <1>7, <2>1 DEF task, io
  <2>2. CASE d # c
    <3>1. state[d] = "closing" => LoopOf(d) \in Loops
      BY <1>1 DEF Life, Selected, Open
    <3> QED BY <1>1, <1>4, <1>7, <2>2, <3>1 DEF Life, Kept
  <2> QED BY <2>1, <2>2
<1>13. Selected' /\ Owned' /\ AssertsHold'
  BY <1>1, <1>8 DEF Life, Selected, Open, Channels, Owned, Holding, AssertsHold
<1> QED BY <1>9, <1>10, <1>11, <1>12, <1>13 DEF ServerInv, Life

\* What is left of a loop's tasks when it has taken one.
LEMMA TaskOfLoop ==
    ASSUME TypeOK, Queues, NEW l \in Loops, ioQ[l] # <<>>,
           ioQ' = [ioQ EXCEPT ![l] = Tail(@)]
    PROVE  /\ Head(ioQ[l]) \in IoTasks /\ Head(ioQ[l]) \in Elements(ioQ[l])
           /\ LoopOf(Head(ioQ[l]).conn) = l /\ Head(ioQ[l]).conn \in 1..accepted
           /\ Head(ioQ[l]) = Task(Head(ioQ[l]).op, Head(ioQ[l]).conn)
           /\ ioQ' \in [Loops -> Seq(IoTasks)]
           /\ \A m \in Loops :
                 /\ Distinct(ioQ'[m])
                 /\ Elements(ioQ'[m]) = Elements(ioQ[m]) \ {Head(ioQ[l])}
<1>1. ioQ \in [Loops -> Seq(IoTasks)] /\ Distinct(ioQ[l])
  BY DEF TypeOK, Queues, IoTasks
<1>2. ioQ[l] \in Seq(IoTasks)
  BY <1>1
<1>3. /\ Head(ioQ[l]) \in IoTasks /\ Head(ioQ[l]) \in Elements(ioQ[l])
      /\ Tail(ioQ[l]) \in Seq(IoTasks) /\ Distinct(Tail(ioQ[l]))
      /\ Elements(Tail(ioQ[l])) = Elements(ioQ[l]) \ {Head(ioQ[l])}
  BY <1>1, <1>2, TaskTaken
<1>4. ioQ' \in [Loops -> Seq(IoTasks)]
  BY <1>1, <1>3
<1>5. \A m \in Loops : ioQ'[m] = IF m = l THEN Tail(ioQ[l]) ELSE ioQ[m]
  BY <1>1
<1>6. \A m \in Loops \ {l} : Head(ioQ[l]) \notin Elements(ioQ[m])
  BY <1>3 DEF Queues
<1>7. ASSUME NEW m \in Loops
      PROVE  Distinct(ioQ'[m]) /\ Elements(ioQ'[m]) = Elements(ioQ[m]) \ {Head(ioQ[l])}
  <2>1. CASE m = l
    BY <1>3, <1>5, <2>1
  <2>2. CASE m # l
    <3>1. ioQ'[m] = ioQ[m]
      BY <1>5, <2>2
    <3> QED BY <1>6, <2>2, <3>1 DEF Queues
  <2> QED BY <2>1, <2>2
<1> QED BY <1>3, <1>4, <1>7 DEF Queues, IoTasks, Task

\* The descriptor of a connection that is to be established is its own, so no channel
\* of another one is found there.
LEMMA ConnectEstablishedKeeps ==
    ASSUME ServerInv, PoolInv', NEW l \in Loops, ConnectEstablished(l)
    PROVE  ServerInv'
<1> DEFINE task == Head(ioQ[l])
           c == task.conn
<1>1. TypeOK /\ Life /\ PoolTypeOK' /\ ioQ[l] # <<>> /\ task.op = "establish"
      /\ active[l] = {} /\ halfway[l] = None
  BY DEF ServerInv, PoolInv, ConnectEstablished, IdleFor
<1>2. task \in Elements(ioQ[l]) /\ c \in 1..accepted /\ c \in Conns /\ LoopOf(c) = l
  <2>1. ioQ[l] \in Seq(IoTasks)
    BY <1>1, QueuedAccepted
  <2>2. task \in Elements(ioQ[l])
    BY <1>1, <2>1, TaskTaken DEF Life, Queues
  <2> QED BY <1>1, <2>2, QueuedAccepted, Ranges DEF Life, Queues, IoTasks
<1>3. state[c] = "NONE"
  BY <1>1, <1>2 DEF Life, Stages
<1>4. /\ ioQ' = [ioQ EXCEPT ![l] = Tail(@)]
      /\ state' = [state EXCEPT ![c] = "CONNECTED"]
      /\ UpdateChannel(l, c)
      /\ UNCHANGED <<poolVars, serverVars, connMap, serverQ, fdOf, kernelVars,
                     active, halfway, fault>>
  BY <1>3 DEF ConnectEstablished
<1>5. /\ ioQ' \in [Loops -> Seq(IoTasks)]
      /\ \A m \in Loops : /\ Distinct(ioQ'[m])
                          /\ Elements(ioQ'[m]) = Elements(ioQ[m]) \ {task}
      /\ task = Task("establish", c)
  BY <1>1, <1>4, TaskOfLoop DEF Life
<1> HIDE DEF task, c
<1>6. fdOf[c] \in Fds /\ owner[fdOf[c]] = c /\ chan[l][fdOf[c]] = None
  <2>1. fdOf[c] \in Fds /\ owner[fdOf[c]] = c
    BY <1>1, <1>2, <1>3 DEF Life, Owned, Holding
  <2>2. ASSUME chan[l][fdOf[c]] # None PROVE FALSE
    <3> DEFINE d == chan[l][fdOf[c]]
    <3>1. d \in 1..accepted /\ Open(d) /\ fdOf[d] = fdOf[c]
      <4>1. d \in Conns
        BY <1>1, <2>1, <2>2 DEF TypeOK
      <4>2. d <= accepted /\ Open(d) /\ fdOf[d] = fdOf[c]
        BY <1>1, <2>1, <2>2 DEF Life, Selected
      <4> QED BY <1>1, <4>1, <4>2, Ranges
    <3>2. owner[fdOf[d]] = d
      BY <1>1, <3>1 DEF Life, Owned, Holding, Open
    <3> QED BY <1>3, <2>1, <3>1, <3>2 DEF Open
  <2> QED BY <2>1, <2>2
<1>7. /\ chan' \in [Loops -> [Fds -> Conns \cup {None}]] /\ chan'[l][fdOf[c]] = c
      /\ \A m \in Loops : \A fd \in Fds : m # l \/ fd # fdOf[c] => chan'[m][fd] = chan[m][fd]
      /\ state' \in [Conns -> {"NONE", "CONNECTED", "closing", "DISCONNECT"}]
      /\ state'[c] = "CONNECTED" /\ \A d \in Conns \ {c} : state'[d] = state[d]
  BY <1>1, <1>2, <1>4, <1>6 DEF UpdateChannel, TypeOK
<1>8. /\ UNCHANGED <<accepted, dealt, listening, backlog, started, fdOf, connMap, serverQ, peerOpen,
                     owner, active, halfway, fault, unasked>>
      /\ IoTasks' = IoTasks /\ \A d : LoopOf(d)' = LoopOf(d)
  BY <1>4 DEF poolVars, serverVars, kernelVars, IoTasks, LoopOf
<1>9. TypeOK'
  <2>1. listening' \in BOOLEAN /\ (listening' => started')
    BY <1>1, <1>8, Zenon DEF TypeOK
  <2> QED BY <1>1, <1>5, <1>7, <1>8, <2>1 DEF TypeOK, IoTasks
<1>10. Queues'
  BY <1>1, <1>5, <1>8 DEF Life, Queues
<1>11. Stages'
  <2>1. \A m \in Loops : \A t \in Elements(ioQ'[m]) :
          t.conn \in Conns /\ (t.op = "establish" => t.conn # c)
    <3> SUFFICES ASSUME NEW m \in Loops, NEW t \in Elements(ioQ'[m])
                 PROVE  t.conn \in Conns /\ (t.op = "establish" => t.conn # c)
      OBVIOUS
    <3>1. t \in IoTasks /\ t # task
      BY <1>1, <1>5, QueuedAccepted
    <3> QED BY <1>1, <1>5, <3>1, Ranges DEF IoTasks, Task
  <2>2. \A m \in Loops : \A t \in Elements(ioQ'[m]) :
          IF t.op = "establish" THEN state'[t.conn] = "NONE"
          ELSE state'[t.conn] = "closing" /\ t.conn \notin connMap'
    BY <1>1, <1>3, <1>5, <1>7, <1>8, <2>1 DEF Life, Stages
  <2>3. \A d \in Elements(serverQ') : state'[d] = "closing" /\ d \in connMap'
    BY <1>1, <1>3, <1>7, <1>8, QueuedAccepted, Ranges DEF Life, Stages
  <2>4. \A m \in Loops : halfway[m] # None => state'[halfway[m]] = "DISCONNECT"
    BY <1>1, <1>3, <1>7 DEF TypeOK, Life, Stages
  <2>5. \A d \in Conns : d > accepted => state'[d] = "NONE"
    BY <1>1, <1>2, <1>7, Ranges DEF Life, Stages
  <2> QED BY <1>1, <1>8, <2>2, <2>3, <2>4, <2>5 DEF Life, Stages
<1>12. Kept'
  <2>1. \A d \in 1..accepted : \A m \in Loops :
           Task("destroy", d) \in Elements(ioQ[m]) => Task("destroy", d) \in Elements(ioQ'[m])
    BY <1>5 DEF Task
  <2>2. \A d \in 1..accepted : state[d] = "closing" => LoopOf(d) \in Loops
    BY <1>1 DEF Life, Selected, Open
  <2>3. c \in connMap
    BY <1>1, <1>2, <1>3 DEF Life, Kept
  <2>4. \A d \in 1..accepted : d = c \/ state'[d] = state[d]
    BY <1>1, <1>7, Ranges
  <2>5. ASSUME NEW d \in 1..accepted
        PROVE  /\ state'[d] \in {"NONE", "CONNECTED"} => d \in connMap
               /\ state'[d] = "closing" =>
                     d \in connMap \/ Task("destroy", d) \in Elements(ioQ'[LoopOf(d)])
    BY <1>1, <1>7, <2>1, <2>2, <2>3, <2>4 DEF Life, Kept
  <2> QED BY <1>8, <2>5 DEF Kept, Task
<1>13. Selected'
  <2>1. ASSUME NEW m \in Loops, NEW fd \in Fds, chan'[m][fd] # None
        PROVE  LET d == chan'[m][fd] IN
               d <= accepted /\ state'[d] \in {"CONNECTED", "closing"} /\ LoopOf(d) = m /\ fdOf[d] = fd
    <3>1. CASE m = l /\ fd = fdOf[c]
      BY <1>1, <1>2, <1>7, <3>1, Ranges
    <3>2. CASE m # l \/ fd # fdOf[c]
      <4>1. chan'[m][fd] = chan[m][fd] /\ chan[m][fd] \in Conns
        BY <1>1, <1>7, <2>1, <3>2 DEF TypeOK
      <4> QED BY <1>1, <1>3, <1>7, <2>1, <4>1 DEF Life, Selected, Open
    <3> QED BY <3>1, <3>2
  <2>2. ASSUME NEW d \in 1..accepted, state'[d] \in {"CONNECTED", "closing"}
        PROVE  LoopOf(d) \in Loops /\ chan'[LoopOf(d)][fdOf[d]] = d
    <3>1. CASE d = c
      BY <1>2, <1>7, <3>1
    <3>2. CASE d # c
      <4>1. Open(d)
        BY <1>1, <1>7, <2>2, <3>2, Ranges DEF Open
      <4>2. LoopOf(d) \in Loops /\ chan[LoopOf(d)][fdOf[d]] = d /\ fdOf[d] \in Fds /\ d # None
        BY <1>1, <4>1, Ranges DEF Life, Selected, Owned, Holding, Open
      <4> QED BY <1>6, <1>7, <4>2
    <3> QED BY <3>1, <3>2
  <2>3. \A m \in Loops : active'[m] \subseteq Channels(m)'
    <3> SUFFICES ASSUME NEW m \in Loops, NEW d \in active[m] PROVE d \in Channels(m)'
      BY <1>8
    <3>1. PICK fd \in Fds : chan[m][fd] = d /\ d # None
      BY <1>1 DEF Life, Selected, Channels
    <3>2. chan'[m][fd] = d
      BY <1>6, <1>7, <3>1
    <3> QED BY <3>1, <3>2 DEF Channels
  <2> QED BY <1>8, <2>1, <2>2, <2>3 DEF Selected, Open
<1>14. Owned'
  <2> SUFFICES ASSUME NEW d \in 1..accepted, Holding(d)'
               PROVE  fdOf[d] \in Fds /\ owner[fdOf[d]] = d
    BY <1>8 DEF Owned
  <2>1. Holding(d)
    BY <1>1, <1>3, <1>7, <1>8, Ranges DEF Holding
  <2> QED BY <1>1, <2>1 DEF Life, Owned
<1>15. AssertsHold'
  BY <1>1, <1>8 DEF Life, AssertsHold
<1> QED BY <1>9, <1>10, <1>11, <1>12, <1>13, <1>14, <1>15 DEF ServerInv, Life

\* An active channel is one of this loop's Selector, whose connection the map still
\* holds if it reports the end of its input.
LEMMA HandleEventsKeeps ==
    ASSUME ServerInv, PoolInv', NEW l \in Loops, NEW c \in Conns, HandleEvents(l, c)
    PROVE  ServerInv'
<1>1. TypeOK /\ Life /\ PoolTypeOK'
  BY DEF ServerInv, PoolInv
<1>2. /\ c \in active[l] /\ active' = [active EXCEPT ![l] = @ \ {c}]
      /\ UNCHANGED <<poolVars, serverVars, connMap, ioQ, fdOf, kernelVars, halfway, fault>>
  BY DEF HandleEvents
<1>3. c \in 1..accepted /\ Open(c) /\ LoopOf(c) = l /\ chan[l][fdOf[c]] = c /\ fdOf[c] \in Fds
  <2>1. PICK fd \in Fds : chan[l][fd] = c /\ c # None
    BY <1>1, <1>2 DEF Life, Selected, Channels
  <2> QED BY <1>1, <2>1, Ranges DEF Life, Selected
<1>4. UNCHANGED chan
  <2>1. ReportsEnd(c) => chan' = [chan EXCEPT ![l][fdOf[c]] = IF @ = None THEN c ELSE @]
    BY DEF HandleEvents, UpdateChannel
  <2>2. [chan EXCEPT ![l][fdOf[c]] = IF @ = None THEN c ELSE @] = chan
    BY <1>1, <1>3, Ranges DEF TypeOK
  <2> QED BY <2>1, <2>2 DEF HandleEvents
<1>5. \/ UNCHANGED <<state, serverQ>>
      \/ /\ state[c] = "CONNECTED" /\ state' = [state EXCEPT ![c] = "closing"]
         /\ serverQ' = Append(serverQ, c)
  BY DEF HandleEvents, ReportsEnd
<1>6. /\ UNCHANGED <<accepted, dealt, listening, backlog, started, connMap, ioQ, fdOf, peerOpen,
                     owner, chan, halfway, fault, unasked>>
      /\ IoTasks' = IoTasks /\ \A d : LoopOf(d)' = LoopOf(d)
  BY <1>2, <1>4 DEF poolVars, serverVars, kernelVars, IoTasks, LoopOf
<1>7. /\ active' \in [Loops -> SUBSET Conns] /\ \A m \in Loops : active'[m] \subseteq active[m]
  BY <1>1, <1>2 DEF TypeOK
<1>8. /\ serverQ' \in Seq(1..accepted) /\ Distinct(serverQ')
      /\ state' \in [Conns -> {"NONE", "CONNECTED", "closing", "DISCONNECT"}]
      /\ \A d \in Elements(serverQ') : d \in Elements(serverQ) \/ (d = c /\ state'[c] = "closing")
      /\ \A d \in Conns : state'[d] = state[d]
                          \/ (d = c /\ state[c] = "CONNECTED" /\ state'[c] = "closing")
  <2>1. CASE UNCHANGED <<state, serverQ>>
    BY <1>1, <2>1 DEF TypeOK, Life, Queues
  <2>2. CASE /\ state[c] = "CONNECTED" /\ state' = [state EXCEPT ![c] = "closing"]
             /\ serverQ' = Append(serverQ, c)
    <3>1. c \notin Elements(serverQ)
      BY <1>1, <2>2 DEF Life, Stages
    <3>2. serverQ \in Seq(1..accepted) /\ Distinct(serverQ)
      BY <1>1 DEF TypeOK, Life, Queues
    <3>3. /\ serverQ' \in Seq(1..accepted) /\ Distinct(serverQ')
          /\ Elements(serverQ') = Elements(serverQ) \cup {c}
      <4> DEFINE Known == 1..accepted
      <4>1. serverQ \in Seq(Known) /\ c \in Known
        BY <1>3, <3>2
      <4> HIDE DEF Known
      <4>2. /\ Append(serverQ, c) \in Seq(Known) /\ Distinct(Append(serverQ, c))
            /\ Elements(Append(serverQ, c)) = Elements(serverQ) \cup {c}
        BY <3>1, <3>2, <4>1, TaskAppended
      <4> QED BY <2>2, <4>2 DEF Known
    <3>4. /\ state' \in [Conns -> {"NONE", "CONNECTED", "closing", "DISCONNECT"}]
          /\ \A d \in Conns : state'[d] = IF d = c THEN "closing" ELSE state[d]
      BY <1>1, <2>2 DEF TypeOK
    <3> QED BY <2>2, <3>3, <3>4
  <2> QED BY <1>5, <2>1, <2>2
<1>9. TypeOK'
  <2>1. listening' \in BOOLEAN /\ (listening' => started')
    BY <1>1, <1>6, Zenon DEF TypeOK
  <2>2. \A m \in Loops : active'[m] = {} \/ halfway'[m] = None
    BY <1>1, <1>6, <1>7 DEF TypeOK
  <2> QED BY <1>1, <1>6, <1>7, <1>8, <2>1, <2>2 DEF TypeOK, IoTasks
<1>10. Queues'
  BY <1>1, <1>6, <1>8 DEF Life, Queues
<1>11. c \in connMap \/ state[c] # "CONNECTED"
  BY <1>1, <1>3 DEF Life, Kept
<1>12. Stages'
  <2>1. \A m \in Loops : \A t \in Elements(ioQ[m]) : t.conn \in Conns
    BY <1>1, QueuedAccepted, Ranges DEF IoTasks
  <2>2. \A m \in Loops : \A t \in Elements(ioQ[m]) :
          IF t.op = "establish" THEN state'[t.conn] = "NONE"
          ELSE state'[t.conn] = "closing" /\ t.conn \notin connMap
    BY <1>1, <1>8, <2>1 DEF Life, Stages
  <2>3. \A d \in Elements(serverQ') : state'[d] = "closing" /\ d \in connMap
    <3> SUFFICES ASSUME NEW d \in Elements(serverQ') PROVE state'[d] = "closing" /\ d \in connMap
      OBVIOUS
    <3>1. CASE d \in Elements(serverQ)
      <4>1. d \in Conns /\ state[d] = "closing" /\ d \in connMap
        BY <1>1, <3>1, QueuedAccepted, Ranges DEF Life, Stages
      <4> QED BY <1>8, <4>1
    <3>2. CASE d \notin Elements(serverQ)
      <4>1. d = c /\ state'[c] = "closing"
        BY <1>8, <3>2
      <4>2. state[c] = "CONNECTED"
        <5>1. serverQ' # serverQ
          BY <3>2
        <5> QED BY <1>5, <5>1
      <4> QED BY <1>11, <4>1, <4>2
    <3> QED BY <3>1, <3>2
  <2>4. \A m \in Loops : halfway[m] # None => state'[halfway[m]] = "DISCONNECT"
    BY <1>1, <1>8 DEF TypeOK, Life, Stages
  <2>5. \A d \in Conns : d > accepted => state'[d] = "NONE"
    BY <1>1, <1>8 DEF Life, Stages
  <2> QED BY <1>1, <1>6, <2>2, <2>3, <2>4, <2>5 DEF Life, Stages
<1>13. Kept'
  <2>1. ASSUME NEW d \in 1..accepted
        PROVE  /\ state'[d] \in {"NONE", "CONNECTED"} => d \in connMap
               /\ state'[d] = "closing" =>
                     d \in connMap \/ Task("destroy", d) \in Elements(ioQ[LoopOf(d)])
    BY <1>1, <1>8, <1>11, Ranges DEF Life, Kept
  <2> QED BY <1>6, <2>1 DEF Kept, Task
<1>14. \A d \in Conns : Open(d)' = Open(d)
  BY <1>8 DEF Open
<1>15. Selected'
  <2>1. \A m \in Loops : \A fd \in Fds :
          chan[m][fd] # None =>
             /\ chan[m][fd] <= accepted /\ Open(chan[m][fd])'
             /\ LoopOf(chan[m][fd]) = m /\ fdOf[chan[m][fd]] = fd
    <3> SUFFICES ASSUME NEW m \in Loops, NEW fd \in Fds, chan[m][fd] # None
                 PROVE  /\ chan[m][fd] <= accepted /\ Open(chan[m][fd])'
                        /\ LoopOf(chan[m][fd]) = m /\ fdOf[chan[m][fd]] = fd
      OBVIOUS
    <3>1. chan[m][fd] \in Conns
      BY <1>1 DEF TypeOK
    <3>2. state'[chan[m][fd]] \in {"CONNECTED", "closing"}
      BY <1>1, <1>8, <3>1 DEF Life, Selected, Open
    <3> QED BY <1>1, <1>6, <3>2 DEF Life, Selected, Open
  <2>2. \A d \in 1..accepted : Open(d)' => LoopOf(d) \in Loops /\ chan[LoopOf(d)][fdOf[d]] = d
    BY <1>1, <1>14, Ranges DEF Life, Selected
  <2>3. \A m \in Loops : active'[m] \subseteq Channels(m)
    BY <1>1, <1>7 DEF Life, Selected
  <2> QED BY <1>6, <2>1, <2>2, <2>3 DEF Selected, Open, Channels
<1>16. Owned'
  <2> SUFFICES ASSUME NEW d \in 1..accepted, Holding(d)'
               PROVE  fdOf[d] \in Fds /\ owner[fdOf[d]] = d
    BY <1>6 DEF Owned
  <2>1. Holding(d)
    BY <1>1, <1>6, <1>8, Ranges DEF Holding
  <2> QED BY <1>1, <2>1 DEF Life, Owned
<1>17. AssertsHold'
  BY <1>1, <1>6 DEF Life, AssertsHold
<1> QED BY <1>9, <1>10, <1>12, <1>13, <1>15, <1>16, <1>17 DEF ServerInv, Life

\* connectDestroyed takes its channel, which is where it was put, out of the Selector.
LEMMA ConnectDestroyedKeeps ==
    ASSUME ServerInv, PoolInv', NEW l \in Loops, ConnectDestroyed(l)
    PROVE  ServerInv'
<1> DEFINE task == Head(ioQ[l])
           c == task.conn
<1>1. /\ TypeOK /\ Life /\ PoolTypeOK' /\ ioQ[l] # <<>> /\ task.op = "destroy"
      /\ active[l] = {} /\ halfway[l] = None
  BY DEF ServerInv, PoolInv, ConnectDestroyed, IdleFor
<1>2. task \in Elements(ioQ[l]) /\ c \in 1..accepted /\ c \in Conns /\ LoopOf(c) = l
  <2>1. ioQ[l] \in Seq(IoTasks)
    BY <1>1, QueuedAccepted
  <2>2. task \in Elements(ioQ[l])
    BY <1>1, <2>1, TaskTaken DEF Life, Queues
  <2> QED BY <1>1, <2>2, QueuedAccepted, Ranges DEF Life, Queues, IoTasks
<1>3. state[c] = "closing" /\ c \notin connMap
  BY <1>1, <1>2 DEF Life, Stages
<1>4. chan[l][fdOf[c]] = c /\ fdOf[c] \in Fds
  BY <1>1, <1>2, <1>3 DEF Life, Selected, Open, Owned, Holding
<1>5. /\ ioQ' = [ioQ EXCEPT ![l] = Tail(@)]
      /\ state' = [state EXCEPT ![c] = "DISCONNECT"]
      /\ chan' = [chan EXCEPT ![l][fdOf[c]] = None]
      /\ halfway' = [halfway EXCEPT ![l] = c]
      /\ UNCHANGED <<poolVars, serverVars, connMap, serverQ, fdOf, kernelVars, active, fault>>
  BY <1>3, <1>4 DEF ConnectDestroyed, Destroy, Leave, kernelVars
<1>6. /\ ioQ' \in [Loops -> Seq(IoTasks)]
      /\ \A m \in Loops : /\ Distinct(ioQ'[m])
                          /\ Elements(ioQ'[m]) = Elements(ioQ[m]) \ {task}
      /\ task = Task("destroy", c)
  BY <1>1, <1>5, TaskOfLoop DEF Life
<1> HIDE DEF task, c
<1>7. /\ chan' \in [Loops -> [Fds -> Conns \cup {None}]] /\ chan'[l][fdOf[c]] = None
      /\ \A m \in Loops : \A fd \in Fds : m # l \/ fd # fdOf[c] => chan'[m][fd] = chan[m][fd]
      /\ state' \in [Conns -> {"NONE", "CONNECTED", "closing", "DISCONNECT"}]
      /\ state'[c] = "DISCONNECT" /\ \A d \in Conns \ {c} : state'[d] = state[d]
      /\ halfway' \in [Loops -> Conns \cup {None}]
      /\ halfway'[l] = c /\ \A m \in Loops \ {l} : halfway'[m] = halfway[m]
  BY <1>1, <1>2, <1>4, <1>5 DEF TypeOK
<1>8. /\ UNCHANGED <<accepted, dealt, listening, backlog, started, fdOf, connMap, serverQ, peerOpen,
                     owner, active, fault, unasked>>
      /\ IoTasks' = IoTasks /\ \A d : LoopOf(d)' = LoopOf(d)
  BY <1>5 DEF poolVars, serverVars, kernelVars, IoTasks, LoopOf
<1>9. TypeOK'
  <2>1. listening' \in BOOLEAN /\ (listening' => started')
    BY <1>1, <1>8, Zenon DEF TypeOK
  <2>2. \A m \in Loops : active'[m] = {} \/ halfway'[m] = None
    BY <1>1, <1>7, <1>8 DEF TypeOK
  <2> QED BY <1>1, <1>6, <1>7, <1>8, <2>1, <2>2 DEF TypeOK, IoTasks
<1>10. Queues'
  BY <1>1, <1>6, <1>8 DEF Life, Queues
<1>11. Stages'
  <2>1. \A m \in Loops : \A t \in Elements(ioQ'[m]) : t.conn \in Conns /\ t.conn # c
    <3> SUFFICES ASSUME NEW m \in Loops, NEW t \in Elements(ioQ'[m])
                 PROVE  t.conn \in Conns /\ t.conn # c
      OBVIOUS
    <3>1. t \in Elements(ioQ[m]) /\ t \in IoTasks /\ t # task
      BY <1>1, <1>6, QueuedAccepted
    <3>2. t.conn = c => t.op = "destroy"
      BY <1>1, <1>3, <3>1 DEF Life, Stages, IoTasks
    <3> QED BY <1>1, <1>6, <3>1, <3>2, Ranges DEF IoTasks, Task
  <2>2. \A m \in Loops : \A t \in Elements(ioQ'[m]) :
          IF t.op = "establish" THEN state'[t.conn] = "NONE"
          ELSE state'[t.conn] = "closing" /\ t.conn \notin connMap'
    BY <1>1, <1>6, <1>7, <1>8, <2>1 DEF Life, Stages
  <2>3. \A d \in Elements(serverQ') : state'[d] = "closing" /\ d \in connMap'
    BY <1>1, <1>3, <1>7, <1>8, QueuedAccepted, Ranges DEF Life, Stages
  <2>4. \A m \in Loops : halfway'[m] # None =>
          /\ halfway'[m] <= accepted /\ LoopOf(halfway'[m]) = m
          /\ state'[halfway'[m]] = "DISCONNECT"
    <3> SUFFICES ASSUME NEW m \in Loops, halfway'[m] # None
                 PROVE  /\ halfway'[m] <= accepted /\ LoopOf(halfway'[m]) = m
                        /\ state'[halfway'[m]] = "DISCONNECT"
      OBVIOUS
    <3>1. CASE m = l
      BY <1>1, <1>2, <1>7, <3>1, Ranges
    <3>2. CASE m # l
      <4>1. halfway'[m] = halfway[m] /\ halfway[m] \in Conns
        BY <1>1, <1>7, <3>2 DEF TypeOK
      <4> QED BY <1>1, <1>3, <1>7, <4>1 DEF Life, Stages
    <3> QED BY <3>1, <3>2
  <2>5. \A d \in Conns : d > accepted => state'[d] = "NONE"
    BY <1>1, <1>2, <1>7, Ranges DEF Life, Stages
  <2> QED BY <1>8, <2>2, <2>3, <2>4, <2>5 DEF Stages, LoopOf
<1>12. Kept'
  <2>1. ASSUME NEW d \in 1..accepted
        PROVE  /\ state'[d] \in {"NONE", "CONNECTED"} => d \in connMap
               /\ state'[d] = "closing" =>
                     d \in connMap \/ Task("destroy", d) \in Elements(ioQ'[LoopOf(d)])
    <3>1. CASE d = c
      BY <1>7, <3>1
    <3>2. CASE d # c
      <4>1. state'[d] = state[d] /\ Task("destroy", d) # task
        BY <1>1, <1>6, <1>7, <3>2, Ranges DEF Task
      <4>2. state[d] = "closing" => LoopOf(d) \in Loops
        BY <1>1 DEF Life, Selected, Open
      <4> QED BY <1>1, <1>6, <4>1, <4>2 DEF Life, Kept
    <3> QED BY <3>1, <3>2
  <2> QED BY <1>8, <2>1 DEF Kept, Task
<1>13. Selected'
  <2>1. ASSUME NEW m \in Loops, NEW fd \in Fds, chan'[m][fd] # None
        PROVE  LET d == chan'[m][fd] IN
               d <= accepted /\ state'[d] \in {"CONNECTED", "closing"} /\ LoopOf(d) = m /\ fdOf[d] = fd
    <3>1. chan'[m][fd] = chan[m][fd] /\ (m # l \/ fd # fdOf[c])
      BY <1>7, <2>1
    <3>2. /\ chan[m][fd] \in Conns /\ chan[m][fd] <= accepted /\ Open(chan[m][fd])
          /\ LoopOf(chan[m][fd]) = m /\ fdOf[chan[m][fd]] = fd
      BY <1>1, <2>1, <3>1 DEF TypeOK, Life, Selected
    <3>3. chan[m][fd] # c
      BY <1>2, <3>1, <3>2
    <3> QED BY <1>7, <3>1, <3>2, <3>3 DEF Open
  <2>2. ASSUME NEW d \in 1..accepted, state'[d] \in {"CONNECTED", "closing"}
        PROVE  LoopOf(d) \in Loops /\ chan'[LoopOf(d)][fdOf[d]] = d
    <3>1. d # c /\ Open(d)
      BY <1>1, <1>7, <2>2, Ranges DEF Open
    <3>2. LoopOf(d) \in Loops /\ chan[LoopOf(d)][fdOf[d]] = d /\ fdOf[d] \in Fds
      BY <1>1, <3>1, Ranges DEF Life, Selected, Owned, Holding, Open
    <3> QED BY <1>4, <1>7, <3>1, <3>2
  <2>3. \A m \in Loops : active'[m] \subseteq Channels(m)'
    <3> SUFFICES ASSUME NEW m \in Loops, NEW d \in active[m] PROVE d \in Channels(m)'
      BY <1>8
    <3>1. PICK fd \in Fds : chan[m][fd] = d /\ d # None
      BY <1>1 DEF Life, Selected, Channels
    <3>2. chan'[m][fd] = d
      BY <1>1, <1>7, <3>1
    <3> QED BY <3>1, <3>2 DEF Channels
  <2> QED BY <1>8, <2>1, <2>2, <2>3 DEF Selected, Open
<1>14. Owned'
  <2> SUFFICES ASSUME NEW d \in 1..accepted, Holding(d)'
               PROVE  fdOf[d] \in Fds /\ owner[fdOf[d]] = d
    BY <1>8 DEF Owned
  <2>1. Holding(d)
    BY <1>1, <1>2, <1>3, <1>7, Ranges DEF Holding
  <2> QED BY <1>1, <2>1 DEF Life, Owned
<1>15. AssertsHold'
  BY <1>1, <1>8 DEF Life, AssertsHold
<1> QED BY <1>9, <1>10, <1>11, <1>12, <1>13, <1>14, <1>15 DEF ServerInv, Life

\* The descriptor that is closed has left every Selector.
LEMMA CloseSocketKeeps ==
    ASSUME ServerInv, PoolInv', NEW l \in Loops, CloseSocket(l)
    PROVE  ServerInv'
<1> DEFINE c == halfway[l]
<1>1. TypeOK /\ Life /\ PoolTypeOK' /\ c # None
  BY DEF ServerInv, PoolInv, CloseSocket
<1>2. c \in 1..accepted /\ c \in Conns /\ LoopOf(c) = l /\ state[c] = "DISCONNECT"
  <2>1. c \in Conns
    BY <1>1 DEF TypeOK
  <2> QED BY <1>1, <2>1, Ranges DEF Life, Stages
<1>3. fdOf[c] \in Fds /\ owner[fdOf[c]] = c
  BY <1>1, <1>2 DEF Life, Owned, Holding
<1>4. /\ owner' = [owner EXCEPT ![fdOf[c]] = None]
      /\ halfway' = [halfway EXCEPT ![l] = None]
      /\ UNCHANGED <<poolVars, serverVars, connMap, serverQ, ioQ, fdOf, state, peerOpen, chan,
                     active, fault>>
  BY DEF CloseSocket, Destroy, Close
<1> HIDE DEF c
<1>5. /\ owner' \in [Fds -> Conns \cup {None}] /\ halfway' \in [Loops -> Conns \cup {None}]
      /\ \A fd \in Fds : fd # fdOf[c] => owner'[fd] = owner[fd]
      /\ halfway'[l] = None /\ \A m \in Loops \ {l} : halfway'[m] = halfway[m]
  BY <1>1, <1>3, <1>4 DEF TypeOK
<1>6. /\ UNCHANGED <<accepted, dealt, listening, backlog, started, fdOf, connMap, serverQ, ioQ,
                     state, peerOpen, chan, active, fault, unasked>>
      /\ IoTasks' = IoTasks /\ \A d : LoopOf(d)' = LoopOf(d)
  BY <1>4 DEF poolVars, serverVars, IoTasks, LoopOf
<1>7. TypeOK'
  <2>1. listening' \in BOOLEAN /\ (listening' => started')
    BY <1>1, <1>6, Zenon DEF TypeOK
  <2>2. \A m \in Loops : active'[m] = {} \/ halfway'[m] = None
    BY <1>1, <1>5, <1>6 DEF TypeOK
  <2> QED BY <1>1, <1>5, <1>6, <2>1, <2>2 DEF TypeOK, IoTasks
<1>8. Queues' /\ Kept' /\ Selected' /\ AssertsHold'
  BY <1>1, <1>6 DEF Life, Queues, Kept, Task, Selected, Open, Channels, AssertsHold
<1>9. Stages'
  <2>1. \A m \in Loops : halfway'[m] # None => halfway'[m] = halfway[m]
    BY <1>5
  <2> QED BY <1>1, <1>6, <2>1 DEF Life, Stages, LoopOf
<1>10. Owned'
  <2> SUFFICES ASSUME NEW d \in 1..accepted, Holding(d)'
               PROVE  fdOf[d] \in Fds /\ owner'[fdOf[d]] = d
    BY <1>6 DEF Owned
  <2>1. Holding(d) /\ d # c
    <3>1. CASE state[d] # "DISCONNECT"
      BY <1>2, <3>1 DEF Holding
    <3>2. CASE \E m \in Loops : halfway'[m] = d
      <4>1. PICK m \in Loops : halfway'[m] = d
        BY <3>2
      <4>2. d # None /\ m # l /\ halfway[m] = d
        BY <1>1, <1>5, <4>1, Ranges
      <4>3. LoopOf(d) = m
        BY <1>1, <4>2 DEF Life, Stages
      <4> QED BY <1>2, <4>2, <4>3 DEF Holding
    <3> QED BY <1>6, <3>1, <3>2 DEF Holding
  <2>2. fdOf[d] \in Fds /\ owner[fdOf[d]] = d
    BY <1>1, <2>1 DEF Life, Owned
  <2> QED BY <1>3, <1>5, <2>1, <2>2
<1> QED BY <1>7, <1>8, <1>9, <1>10 DEF ServerInv, Life

\* The invariant of the server, step by step.
LEMMA ServerInductive == ServerInv /\ PoolInv' /\ [Next]_vars => ServerInv'
<1> SUFFICES ASSUME ServerInv, PoolInv', [Next]_vars PROVE ServerInv'
  OBVIOUS
<1>1. CASE UNCHANGED vars
  BY <1>1, QuietSteps
<1>2. CASE ServerLoop
  BY <1>2, QuietSteps, NewConnectionKeeps, RemoveConnectionKeeps DEF ServerLoop
<1>3. ASSUME NEW l \in Loops, IoTask(l) PROVE ServerInv'
  BY <1>3, ConnectEstablishedKeeps, ConnectDestroyedKeeps, CloseSocketKeeps DEF IoTask
<1>4. ASSUME NEW l \in Loops, IoEvent(l) PROVE ServerInv'
  BY <1>4, QuietSteps, HandleEventsKeeps DEF IoEvent
<1>5. CASE Connect \/ \E c \in Conns : PeerCloses(c)
  BY <1>5, QuietSteps
<1> QED BY <1>1, <1>2, <1>3, <1>4, <1>5 DEF Next

LEMMA ServerInvariant == Spec => []ServerInv
<1>1. Spec => []PoolInv
  BY PoolInitInv, PoolInductive, PoolRefined, PTL DEF PoolSpec
<1> QED BY <1>1, ServerInitInv, ServerInductive, PTL DEF Spec

\* The state has its type, for any numbers of loops, connections and descriptors
\* (tcpserver.cpp:40-72).
THEOREM TypeCorrect == Spec => []TypeOK
<1>1. ServerInv => TypeOK
  BY DEF ServerInv
<1> QED BY <1>1, ServerInvariant, PTL

\* A channel that a Selector or a list of active channels can reach belongs to a
\* connection somebody holds: the map, until removeConnectionInLoop gives it to the
\* task that takes the channel away (tcpserver.cpp:59-72, tcpconnection.cpp:104-112).
THEOREM ReachableHeld == Spec => []ChannelsHeld
<1>1. ASSUME ServerInv PROVE ChannelsHeld
  <2>1. TypeOK /\ Life
    BY <1>1 DEF ServerInv
  <2> SUFFICES ASSUME NEW l \in Loops, NEW c \in Channels(l) PROVE Held(c)
    BY <2>1 DEF ChannelsHeld, Life, Selected
  <2>2. c \in 1..accepted /\ Open(c) /\ LoopOf(c) = l
    <3>1. PICK fd \in Fds : chan[l][fd] = c /\ c # None
      BY DEF Channels
    <3>2. c \in Conns
      BY <2>1, <3>1 DEF TypeOK
    <3> QED BY <2>1, <3>1, <3>2, Ranges DEF Life, Selected
  <2>3. c \in connMap \/ Task("destroy", c) \in Elements(ioQ[l])
    BY <2>1, <2>2 DEF Life, Kept, Open
  <2> QED BY <2>3 DEF Held, Task
<1> QED BY <1>1, ServerInvariant, PTL

\* The descriptor under which a Selector finds a channel is that channel's own socket,
\* although descriptors are accepted again on another thread (tcpconnection.cpp:
\* 109-111, selector.cpp:14-43).
THEOREM DescriptorsOwn == Spec => []OwnDescriptor
<1>1. ASSUME ServerInv PROVE OwnDescriptor
  <2>1. TypeOK /\ Life
    BY <1>1 DEF ServerInv
  <2> SUFFICES ASSUME NEW l \in Loops, NEW fd \in Fds, chan[l][fd] # None
               PROVE  owner[fd] = chan[l][fd] /\ LoopOf(chan[l][fd]) = l
    BY DEF OwnDescriptor
  <2>2. chan[l][fd] \in Conns
    BY <2>1 DEF TypeOK
  <2>3. /\ chan[l][fd] \in 1..accepted /\ Open(chan[l][fd])
        /\ LoopOf(chan[l][fd]) = l /\ fdOf[chan[l][fd]] = fd
    BY <2>1, <2>2, Ranges DEF Life, Selected
  <2> QED BY <2>1, <2>3 DEF Life, Owned, Holding, Open
<1> QED BY <1>1, ServerInvariant, PTL

\* The asserts along the life of a connection hold on whatever loops its steps run
\* (tcpserver.cpp:46-56, 68, tcpconnection.cpp:24, 107, selector.cpp:35-36).
THEOREM LifeAssertsHold == Spec => []AssertsHold
<1>1. ServerInv => AssertsHold
  BY DEF ServerInv, Life
<1> QED BY <1>1, ServerInvariant, PTL

-----------------------------------------------------------------------------
(* The course of a connection *)

\* No connection that is destroyed is in the map, and a channel is active only for the
\* end of its input.
Erased   == \A c \in Conns : state[c] = "DISCONNECT" => c \notin connMap
Reported == \A l \in Loops : active[l] \cap peerOpen = {}

CourseInv == ServerInv /\ Erased /\ Reported

\* A connection is held from the accept to the close, and at no other time.
HeldInCourse ==
    \A c \in Conns : Held(c) <=> Stage(c) \in {"accepted", "established", "ended"}

\* The stages one after the other.
StagedAt(c) ==
    Stage(c) = IF c > accepted THEN "none"
               ELSE IF state[c] = "NONE" THEN "accepted"
               ELSE IF state[c] = "CONNECTED" THEN "established"
               ELSE IF state[c] = "closing" \/ \E l \in Loops : halfway[l] = c THEN "ended"
               ELSE "gone"

Staged == \A c \in Conns : StagedAt(c)

InCourse == CourseInv /\ HeldInCourse /\ Staged

\* The map forgets a connection before it is destroyed.
LEMMA ErasedKept ==
    ASSUME ServerInv, Erased, [Next]_vars
    PROVE  Erased'
<1>1. TypeOK /\ Life
  BY DEF ServerInv
<1>2. CASE UNCHANGED <<state, connMap>>
  BY <1>2 DEF Erased
<1>3. CASE NewConnection
  <2>1. accepted + 1 \in Conns /\ state[accepted + 1] = "NONE"
    <3>1. backlog > 0 /\ backlog \in 0..MaxConns - accepted
      BY <1>1, <1>3 DEF NewConnection, TypeOK
    <3>2. accepted + 1 \in Conns /\ accepted + 1 > accepted
      BY <1>1, <3>1, Ranges
    <3> QED BY <1>1, <3>2 DEF Life, Stages
  <2>2. connMap' = connMap \cup {accepted + 1} /\ state' = state
    BY <1>3 DEF NewConnection, Keep
  <2> QED BY <2>1, <2>2 DEF Erased
<1>4. CASE RemoveConnectionInLoop
  <2>1. connMap' \subseteq connMap /\ state' = state
    BY <1>4 DEF RemoveConnectionInLoop, Fail, Erase
  <2> QED BY <2>1 DEF Erased
<1>5. ASSUME NEW l \in Loops, ConnectEstablished(l) PROVE Erased'
  <2>1. connMap' = connMap /\ (state' = state \/ \E c : state' = [state EXCEPT ![c] = "CONNECTED"])
    BY <1>5 DEF ConnectEstablished, Fail
  <2> QED BY <1>1, <2>1 DEF Erased, TypeOK
<1>6. ASSUME NEW l \in Loops, NEW c \in Conns, HandleEvents(l, c) PROVE Erased'
  <2>1. connMap' = connMap /\ (state' = state \/ state' = [state EXCEPT ![c] = "closing"])
    BY <1>6 DEF HandleEvents
  <2> QED BY <1>1, <2>1 DEF Erased, TypeOK
<1>7. ASSUME NEW l \in Loops, ConnectDestroyed(l) PROVE Erased'
  <2> DEFINE c == Head(ioQ[l]).conn
  <2>1. ioQ[l] # <<>> /\ Head(ioQ[l]).op = "destroy"
    BY <1>7 DEF ConnectDestroyed, IdleFor
  <2>2. Head(ioQ[l]) \in Elements(ioQ[l])
    BY <1>1, <2>1, QueuedAccepted, TaskTaken DEF Life, Queues
  <2>3. c \notin connMap
    BY <1>1, <2>1, <2>2 DEF Life, Stages
  <2>4. connMap' = connMap /\ (state' = state \/ state' = [state EXCEPT ![c] = "DISCONNECT"])
    BY <1>7 DEF ConnectDestroyed, Fail
  <2> QED BY <1>1, <2>3, <2>4 DEF Erased, TypeOK
<1>8. ASSUME \/ UNCHANGED vars \/ StartPool \/ Start \/ AcceptFails \/ Connect
             \/ \E l \in Loops : Select(l) \/ CloseSocket(l)
             \/ \E c \in Conns : PeerCloses(c)
      PROVE  UNCHANGED <<state, connMap>>
  BY <1>8 DEF vars, tcpVars, StartPool, Start, AcceptFails, Fail, Connect, Select, CloseSocket,
              PeerCloses
<1> QED BY <1>2, <1>3, <1>4, <1>5, <1>6, <1>7, <1>8 DEF Next, ServerLoop, IoTask, IoEvent

\* A peer that has closed stays closed.
LEMMA ReportedKept ==
    ASSUME ServerInv, Reported, [Next]_vars
    PROVE  Reported'
<1>1. TypeOK
  BY DEF ServerInv
<1>2. peerOpen' \subseteq peerOpen
  BY DEF Next, vars, tcpVars, kernelVars, ServerLoop, StartPool, Start, NewConnection,
         AcceptFails, Fail, RemoveConnectionInLoop, IoTask, ConnectEstablished,
         ConnectDestroyed, CloseSocket, IoEvent, Select, HandleEvents, Connect, PeerCloses
<1>3. \/ UNCHANGED active
      \/ \E l \in Loops : active' = [active EXCEPT ![l] = Channels(l) \ peerOpen]
      \/ \E l \in Loops, c \in Conns : active' = [active EXCEPT ![l] = @ \ {c}]
  BY DEF Next, vars, tcpVars, kernelVars, ServerLoop, StartPool, Start, NewConnection,
         AcceptFails, Fail, RemoveConnectionInLoop, IoTask, ConnectEstablished,
         ConnectDestroyed, CloseSocket, IoEvent, Select, HandleEvents, Connect, PeerCloses
<1>4. \A l \in Loops : active'[l] \subseteq active[l] \/ active'[l] \cap peerOpen = {}
  BY <1>1, <1>3 DEF TypeOK
<1> QED BY <1>2, <1>4 DEF Reported

LEMMA CourseInvariant == Spec => []CourseInv
<1>1. Init => Erased /\ Reported
  BY DEF Init, Erased, Reported
<1>2. ServerInv /\ Erased /\ Reported /\ [Next]_vars => Erased' /\ Reported'
  BY ErasedKept, ReportedKept
<1>3. ServerInv /\ Erased /\ Reported => CourseInv
  BY DEF CourseInv
<1> QED BY <1>1, <1>2, <1>3, ServerInvariant, PTL DEF Spec

\* No connection is at two stages.
LEMMA StageIs == ServerInv => Staged
<1> SUFFICES ASSUME ServerInv, NEW c \in Conns PROVE StagedAt(c)
  BY DEF Staged
<1> USE DEF StagedAt
<1>0. TypeOK /\ Life
  BY DEF ServerInv
<1>1. accepted \in Nat /\ c \in Nat /\ (c <= accepted <=> ~(c > accepted))
  BY <1>0, Ranges DEF Conns
<1> DEFINE Past == state[c] = "closing" \/ \E l \in Loops : halfway[l] = c
<1>2. Stage(c) =
        CASE c > accepted -> "none"
          [] c <= accepted /\ state[c] = "NONE" -> "accepted"
          [] c <= accepted /\ state[c] = "CONNECTED" -> "established"
          [] c <= accepted /\ Past -> "ended"
          [] OTHER -> "gone"
  BY DEF Stage
<1>3. Past => state[c] \notin {"NONE", "CONNECTED"}
  BY <1>0 DEF Past, Life, Stages, None, Conns
<1> HIDE DEF Past
<1>4. CASE c > accepted
  BY <1>1, <1>2, <1>4
<1>5. CASE c <= accepted /\ state[c] = "NONE"
  BY <1>1, <1>2, <1>3, <1>5
<1>6. CASE c <= accepted /\ state[c] = "CONNECTED"
  BY <1>1, <1>2, <1>3, <1>6
<1>7. CASE c <= accepted /\ Past
  BY <1>1, <1>2, <1>3, <1>7 DEF Past
<1>8. CASE c <= accepted /\ state[c] \notin {"NONE", "CONNECTED"} /\ ~Past
  BY <1>1, <1>2, <1>3, <1>8 DEF Past
<1> QED BY <1>1, <1>4, <1>5, <1>6, <1>7, <1>8

\* The map holds a connection until it is removed, then its task, and then nobody.
LEMMA HolderInCourse == CourseInv => HeldInCourse
<1> SUFFICES ASSUME CourseInv, NEW c \in Conns
             PROVE  Held(c) <=> Stage(c) \in {"accepted", "established", "ended"}
  BY DEF HeldInCourse
<1>1. TypeOK /\ Life /\ Erased /\ StagedAt(c)
  BY StageIs DEF CourseInv, ServerInv, Staged
<1>2. /\ accepted \in Nat /\ c \in Nat /\ c # None
      /\ state[c] \in {"NONE", "CONNECTED", "closing", "DISCONNECT"}
      /\ c > accepted <=> c \notin 1..accepted
  <2>1. accepted \in Nat /\ MaxConns \in Nat /\ Conns = 1..MaxConns
    BY <1>1, Ranges
  <2> QED BY <1>1, <2>1 DEF TypeOK, None
<1>3. CASE c > accepted
  <2>1. c \notin connMap /\ c \notin Elements(serverQ)
    BY <1>1, <1>2, <1>3, QueuedAccepted DEF TypeOK
  <2>2. \A l \in Loops : \A task \in Elements(ioQ[l]) : task.conn # c
    BY <1>1, <1>2, <1>3, QueuedAccepted DEF IoTasks
  <2>3. \A l \in Loops : c # halfway[l]
    BY <1>1, <1>2, <1>3 DEF Life, Stages
  <2>4. Stage(c) = "none"
    BY <1>1, <1>3 DEF StagedAt
  <2> QED BY <2>1, <2>2, <2>3, <2>4 DEF Held
<1>4. CASE c \in 1..accepted /\ state[c] \in {"NONE", "CONNECTED"}
  <2>1. Held(c)
    BY <1>1, <1>4 DEF Life, Kept, Held
  <2>2. Stage(c) \in {"accepted", "established"}
    BY <1>1, <1>2, <1>4 DEF StagedAt
  <2> QED BY <2>1, <2>2
<1>5. CASE c \in 1..accepted /\ state[c] = "closing"
  <2>1. LoopOf(c) \in Loops
    BY <1>1, <1>5 DEF Life, Selected, Open
  <2>2. Held(c)
    BY <1>1, <1>5, <2>1 DEF Life, Kept, Held, Task
  <2>3. Stage(c) = "ended"
    BY <1>1, <1>2, <1>5 DEF StagedAt
  <2> QED BY <2>2, <2>3
<1>6. CASE c \in 1..accepted /\ state[c] = "DISCONNECT"
  <2>1. c \notin connMap /\ c \notin Elements(serverQ)
    BY <1>1, <1>6 DEF Erased, Life, Stages
  <2>2. \A l \in Loops : \A task \in Elements(ioQ[l]) : task.conn # c
    BY <1>1, <1>6 DEF Life, Stages
  <2>3. Held(c) <=> \E l \in Loops : halfway[l] = c
    BY <2>1, <2>2 DEF Held
  <2>4. Stage(c) = IF \E l \in Loops : halfway[l] = c THEN "ended" ELSE "gone"
    BY <1>1, <1>2, <1>6 DEF StagedAt
  <2> QED BY <2>3, <2>4
<1> QED BY <1>2, <1>3, <1>4, <1>5, <1>6

LEMMA CourseKnown == Spec => []InCourse
<1>1. CourseInv => InCourse
  BY HolderInCourse, StageIs DEF InCourse, CourseInv
<1> QED BY <1>1, CourseInvariant, PTL

\* A step of one connection in its course.
LEMMA OneStep ==
    ASSUME HeldInCourse, HeldInCourse', NEW c \in Conns, NEW from, NEW to,
           Stage(c) = from, Stage(c)' = to, \A d \in Conns \ {c} : Stage(d)' = Stage(d)
    PROVE  /\ Course!Step(c, from, to)
           /\ to \in {"accepted", "established", "ended"} =>
                 {d \in Conns : Held(d)}' = {d \in Conns : Held(d)} \cup {c}
           /\ to = "gone" => {d \in Conns : Held(d)}' = {d \in Conns : Held(d)} \ {c}
<1>1. Course!Step(c, from, to)
  BY DEF Course!Step
<1>2. \A d \in Conns \ {c} : Held(d)' <=> Held(d)
  BY DEF HeldInCourse
<1>3. Held(c)' <=> to \in {"accepted", "established", "ended"}
  BY DEF HeldInCourse
<1> QED BY <1>1, <1>2, <1>3

\* No step of any connection.
LEMMA NoStep ==
    ASSUME HeldInCourse, HeldInCourse', \A c \in Conns : Stage(c)' = Stage(c)
    PROVE  UNCHANGED <<[c \in Conns |-> Stage(c)], {c \in Conns : Held(c)}>>
<1>1. \A c \in Conns : Held(c)' <=> Held(c)
  BY DEF HeldInCourse
<1> QED BY <1>1

\* Accepting takes the first connection that is not accepted yet to its course.
LEMMA AcceptStep ==
    ASSUME InCourse, InCourse', NewConnection
    PROVE  \E c \in Conns : Course!Accept(c)
<1>1. /\ TypeOK /\ Life /\ HeldInCourse /\ HeldInCourse' /\ Staged /\ Staged'
  BY DEF InCourse, CourseInv, ServerInv
<1>2. accepted \in Nat /\ accepted + 1 \in Conns /\ \A d \in Conns : d \in Nat
  <2>1. backlog > 0 /\ backlog \in 0..MaxConns - accepted
    BY <1>1 DEF NewConnection, TypeOK
  <2> QED BY <1>1, <2>1, Ranges
<1> PICK c \in Conns : c = accepted + 1
  BY <1>2
<1>3. /\ accepted' = c /\ UNCHANGED <<state, halfway, peerOpen>>
      /\ \E fd \in Fds : owner[fd] = None /\ owner' = [owner EXCEPT ![fd] = c]
  BY DEF NewConnection
<1>4. state[c] = "NONE"
  BY <1>1, <1>2 DEF Life, Stages
<1>5. Stage(c) = "none" /\ Stage(c)' = "accepted"
  BY <1>1, <1>2, <1>3, <1>4 DEF Staged, StagedAt
<1>6. \A d \in Conns \ {c} : Stage(d)' = Stage(d)
  <2> TAKE d \in Conns \ {c}
  <2>1. d > accepted <=> d > accepted'
    BY <1>2, <1>3
  <2>2. StagedAt(d) /\ StagedAt(d)'
    BY <1>1 DEF Staged
  <2> QED BY <1>3, <2>1, <2>2 DEF StagedAt
<1>7. \A d \in Conns : d < c => Stage(d) # "none"
  BY <1>1, <1>2 DEF Staged, StagedAt
<1>8. /\ Course!Step(c, "none", "accepted")
      /\ {d \in Conns : Held(d)}' = {d \in Conns : Held(d)} \cup {c}
  BY <1>1, <1>5, <1>6, OneStep
<1> QED BY <1>2, <1>3, <1>7, <1>8 DEF Course!Accept

\* connectEstablished is the second step of a connection.
LEMMA EstablishStep ==
    ASSUME InCourse, InCourse', NEW l \in Loops, ConnectEstablished(l)
    PROVE  \E c \in Conns : Course!Establish(c)
<1>1. /\ TypeOK /\ Life /\ HeldInCourse /\ HeldInCourse' /\ Staged /\ Staged'
      /\ ioQ[l] # <<>> /\ Head(ioQ[l]).op = "establish"
  BY DEF InCourse, CourseInv, ServerInv, ConnectEstablished, IdleFor
<1>2. Head(ioQ[l]) \in Elements(ioQ[l]) /\ Head(ioQ[l]).conn \in 1..accepted
  <2>1. Head(ioQ[l]) \in Elements(ioQ[l])
    BY <1>1, QueuedAccepted, TaskTaken DEF Life, Queues
  <2> QED BY <1>1, <2>1, QueuedAccepted DEF IoTasks
<1> PICK c \in 1..accepted : c = Head(ioQ[l]).conn
  BY <1>2
<1>3. state[c] = "NONE" /\ c \in Conns /\ ~(c > accepted)
  BY <1>1, <1>2, Ranges DEF Life, Stages
<1>4. /\ state' = [state EXCEPT ![c] = "CONNECTED"]
      /\ UNCHANGED <<accepted, halfway, owner, peerOpen>>
  BY <1>3 DEF ConnectEstablished, serverVars, kernelVars
<1>5. state'[c] = "CONNECTED" /\ \A d \in Conns \ {c} : state'[d] = state[d]
  BY <1>1, <1>3, <1>4 DEF TypeOK
<1>6. Stage(c) = "accepted" /\ Stage(c)' = "established"
  BY <1>1, <1>3, <1>4, <1>5 DEF Staged, StagedAt
<1>7. \A d \in Conns \ {c} : Stage(d)' = Stage(d)
  BY <1>1, <1>4, <1>5 DEF Staged, StagedAt
<1>8. /\ Course!Step(c, "accepted", "established")
      /\ {d \in Conns : Held(d)}' = {d \in Conns : Held(d)} \cup {c}
  BY <1>1, <1>3, <1>6, <1>7, OneStep
<1>9. Held(c)
  BY <1>1, <1>3, <1>6 DEF HeldInCourse
<1> QED BY <1>3, <1>4, <1>8, <1>9 DEF Course!Establish

\* handleClose ends a connection whose peer has closed, once.
LEMMA EndStep ==
    ASSUME InCourse, InCourse', NEW l \in Loops, NEW c \in Conns, HandleEvents(l, c), ReportsEnd(c)
    PROVE  Course!End(c)
<1>1. /\ TypeOK /\ Life /\ Reported /\ HeldInCourse /\ HeldInCourse' /\ Staged /\ Staged'
  BY DEF InCourse, CourseInv, ServerInv
<1>2. /\ state[c] = "CONNECTED" /\ c \in active[l]
      /\ state' = [state EXCEPT ![c] = "closing"]
      /\ UNCHANGED <<accepted, halfway, owner, peerOpen>>
  BY DEF HandleEvents, ReportsEnd, serverVars, kernelVars
<1>3. c \notin peerOpen /\ ~(c > accepted)
  BY <1>1, <1>2 DEF Reported, Life, Stages
<1>4. state'[c] = "closing" /\ \A d \in Conns \ {c} : state'[d] = state[d]
  BY <1>1, <1>2 DEF TypeOK
<1>5. Stage(c) = "established" /\ Stage(c)' = "ended"
  BY <1>1, <1>2, <1>3, <1>4 DEF Staged, StagedAt
<1>6. \A d \in Conns \ {c} : Stage(d)' = Stage(d)
  BY <1>1, <1>2, <1>4 DEF Staged, StagedAt
<1>7. /\ Course!Step(c, "established", "ended")
      /\ {d \in Conns : Held(d)}' = {d \in Conns : Held(d)} \cup {c}
  BY <1>1, <1>5, <1>6, OneStep
<1>8. Held(c)
  BY <1>1, <1>5 DEF HeldInCourse
<1> QED BY <1>2, <1>3, <1>7, <1>8 DEF Course!End

\* With the close of its own descriptor a connection leaves, and nobody holds it.
LEMMA LeaveStep ==
    ASSUME InCourse, InCourse', NEW l \in Loops, CloseSocket(l)
    PROVE  \E c \in Conns : Course!Leave(c)
<1>1. /\ TypeOK /\ Life /\ HeldInCourse /\ HeldInCourse' /\ Staged /\ Staged'
      /\ halfway[l] # None
  BY DEF InCourse, CourseInv, ServerInv, CloseSocket
<1> PICK c \in Conns : c = halfway[l]
  BY <1>1 DEF TypeOK
<1>2. c \in 1..accepted /\ ~(c > accepted) /\ LoopOf(c) = l /\ state[c] = "DISCONNECT"
  BY <1>1, Ranges DEF Life, Stages
<1>3. fdOf[c] \in Fds /\ owner[fdOf[c]] = c
  BY <1>1, <1>2 DEF Life, Owned, Holding
<1>4. /\ owner' = [owner EXCEPT ![fdOf[c]] = None]
      /\ halfway' = [halfway EXCEPT ![l] = None]
      /\ UNCHANGED <<accepted, state, peerOpen>>
  BY DEF CloseSocket, Destroy, Close, serverVars
<1>5. halfway'[l] = None /\ \A m \in Loops \ {l} : halfway'[m] = halfway[m]
  BY <1>1, <1>4 DEF TypeOK
<1>6. \A m \in Loops : halfway'[m] # c
  <2> TAKE m \in Loops
  <2>1. CASE m = l
    BY <1>1, <1>5, <2>1
  <2>2. CASE m # l
    BY <1>1, <1>2, <1>5, <2>2 DEF Life, Stages
  <2> QED BY <2>1, <2>2
<1>7. Stage(c) = "ended" /\ Stage(c)' = "gone"
  BY <1>1, <1>2, <1>4, <1>6 DEF Staged, StagedAt
<1>8. \A d \in Conns \ {c} : Stage(d)' = Stage(d)
  <2> TAKE d \in Conns \ {c}
  <2>1. (\E m \in Loops : halfway'[m] = d) <=> \E m \in Loops : halfway[m] = d
    BY <1>1, <1>5, Ranges
  <2>2. StagedAt(d) /\ StagedAt(d)'
    BY <1>1 DEF Staged
  <2> QED BY <1>4, <2>1, <2>2 DEF StagedAt
<1>9. /\ Course!Step(c, "ended", "gone")
      /\ {d \in Conns : Held(d)}' = {d \in Conns : Held(d)} \ {c}
  BY <1>1, <1>7, <1>8, OneStep
<1> QED BY <1>3, <1>4, <1>9 DEF Course!Leave

\* Asking the server's map to forget a connection and taking its channel out of the
\* Selector are no steps of its course.
LEMMA RestIsQuiet ==
    ASSUME InCourse, InCourse',
           \/ UNCHANGED vars \/ StartPool \/ Start \/ AcceptFails \/ RemoveConnectionInLoop
           \/ Connect
           \/ \E l \in Loops : Select(l) \/ ConnectDestroyed(l)
           \/ \E l \in Loops, c \in Conns : HandleEvents(l, c) /\ ~ReportsEnd(c)
    PROVE  UNCHANGED Course!lifeVars
<1>1. TypeOK /\ Life /\ HeldInCourse /\ HeldInCourse' /\ Staged /\ Staged'
  BY DEF InCourse, CourseInv, ServerInv
<1>2. UNCHANGED <<accepted, owner, peerOpen>>
  BY DEF vars, tcpVars, serverVars, kernelVars, StartPool, Start, AcceptFails, Fail,
         RemoveConnectionInLoop, Connect, Select, ConnectDestroyed, Destroy, HandleEvents
<1>3. CASE UNCHANGED <<state, halfway>>
  <2>1. \A c \in Conns : Stage(c)' = Stage(c)
    BY <1>1, <1>2, <1>3 DEF Staged, StagedAt
  <2> QED BY <1>1, <1>2, <2>1, NoStep DEF Course!lifeVars
<1>4. ASSUME NEW l \in Loops, ConnectDestroyed(l), ~UNCHANGED <<state, halfway>>
      PROVE  UNCHANGED Course!lifeVars
  <2>1. /\ ioQ[l] # <<>> /\ Head(ioQ[l]).op = "destroy" /\ halfway[l] = None
    BY <1>4 DEF ConnectDestroyed, IdleFor
  <2>2. Head(ioQ[l]) \in Elements(ioQ[l]) /\ Head(ioQ[l]).conn \in 1..accepted
    <3>1. Head(ioQ[l]) \in Elements(ioQ[l])
      BY <1>1, <2>1, QueuedAccepted, TaskTaken DEF Life, Queues
    <3> QED BY <1>1, <3>1, QueuedAccepted DEF IoTasks
  <2> PICK c \in 1..accepted : c = Head(ioQ[l]).conn
    BY <2>2
  <2>3. state[c] = "closing" /\ c \in Conns /\ ~(c > accepted)
    BY <1>1, <2>1, <2>2, Ranges DEF Life, Stages
  <2>4. /\ state' = [state EXCEPT ![c] = "DISCONNECT"]
        /\ halfway' = [halfway EXCEPT ![l] = c]
    BY <1>4 DEF ConnectDestroyed, Fail
  <2>5. /\ state'[c] = "DISCONNECT" /\ \A d \in Conns \ {c} : state'[d] = state[d]
        /\ halfway'[l] = c /\ \A m \in Loops \ {l} : halfway'[m] = halfway[m]
    BY <1>1, <2>3, <2>4 DEF TypeOK
  <2>6. Stage(c) = "ended" /\ Stage(c)' = "ended"
    BY <1>1, <1>2, <2>3, <2>5 DEF Staged, StagedAt
  <2>7. \A d \in Conns \ {c} : Stage(d)' = Stage(d)
    <3> TAKE d \in Conns \ {c}
    <3>1. (\E m \in Loops : halfway'[m] = d) <=> \E m \in Loops : halfway[m] = d
      BY <1>1, <2>1, <2>5, Ranges
    <3>2. StagedAt(d) /\ StagedAt(d)'
      BY <1>1 DEF Staged
    <3> QED BY <1>2, <2>5, <3>1, <3>2 DEF StagedAt
  <2>8. \A d \in Conns : Stage(d)' = Stage(d)
    BY <2>6, <2>7
  <2> QED BY <1>1, <1>2, <2>8, NoStep DEF Course!lifeVars
<1>5. \/ UNCHANGED <<state, halfway>>
      \/ \E l \in Loops : ConnectDestroyed(l)
  BY DEF vars, tcpVars, StartPool, Start, AcceptFails, Fail, RemoveConnectionInLoop, Connect,
         Select, HandleEvents
<1> QED BY <1>3, <1>4, <1>5

LEMMA CourseStep ==
    ASSUME InCourse, InCourse', [Next]_vars
    PROVE  [Course!Next]_(Course!lifeVars)
<1>1. CASE NewConnection
  BY <1>1, AcceptStep DEF Course!Next
<1>2. ASSUME NEW l \in Loops, ConnectEstablished(l) PROVE Course!Next
  BY <1>2, EstablishStep DEF Course!Next
<1>3. ASSUME NEW l \in Loops, NEW c \in Conns, HandleEvents(l, c)
      PROVE  [Course!Next]_(Course!lifeVars)
  BY <1>3, EndStep, RestIsQuiet DEF Course!Next
<1>4. ASSUME NEW l \in Loops, CloseSocket(l) PROVE Course!Next
  BY <1>4, LeaveStep DEF Course!Next
<1>5. ASSUME NEW c \in Conns, PeerCloses(c) PROVE Course!PeerCloses(c)
  <2>1. c \in peerOpen /\ peerOpen' = peerOpen \ {c} /\ UNCHANGED <<accepted, state, halfway, owner>>
    BY <1>5 DEF PeerCloses, serverVars
  <2>2. HeldInCourse /\ HeldInCourse' /\ Staged /\ Staged'
    BY DEF InCourse
  <2>3. \A d \in Conns : Stage(d)' = Stage(d)
    BY <2>1, <2>2 DEF Staged, StagedAt
  <2> QED BY <2>1, <2>2, <2>3, NoStep DEF Course!PeerCloses
<1>6. ASSUME \/ UNCHANGED vars \/ StartPool \/ Start \/ AcceptFails
             \/ RemoveConnectionInLoop \/ Connect
             \/ \E l \in Loops : Select(l) \/ ConnectDestroyed(l)
      PROVE  UNCHANGED Course!lifeVars
  BY <1>6, RestIsQuiet
<1> QED
  BY <1>1, <1>2, <1>3, <1>4, <1>5, <1>6 DEF Next, ServerLoop, IoTask, IoEvent, Course!Next

\* Every connection is accepted, established, ended by its peer and gone, in this order
\* and each once, whatever the loops and threads do in between; from the first to the
\* last it is held and has its descriptor, and not longer (tcpserver.cpp:40-72,
\* tcpconnection.cpp:21-30, 104-112).
THEOREM CourseRefined == Spec => LifeSpec
<1>1. Init => Course!Init
  <2> SUFFICES ASSUME Init PROVE Course!Init
    OBVIOUS
  <2>1. \A c \in Conns : Stage(c) = "none"
    BY PoolAssumption DEF Init, Stage, Conns
  <2>2. Elements(<<>>) = {}
    BY DEF Elements
  <2>3. \A c \in Conns : ~Held(c)
    BY <2>2, PoolAssumption DEF Init, Held, Conns, None
  <2> QED BY <2>1, <2>3 DEF Init, Course!Init
<1>2. InCourse /\ InCourse' /\ [Next]_vars => [Course!Next]_(Course!lifeVars)
  BY CourseStep
<1> QED BY <1>1, <1>2, CourseKnown, PTL DEF Spec, LifeSpec, Course!LifeSpec
=============================================================================
