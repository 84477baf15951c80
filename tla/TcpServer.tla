------------------------------ MODULE TcpServer ------------------------------
(***************************************************************************)
(* tcp/tcpserver.cpp and acceptor.cpp with the pool of io loops, module    *)
(* EventLoopThreadPool.  Once start has started the pool, connections are  *)
(* accepted on the server's loop, dealt out to the io loops, established   *)
(* there, removed from the server's map on the server's loop and destroyed *)
(* on their io loop again.  Each loop is a mailbox (module Mailbox, which  *)
(* EventLoop implements) next to a Selector, the map from descriptors to   *)
(* channels; descriptors are reused as soon as they are closed.            *)
(*                                                                         *)
(* What happens on an established connection is TcpConnection's business;  *)
(* here it is open until the peer closes it, and user code keeps to what   *)
(* makes TcpConnection!RemovedOnce hold.                                   *)
(***************************************************************************)
EXTENDS EventLoopThreadPool, FiniteSets

CONSTANT Fds            \* descriptors the process may have open for connections

\* N is LOOP_POOL_SIZE.
ASSUME ServerAssumption == N # 0 /\ Fds \subseteq Nat \ {0}

Conns == 1..MaxConns
None  == 0

VARIABLES listening,   \* Acceptor::m_listenning
          backlog,     \* connections the kernel holds for accept
          accepted,    \* m_nextConnectionId: connections 1..accepted exist
          connMap,     \* m_connectionMaps
          serverQ,     \* removeConnectionInLoop tasks on the server's loop
          ioQ,         \* tasks of each io loop
          fdOf,        \* each connection's m_sockfd
          state,       \* each connection's m_state; "closing" after handleClose
          peerOpen,    \* connections whose peer has not closed
          owner,       \* kernel: whose socket a descriptor is
          chan,        \* each Selector's m_channelMaps
          active,      \* each loop's m_activeChannelList
          halfway,     \* each loop: the connection connectDestroyed is closing
          fault        \* "none", or where the program died

tcpVars == <<listening, backlog, accepted, connMap, serverQ, ioQ, fdOf,
          state, peerOpen, owner, chan, active, halfway, fault>>
vars == <<poolVars, tcpVars>>

serverVars == <<listening, backlog, accepted>>
kernelVars == <<peerOpen, owner>>

Running == fault = "none"

Task(op, c) == [op |-> op, conn |-> c]

Elements(q) == {q[k] : k \in DOMAIN q}

\* Each connection's m_eventLoop: the loop getNextLoop gave out for it.
LoopOf(c) == dealt[c]

Channels(l) == {chan[l][fd] : fd \in Fds} \ {None}

Fail(where) ==
    /\ fault' = where
    /\ UNCHANGED <<poolVars, serverVars, connMap, serverQ, ioQ, fdOf, state, kernelVars,
                   chan, active, halfway>>

-----------------------------------------------------------------------------
(* The server's loop *)

\* start: the pool, and then Acceptor::listen (its second call changes nothing).
StartPool == Running /\ PoolStarts /\ UNCHANGED tcpVars

Start ==
    /\ Running
    /\ started /\ ~listening
    /\ listening' = TRUE
    /\ UNCHANGED <<poolVars, backlog, accepted, connMap, serverQ, ioQ, fdOf, state, kernelVars,
                   chan, active, halfway, fault>>

\* mutant: the connection is not kept by the server
KeepNot(c) == UNCHANGED connMap

Keep(c) == connMap' = connMap \cup {c}

\* Acceptor::accept and TcpServer::newConnection.  A task for no loop at all is one
\* for a null pointer.
NewConnection ==
    /\ Running
    /\ listening /\ backlog > 0
    /\ GetNextLoop
    /\ LET c == accepted + 1
           ioLoop == loops[next]
       IN  \E fd \in {f \in Fds : owner[f] = None} :
             /\ backlog' = backlog - 1
             /\ accepted' = c
             /\ owner' = [owner EXCEPT ![fd] = c]
             /\ fdOf' = [fdOf EXCEPT ![c] = fd]
             /\ Keep(c)
             /\ IF ioLoop = Null THEN fault' = "newConnection" /\ UNCHANGED ioQ
                ELSE /\ ioQ' = [ioQ EXCEPT ![ioLoop] = Append(@, Task("establish", c))]
                     /\ UNCHANGED fault
    /\ UNCHANGED <<listening, serverQ, state, peerOpen, chan, active, halfway>>

\* accept fails when no descriptor is left, and that is fatal.
AcceptFails ==
    /\ Running
    /\ listening /\ backlog > 0
    /\ \A fd \in Fds : owner[fd] # None
    /\ Fail("accept")

\* mutant: the connection stays in the map
EraseNot(c) == UNCHANGED connMap

Erase(c) == connMap' = connMap \ {c}

RemoveConnectionInLoop ==
    /\ Running
    /\ serverQ # <<>>
    /\ LET c == Head(serverQ)
       IN  IF c \notin connMap THEN Fail("removeConnectionInLoop")
           ELSE /\ serverQ' = Tail(serverQ)
                /\ Erase(c)
                /\ ioQ' = [ioQ EXCEPT ![LoopOf(c)] = Append(@, Task("destroy", c))]
                /\ UNCHANGED <<poolVars, serverVars, fdOf, state, kernelVars, chan, active,
                               halfway, fault>>

-----------------------------------------------------------------------------
(* An io loop.  It runs tasks when it has handled the channels of a round. *)

\* Selector::updateChannel: a descriptor that is already in the map keeps the
\* channel it has there.
UpdateChannel(l, c) ==
    chan' = [chan EXCEPT ![l][fdOf[c]] = IF @ = None THEN c ELSE @]

IdleFor(l, op) ==
    /\ Running
    /\ thread[l] = "looping"
    /\ active[l] = {} /\ halfway[l] = None
    /\ ioQ[l] # <<>> /\ Head(ioQ[l]).op = op

ConnectEstablished(l) ==
    /\ IdleFor(l, "establish")
    /\ LET c == Head(ioQ[l]).conn
       IN  IF state[c] # "NONE" THEN Fail("connectEstablished")
           ELSE /\ state' = [state EXCEPT ![c] = "CONNECTED"]
                /\ UpdateChannel(l, c)
                /\ ioQ' = [ioQ EXCEPT ![l] = Tail(@)]
                /\ UNCHANGED <<poolVars, serverVars, connMap, serverQ, fdOf, kernelVars,
                               active, halfway, fault>>

\* epoll_wait: a closed peer is reported as input, and after handleClose, when
\* the channel asks for nothing, still as a hang-up.
Select(l) ==
    /\ Running
    /\ thread[l] = "looping"
    /\ active[l] = {} /\ halfway[l] = None
    /\ active' = [active EXCEPT ![l] = Channels(l) \ peerOpen]
    /\ active'[l] # {}
    /\ UNCHANGED <<poolVars, serverVars, connMap, serverQ, ioQ, fdOf, state, kernelVars,
                   chan, halfway, fault>>

\* mutant: a hang-up is taken for the end of the input again
ReportsEndAlways(c) == TRUE

\* Only a channel that asks for input has it reported; a hang-up has no handler.
ReportsEnd(c) == state[c] = "CONNECTED"

\* handleEvents: TcpConnection::handleRead at the end of the input, handleClose
\* and, through the close callback, removeConection.
HandleEvents(l, c) ==
    /\ Running
    /\ c \in active[l]
    /\ active' = [active EXCEPT ![l] = @ \ {c}]
    /\ IF ReportsEnd(c)
         THEN /\ state' = [state EXCEPT ![c] = "closing"]
              /\ UpdateChannel(l, c)
              /\ serverQ' = Append(serverQ, c)
         ELSE UNCHANGED <<state, chan, serverQ>>
    /\ UNCHANGED <<poolVars, serverVars, connMap, ioQ, fdOf, kernelVars, halfway, fault>>

\* connectDestroyed leaves the Selector and then closes the descriptor; other
\* threads may run in between.
Leave(l, c) == chan' = [chan EXCEPT ![l][fdOf[c]] = None]

\* mutant: the descriptor stays open
CloseNot(fd) == UNCHANGED owner

Close(fd) == owner' = [owner EXCEPT ![fd] = None]

\* mutant: the two in the other order
DestroySwapped(step, l, c) ==
    IF step = 2 THEN Leave(l, c) /\ UNCHANGED owner ELSE Close(fdOf[c]) /\ UNCHANGED chan

Destroy(step, l, c) ==
    IF step = 1 THEN Leave(l, c) /\ UNCHANGED owner ELSE Close(fdOf[c]) /\ UNCHANGED chan

ConnectDestroyed(l) ==
    /\ IdleFor(l, "destroy")
    /\ LET c == Head(ioQ[l]).conn
       IN  IF state[c] \notin {"CONNECTED", "closing"} THEN Fail("connectDestroyed")
           ELSE IF chan[l][fdOf[c]] # c THEN Fail("removeChannel")
           ELSE /\ state' = [state EXCEPT ![c] = "DISCONNECT"]
                /\ Destroy(1, l, c)
                /\ halfway' = [halfway EXCEPT ![l] = c]
                /\ ioQ' = [ioQ EXCEPT ![l] = Tail(@)]
                /\ UNCHANGED <<poolVars, serverVars, connMap, serverQ, fdOf, peerOpen,
                               active, fault>>

CloseSocket(l) ==
    /\ Running
    /\ halfway[l] # None
    /\ Destroy(2, l, halfway[l])
    /\ halfway' = [halfway EXCEPT ![l] = None]
    /\ UNCHANGED <<poolVars, serverVars, connMap, serverQ, ioQ, fdOf, state, peerOpen,
                   active, fault>>

-----------------------------------------------------------------------------
(* Clients *)

Connect ==
    /\ Running
    /\ listening
    /\ accepted + backlog < MaxConns
    /\ backlog' = backlog + 1
    /\ UNCHANGED <<poolVars, listening, accepted, connMap, serverQ, ioQ, fdOf, state,
                   kernelVars, chan, active, halfway, fault>>

PeerCloses(c) ==
    /\ Running
    /\ c \in peerOpen /\ c <= accepted + backlog
    /\ peerOpen' = peerOpen \ {c}
    /\ UNCHANGED <<poolVars, serverVars, connMap, serverQ, ioQ, fdOf, state, owner, chan,
                   active, halfway, fault>>

-----------------------------------------------------------------------------

Init ==
    /\ PoolInit
    /\ listening = FALSE /\ backlog = 0 /\ accepted = 0
    /\ connMap = {} /\ serverQ = <<>>
    /\ ioQ = [l \in Loops |-> <<>>]
    /\ fdOf = [c \in Conns |-> None]
    /\ state = [c \in Conns |-> "NONE"]
    /\ peerOpen = Conns
    /\ owner = [fd \in Fds |-> None]
    /\ chan = [l \in Loops |-> [fd \in Fds |-> None]]
    /\ active = [l \in Loops |-> {}]
    /\ halfway = [l \in Loops |-> None]
    /\ fault = "none"

ServerLoop == StartPool \/ Start \/ NewConnection \/ AcceptFails \/ RemoveConnectionInLoop

IoTask(l) == ConnectEstablished(l) \/ ConnectDestroyed(l) \/ CloseSocket(l)

IoEvent(l) == Select(l) \/ \E c \in Conns : HandleEvents(l, c)

Next ==
    \/ ServerLoop
    \/ \E l \in Loops : IoTask(l) \/ IoEvent(l)
    \/ Connect
    \/ \E c \in Conns : PeerCloses(c)

Spec == Init /\ [][Next]_vars

\* Every loop is scheduled, once it runs.  A round of an io loop handles its events and then
\* runs its tasks, so hang-ups that are reported round after round (Select never
\* blocks) do not keep tasks from running: hence the strong fairness.
Fairness ==
    /\ WF_vars(NewConnection) /\ WF_vars(RemoveConnectionInLoop)
    /\ \A l \in Loops : WF_vars(IoEvent(l)) /\ SF_vars(IoTask(l))

FairSpec == Spec /\ Fairness

-----------------------------------------------------------------------------
(* Properties *)

\* The state has its type; a loop runs tasks only between its events, and only
\* accepted connections are anywhere (tcpserver.cpp:40-57).
TypeOK ==
    /\ PoolTypeOK /\ Len(dealt) = accepted
    /\ listening \in BOOLEAN /\ (listening => started)
    /\ accepted \in 0..MaxConns /\ backlog \in 0..MaxConns - accepted
    /\ connMap \subseteq 1..accepted
    /\ serverQ \in Seq(1..accepted)
    /\ ioQ \in [Loops -> Seq([op : {"establish", "destroy"}, conn : 1..accepted])]
    /\ fdOf \in [Conns -> Fds \cup {None}]
    /\ state \in [Conns -> {"NONE", "CONNECTED", "closing", "DISCONNECT"}]
    /\ peerOpen \subseteq Conns
    /\ owner \in [Fds -> Conns \cup {None}]
    /\ chan \in [Loops -> [Fds -> Conns \cup {None}]]
    /\ active \in [Loops -> SUBSET Conns]
    /\ halfway \in [Loops -> Conns \cup {None}]
    /\ \A l \in Loops : active[l] = {} \/ halfway[l] = None
    /\ fault \in {"none", "accept", "newConnection", "removeConnectionInLoop", "connectEstablished",
                  "connectDestroyed", "removeChannel"}

\* Somebody holds a shared_ptr to the connection: the map, or a task that is bound
\* to it.
Held(c) ==
    \/ c \in connMap
    \/ c \in Elements(serverQ)
    \/ \E l \in Loops :
          c = halfway[l] \/ \E task \in Elements(ioQ[l]) : task.conn = c

\* No connection is freed while its channel, to which the Selector and the list of
\* active channels keep raw pointers, can still be reached (tcpserver.cpp:51-71,
\* selector.h:36, eventLoop.cpp:69-72).
ChannelsHeld == \A l \in Loops : \A c \in Channels(l) \cup active[l] : Held(c)

\* A descriptor in a Selector is open, and the socket behind it is that of the
\* channel found there, although the descriptor may have been closed and accepted
\* again on another thread (tcpconnection.cpp:109-111, selector.cpp:14-43).
OwnDescriptor ==
    \A l \in Loops : \A fd \in Fds :
        chan[l][fd] # None => owner[fd] = chan[l][fd] /\ LoopOf(chan[l][fd]) = l

\* How far a connection has come: established by connectEstablished, ended by
\* handleClose, and gone when connectDestroyed has closed the descriptor.
Stage(c) ==
    CASE c > accepted -> "none"
      [] c <= accepted /\ state[c] = "NONE" -> "accepted"
      [] c <= accepted /\ state[c] = "CONNECTED" -> "established"
      [] c <= accepted /\ (state[c] = "closing" \/ \E l \in Loops : halfway[l] = c) -> "ended"
      [] OTHER -> "gone"

Course == INSTANCE ConnectionLife
              WITH stage <- [c \in Conns |-> Stage(c)], held <- {c \in Conns : Held(c)}

\* Each connection goes its course once, step by step, however the tasks of the loops
\* interleave; it is freed and its own descriptor closed when it has come to its end,
\* not before, and nothing keeps it afterwards (tcpserver.cpp:40-72,
\* tcpconnection.cpp:21-30, 104-112).
LifeSpec == Course!LifeSpec

\* Only running out of descriptors ends the program, or a loop the pool does not have
\* because a wait returned unnotified: the asserts along the life of a connection hold
\* on whatever loop each step runs (tcpserver.cpp:46-56, 68, tcpconnection.cpp:24, 107,
\* selector.cpp:35-36).
AssertsHold == fault \in {"none", "accept"} \/ (fault = "newConnection" /\ unasked # {})

\* A connection whose peer has closed is forgotten in the end: its descriptor is
\* closed and nothing keeps it from being freed (tcpserver.cpp:59-72,
\* tcpconnection.cpp:104-112).
Forgotten(c) == ~Held(c) /\ \A fd \in Fds : owner[fd] # c
ClosedForgotten ==
    \A c \in Conns :
        (c <= accepted /\ c \notin peerOpen) ~> (Forgotten(c) \/ fault # "none")
=============================================================================
