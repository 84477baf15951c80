---------------------------- MODULE TcpConnection ----------------------------
(***************************************************************************)
(* tcp/tcpconnection.cpp: one accepted connection on its io loop, from the *)
(* task that establishes it to the one that destroys it, with the events   *)
(* its Channel asks for, its output buffer, the socket and the removal     *)
(* through the server's loop.                                              *)
(*                                                                         *)
(* All of it runs on the io loop's thread, except removeConnectionInLoop   *)
(* (the server's loop) and a shutdown() by another thread.  User code runs *)
(* inside the connection and message callbacks and in functions and timers *)
(* of the loop, and may call sendData and shutdown there.                  *)
(*                                                                         *)
(* The bytes handed to sendData are numbered 1, 2, ... in chunks.  accept  *)
(* leaves the socket blocking: write(2) holds the loop's thread until the  *)
(* kernel has taken every chunk, which it does as the peer reads, or until *)
(* a signal or a reset ends it early.  It fails once the peer has reset    *)
(* the connection.  An assert that fails ends the program, and readFd may  *)
(* on an error: `fault` says which.                                        *)
(*                                                                         *)
(* A disciplined user sends once in a message callback and nowhere else,   *)
(* as HttpServer and the tests do; another one sends wherever it may.      *)
(***************************************************************************)
EXTENDS Naturals, Sequences

CONSTANTS Size,            \* chunks in one sendData
          MaxSends,        \* bound: calls of sendData in all
          MaxInput,        \* bound: arrivals of data
          MaxTasks,        \* bound: uses outside the callbacks
          Room             \* chunks the kernel holds for a peer that does not read

ASSUME ConnectionAssumption ==
    /\ Size \in Nat \ {0} /\ MaxSends \in Nat /\ MaxInput \in Nat /\ MaxTasks \in Nat
    /\ Room \in Nat \ {0}

VARIABLES disciplined, \* does the user send once in a message callback only?
          patient,     \* does the peer go on reading until it resets the connection?
          state,       \* m_state
          events,      \* the channel's m_events
          registered,  \* is the channel in the Selector?
          revents,     \* what the last epoll_wait reported, until it is handled
          pc,          \* "loop", or the user code that is running
          tasks,       \* uses of the connection outside the callbacks so far
          maySend,     \* has the running user code not yet sent?
          call,        \* the write(2) under way: "none", in "sendDataInLoop" or "handleWrite"
          unsent,      \* what it was given and the kernel has not yet taken
          total,       \* chunks handed to sendDataInLoop so far
          output,      \* m_outputBuffer
          wire,        \* chunks the kernel has taken, in order
          wrShut,      \* ::shutdown(m_sockfd, SHUT_WR) was called
          sock,        \* "open", peer sent "fin", "reset" pending, "dead"
          room,        \* chunks that the kernel can still take
          inbox,       \* is there data to read?
          arrived,     \* arrivals of data so far
          asked,       \* removeConnectionInLoop tasks on the server's loop
          inMap,       \* is it in TcpServer::m_connectionMaps?
          destroying,  \* connectDestroyed tasks on the io loop
          foreign,     \* "idle", "queued" (its shutdownInLoop), "done"
          fault        \* "none", or where the program died

rigid      == <<disciplined, patient>>
loopVars   == <<state, events, registered, revents, pc, tasks, maySend>>
callVars   == <<call, unsent>>
streamVars == <<callVars, total, output, wire, wrShut>>
peerVars   == <<sock, room, inbox, arrived>>
endVars    == <<asked, inMap, destroying, foreign>>
vars == <<rigid, loopVars, streamVars, peerVars, endVars, fault>>

\* Every step is one of a program no assert has ended; user and peer remain the same.
Running == fault = "none" /\ UNCHANGED rigid

\* The loop's thread is in no user code and in no write(2), and has no event left.
InLoop == pc = "loop" /\ call = "none"
Idle == InLoop /\ revents = "none"

Fail(where) ==
    /\ fault' = where
    /\ UNCHANGED <<loopVars, streamVars, peerVars, endVars>>

-----------------------------------------------------------------------------
(* The channel: one mask, which every call overwrites. *)

UpdateChannel(mask) == events' = mask /\ registered' = TRUE

\* What epoll_wait reports for it.
ReadEvent  == inbox \/ sock # "open"
WriteEvent == room > 0 \/ sock \in {"reset", "dead"}

Select ==
    /\ Running
    /\ Idle
    /\ registered
    /\ \/ events = "read" /\ ReadEvent
       \/ events = "write" /\ WriteEvent
    /\ revents' = events
    /\ UNCHANGED <<state, events, registered, pc, tasks, maySend, streamVars, peerVars,
                   endVars, fault>>

-----------------------------------------------------------------------------
(* Establishing, and user code *)

EnterUser(where) ==
    /\ pc' = where
    /\ maySend' = (where = "message" \/ ~disciplined)

\* connectEstablished, up to the connection callback.
ConnectEstablished ==
    /\ Running
    /\ Idle
    /\ state = "NONE"
    /\ state' = "CONNECTED"
    /\ EnterUser("established")
    /\ UNCHANGED <<tasks, events, registered, revents, streamVars, peerVars, endVars, fault>>

\* A function or a timer of this loop that uses the connection.
EnterTask ==
    /\ Running
    /\ InLoop /\ state # "NONE"
    /\ tasks < MaxTasks
    /\ tasks' = tasks + 1
    /\ EnterUser("task")
    /\ UNCHANGED <<state, events, registered, revents, streamVars, peerVars, endVars,
                   fault>>

\* User code returns; connectEstablished goes on to enable reading.
Return ==
    /\ Running
    /\ pc # "loop" /\ call = "none"
    /\ pc' = "loop"
    /\ maySend' = FALSE
    /\ IF pc = "established" THEN UpdateChannel("read")
                             ELSE UNCHANGED <<events, registered>>
    /\ UNCHANGED <<state, revents, tasks, streamVars, peerVars, endVars, fault>>

-----------------------------------------------------------------------------
(* Output *)

StartWrite(where, chunks) == call' = where /\ unsent' = chunks

KernelTakes ==
    /\ Running
    /\ call # "none" /\ unsent # <<>>
    /\ sock \in {"open", "fin"} /\ room > 0
    /\ wire' = Append(wire, Head(unsent))
    /\ unsent' = Tail(unsent)
    /\ room' = room - 1
    /\ UNCHANGED <<loopVars, call, total, output, wrShut, sock, inbox, arrived, endVars,
                   fault>>

\* write(2) returns `sentN`, of the `len` it was given; 0 stands for its -1, which
\* takes up the pending error of a reset.
WriteReturns(where, len, sentN) ==
    /\ call = where
    /\ sentN = len - Len(unsent)
    /\ unsent = <<>> \/ sock \in {"reset", "dead"} \/ sentN > 0
    /\ call' = "none" /\ unsent' = <<>>
    /\ sock' = IF sentN = 0 THEN "dead" ELSE sock

\* mutant: sendData does not look at m_state
CanSendAlways == TRUE

CanSend == state = "CONNECTED"

\* mutant: what was not written is dropped
KeepRestDropped(rest) == UNCHANGED <<output, events, registered>>

\* mutant: what was not written waits without EPOLLOUT
KeepRestUnwatched(rest) ==
    /\ output' = output \o rest
    /\ UNCHANGED <<events, registered>>

KeepRest(rest) ==
    IF rest = <<>> THEN UNCHANGED <<output, events, registered>>
    ELSE output' = output \o rest /\ UpdateChannel("write")

\* sendData and sendDataInLoop, up to the write.
SendData ==
    /\ Running
    /\ pc # "loop" /\ call = "none" /\ maySend
    /\ total + Size <= Size * MaxSends
    /\ CanSend
    /\ total' = total + Size
    /\ maySend' = FALSE
    /\ StartWrite("sendDataInLoop", [i \in 1..Size |-> total + i])
    /\ UNCHANGED <<state, events, registered, revents, pc, tasks, output, wire, wrShut,
                   peerVars, endVars, fault>>

\* The rest of sendDataInLoop.  The result of write is kept in a size_t: an error is
\* not below zero, and data.size() - sentN exceeds data.size().
DataSent ==
    /\ Running
    /\ \E sentN \in 0..Size :
          /\ WriteReturns("sendDataInLoop", Size, sentN)
          /\ IF sentN = 0
             THEN fault' = "sendDataInLoop" /\ UNCHANGED <<output, events, registered>>
             ELSE KeepRest(unsent) /\ UNCHANGED fault
    /\ UNCHANGED <<state, revents, pc, tasks, maySend, total, wire, wrShut, room, inbox,
                   arrived, endVars>>

\* mutant: the write side is closed at once
ShutdownInLoopNow == wrShut' = TRUE /\ state' = "DISCONNECTING"

ShutdownInLoop ==
    /\ wrShut' = (wrShut \/ events # "write")
    /\ state' = "DISCONNECTING"

CanShutdown == state = "CONNECTED"

Shutdown ==
    /\ Running
    /\ pc # "loop" /\ call = "none"
    /\ CanShutdown
    /\ ShutdownInLoop
    /\ UNCHANGED <<events, registered, revents, pc, tasks, maySend, callVars, total, output,
                   wire, peerVars, endVars, fault>>

\* Another thread: m_state is read there, the rest is queued to the loop.
ShutdownByThread ==
    /\ Running
    /\ foreign = "idle"
    /\ CanShutdown
    /\ foreign' = "queued"
    /\ UNCHANGED <<loopVars, streamVars, peerVars, asked, inMap, destroying, fault>>

QueuedShutdown ==
    /\ Running
    /\ foreign = "queued"
    /\ Idle
    /\ foreign' = "done"
    /\ ShutdownInLoop
    /\ UNCHANGED <<events, registered, revents, pc, tasks, maySend, callVars, total, output,
                   wire, peerVars, asked, inMap, destroying, fault>>

Retrieve(sendN) == output' = SubSeq(output, sendN + 1, Len(output))

\* mutants: a failed write leaves the mask; so does the last chunk
WriteFailedSilent == UNCHANGED <<events, registered>>
DrainedWatched == UNCHANGED <<events, registered>>

WriteFailed == UpdateChannel("read")
Drained == UpdateChannel("read")

\* handleWrite, up to the write.
HandleWrite ==
    /\ Running
    /\ InLoop /\ revents = "write"
    /\ IF state # "CONNECTED" THEN Fail("handleWrite")
       ELSE /\ revents' = "none"
            /\ StartWrite("handleWrite", output)
            /\ UNCHANGED <<state, events, registered, pc, tasks, maySend, total, output, wire,
                           wrShut, peerVars, endVars, fault>>

\* The rest of handleWrite.  Past its assert the branch for DISCONNECTING is dead.
OutputWritten ==
    /\ Running
    /\ \E sentN \in 0..Len(output) :
          /\ WriteReturns("handleWrite", Len(output), sentN)
          /\ IF events # "write" THEN UNCHANGED <<output, events, registered>>
             ELSE IF sentN = 0 THEN WriteFailed /\ UNCHANGED output
             ELSE /\ Retrieve(sentN)
                  /\ IF output' = <<>> THEN Drained ELSE UNCHANGED <<events, registered>>
    /\ UNCHANGED <<state, revents, pc, tasks, maySend, total, wire, wrShut, room, inbox,
                   arrived, endVars, fault>>

-----------------------------------------------------------------------------
(* Input and the end of the connection *)

\* handleRead with data: the message callback is user code.
ReadMessage ==
    /\ Running
    /\ InLoop /\ revents = "read"
    /\ inbox
    /\ inbox' = FALSE
    /\ revents' = "none"
    /\ EnterUser("message")
    /\ UNCHANGED <<tasks, state, events, registered, streamVars, sock, room, arrived,
                   endVars, fault>>

\* readv fails, and Buffer::readFd takes -1 for a length: that ends the program, or
\* damages the input buffer only and goes on to handleError, which logs.
ReadError ==
    /\ Running
    /\ InLoop /\ revents = "read"
    /\ ~inbox /\ sock = "reset"
    /\ \/ Fail("readFd")
       \/ /\ sock' = "dead"
          /\ revents' = "none"
          /\ UNCHANGED <<state, events, registered, pc, tasks, maySend, streamVars, room,
                         inbox, arrived, endVars, fault>>

\* mutant: a closed connection goes on reading
DisableEventsNot == UNCHANGED <<events, registered>>

DisableEvents == UpdateChannel("none")

\* handleRead at the end of the input: handleClose and TcpServer::removeConection.
HandleClose ==
    /\ Running
    /\ InLoop /\ revents = "read"
    /\ ~inbox /\ sock \in {"fin", "dead"}
    /\ IF state \notin {"CONNECTED", "DISCONNECTING"} THEN Fail("handleClose")
       ELSE /\ revents' = "none"
            /\ DisableEvents
            /\ asked' = asked + 1
            /\ UNCHANGED <<state, pc, tasks, maySend, streamVars, peerVars, inMap, destroying,
                           foreign, fault>>

RemoveConnectionInLoop ==
    /\ Running
    /\ asked > 0
    /\ IF ~inMap THEN Fail("removeConnectionInLoop")
       ELSE /\ asked' = asked - 1
            /\ inMap' = FALSE
            /\ destroying' = destroying + 1
            /\ UNCHANGED <<loopVars, streamVars, peerVars, foreign, fault>>

\* mutant: the channel is left as it is
UnregisterNot == UNCHANGED <<events, registered>>

Unregister == events' = "none" /\ registered' = FALSE

ConnectDestroyed ==
    /\ Running
    /\ destroying > 0 /\ Idle
    /\ IF state \notin {"CONNECTED", "DISCONNECTING"} THEN Fail("connectDestroyed")
       ELSE /\ destroying' = destroying - 1
            /\ state' = "DISCONNECT"
            /\ Unregister
            /\ UNCHANGED <<revents, pc, tasks, maySend, streamVars, peerVars, asked, inMap,
                           foreign, fault>>

-----------------------------------------------------------------------------
(* The peer *)

PeerSends ==
    /\ Running
    /\ sock = "open" /\ ~inbox
    /\ arrived < MaxInput
    /\ inbox' = TRUE
    /\ arrived' = arrived + 1
    /\ UNCHANGED <<loopVars, streamVars, sock, room, endVars, fault>>

PeerReads ==
    /\ Running
    /\ sock \in {"open", "fin"} /\ room < Room
    /\ room' = room + 1
    /\ UNCHANGED <<loopVars, streamVars, sock, inbox, arrived, endVars, fault>>

PeerCloses ==
    /\ Running
    /\ \/ sock = "open" /\ sock' \in {"fin", "reset"}
       \/ sock = "fin" /\ sock' = "reset"
    /\ UNCHANGED <<loopVars, streamVars, room, inbox, arrived, endVars, fault>>

-----------------------------------------------------------------------------

Init ==
    /\ disciplined \in BOOLEAN /\ patient \in BOOLEAN
    /\ state = "NONE"
    /\ events = "none" /\ registered = FALSE /\ revents = "none"
    /\ pc = "loop" /\ maySend = FALSE /\ tasks = 0
    /\ call = "none" /\ unsent = <<>>
    /\ total = 0 /\ output = <<>> /\ wire = <<>> /\ wrShut = FALSE
    /\ sock = "open" /\ room = Room /\ inbox = FALSE /\ arrived = 0
    /\ asked = 0 /\ inMap = TRUE /\ destroying = 0 /\ foreign = "idle"
    /\ fault = "none"

IoLoop ==
    \/ ConnectEstablished \/ Return \/ Select \/ DataSent \/ HandleWrite \/ OutputWritten
    \/ ReadMessage \/ ReadError \/ HandleClose \/ QueuedShutdown \/ ConnectDestroyed

User == SendData \/ Shutdown \/ ShutdownByThread \/ EnterTask

Peer == PeerSends \/ PeerReads \/ PeerCloses

Next == IoLoop \/ User \/ KernelTakes \/ RemoveConnectionInLoop \/ Peer

Spec == Init /\ [][Next]_vars

\* The io loop handles its events and runs its tasks, user code returns, the kernel
\* takes what it has room for, the server's loop runs the removal, and a patient
\* peer reads.
Fairness ==
    /\ WF_vars(IoLoop)
    /\ WF_vars(KernelTakes)
    /\ WF_vars(RemoveConnectionInLoop)
    /\ WF_vars(patient /\ PeerReads)

FairSpec == Spec /\ Fairness

-----------------------------------------------------------------------------
(* Properties *)

\* The state has its type; every event a channel asks for is in the Selector
\* (channel.h:41-60).
TypeOK ==
    /\ disciplined \in BOOLEAN /\ patient \in BOOLEAN
    /\ state \in {"NONE", "CONNECTED", "DISCONNECTING", "DISCONNECT"}
    /\ events \in {"none", "read", "write"}
    /\ registered \in BOOLEAN /\ (events # "none" => registered)
    /\ revents \in {"none", "read", "write"}
    /\ pc \in {"loop", "established", "message", "task"}
    /\ maySend \in BOOLEAN
    /\ tasks \in 0..MaxTasks
    /\ call \in {"none", "sendDataInLoop", "handleWrite"}
    /\ unsent \in Seq(1..Size * MaxSends) /\ (call = "none" => unsent = <<>>)
    /\ total \in 0..Size * MaxSends
    /\ output \in Seq(1..Size * MaxSends)
    /\ wire \in Seq(1..Size * MaxSends)
    /\ wrShut \in BOOLEAN
    /\ sock \in {"open", "fin", "reset", "dead"}
    /\ room \in 0..Room
    /\ inbox \in BOOLEAN
    /\ arrived \in 0..MaxInput
    /\ asked \in Nat /\ destroying \in Nat /\ inMap \in BOOLEAN
    /\ foreign \in {"idle", "queued", "done"}
    /\ fault \in {"none", "sendDataInLoop", "handleWrite", "readFd", "handleClose",
                  "removeConnectionInLoop", "connectDestroyed"}

\* With a disciplined user the connection is a ByteStream: the kernel gets the chunks
\* in the order of the calls of sendData, none lost or twice, and the write side is
\* closed after the last one (tcpconnection.cpp:71-102, 146-166, 176-185).  A second
\* sendData writes to the socket past the chunks that wait.
Stream == INSTANCE ByteStream WITH
    written <- IF disciplined THEN [i \in 1..total |-> i] ELSE <<>>,
    read    <- IF disciplined THEN wire ELSE <<>>,
    closed  <- disciplined /\ state \in {"DISCONNECTING", "DISCONNECT"},
    ended   <- disciplined /\ wrShut,
    broken  <- disciplined /\ sock \in {"reset", "dead"}

StreamSpec == Stream!StreamSpec

\* Output that waits is waited for: the channel asks for EPOLLOUT until the
\* buffer is empty or the peer is gone (tcpconnection.cpp:76-100, 160-165).  The
\* one mask of the Channel, overwritten by each call, is what endangers it: a
\* greeting that was sent in part is no longer watched.
PendingWatched == disciplined /\ output # <<>> => events = "write" \/ sock = "dead"

\* The connection is taken out of m_connectionMaps once, as removeConnectionInLoop
\* asserts (tcpserver.cpp:68); a disciplined user does not have it watched again
\* between handleClose and connectDestroyed.
RemovedOnce == disciplined => fault # "removeConnectionInLoop"

\* handleWrite runs only for a connection in state CONNECTED, as it asserts
\* (tcpconnection.cpp:74).
WriteWhileConnected == fault # "handleWrite"

\* A write takes no more than it was given, error or not, as sendDataInLoop
\* asserts (tcpconnection.cpp:158).
RemainInRange == fault # "sendDataInLoop"

\* Whatever user code and other threads do, the asserts on the state of a
\* connection that is closed and destroyed hold (tcpconnection.cpp:56, 107).
LifecycleAsserts == fault \notin {"handleClose", "connectDestroyed"}

Destroyed == ~inMap /\ destroying = 0

\* Once destroyed, a connection never gets back into the Selector, which keeps a
\* raw pointer to its channel (tcpconnection.cpp:104-112, selector.cpp:14-31).
DestroyedStaysOut == Destroyed => ~registered

\* A write event that epoll_wait reported is still wanted, and there is output for
\* it, when it is handled after other handlers have run (tcpconnection.cpp:75-76,
\* channel.cpp:38-42).
WriteEventCurrent == revents = "write" => events = "write" /\ output # <<>>

\* A connection whose peer has closed is destroyed in the end, unless an assert
\* ends the program (tcpconnection.cpp:37-42, 53-62, 104-112, tcpserver.cpp:59-72).
\* A peer that neither reads nor resets holds the loop in write(2), or its output in
\* the way of the end of its input (acceptor.cpp:41).
PeerGoneDestroyed ==
    sock # "open" /\ (patient \/ sock = "reset") /\ disciplined
        ~> (Destroyed \/ fault # "none")

\* All that a disciplined user handed to sendData gets to a patient peer in the end,
\* unless it resets the connection or an assert ends the program
\* (tcpconnection.cpp:71-102).
OutputDrains ==
    disciplined /\ patient /\ Len(wire) < total
        ~> (Len(wire) = total \/ sock \in {"reset", "dead"} \/ fault # "none")
=============================================================================
