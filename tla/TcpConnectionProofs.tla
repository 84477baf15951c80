------------------------- MODULE TcpConnectionProofs -------------------------
(***************************************************************************)
(* One TcpConnection, for any number and size of sends, any number of      *)
(* arrivals and uses, and any room in the kernel: its asserts, its events  *)
(* and its removal, and that it is a ByteStream for a disciplined user.    *)
(***************************************************************************)
EXTENDS TcpConnection, SequenceTheorems, TLAPS

Limit == Size * MaxSends

\* The chunks of all calls of sendData.
LEMMA LimitNatural == Limit \in Nat
<1> QED BY ConnectionAssumption DEF Limit

-----------------------------------------------------------------------------
(* The invariant, for every user *)

\* Before connectEstablished nothing has happened to the connection.
Fresh ==
    state = "NONE" =>
        /\ pc = "loop" /\ call = "none" /\ revents = "none" /\ ~registered
        /\ total = 0 /\ output = <<>> /\ wire = <<>> /\ ~wrShut
        /\ asked = 0 /\ inMap /\ destroying = 0 /\ foreign = "idle"

\* write(2) holds the loop's thread, so nobody closes the connection meanwhile.
Writing ==
    /\ call # "none" => state = "CONNECTED"
    /\ call = "sendDataInLoop" => pc # "loop"
    /\ call = "handleWrite" => pc = "loop" /\ revents = "none" /\ events = "write"
    /\ wrShut => state # "CONNECTED"

\* EPOLLOUT is asked for only while there is output, and no handler that runs between
\* epoll_wait and handleWrite takes that back.
Watching ==
    /\ events = "write" => output # <<>>
    /\ revents = "write" => events = "write"
    /\ pc \in {"established", "message"} => revents = "none"

Gone == ~inMap /\ destroying = 0

\* A connection is destroyed at most once, and comes back to nothing after that.
Removal ==
    /\ inMap => destroying = 0
    /\ destroying <= 1
    /\ Gone => /\ ~registered /\ revents = "none" /\ pc # "established"
               /\ state \in {"DISCONNECTING", "DISCONNECT"}
    /\ state = "DISCONNECT" => Gone

Control == Fresh /\ Writing /\ Watching /\ Removal /\ LifecycleAsserts

-----------------------------------------------------------------------------
(* The invariant, for a disciplined user *)

Closed == asked > 0 \/ ~inMap

\* While such a user may send nothing waits, unless the peer is gone; and after
\* handleClose it does not have the connection watched again.
Discipline ==
    /\ maySend \/ call = "sendDataInLoop" => pc = "message"
    /\ call = "sendDataInLoop" => ~maySend
    /\ pc = "established" => output = <<>>
    /\ revents = "read" => events = "read"
    /\ maySend \/ call = "sendDataInLoop" => output = <<>> \/ sock = "dead"
    /\ output # <<>> => events = "write" \/ sock = "dead"
    /\ Closed => /\ events = "none" /\ revents = "none"
                 /\ pc \in {"loop", "task"} /\ call = "none"
    /\ asked <= 1 /\ (asked = 1 => inMap)
    /\ fault # "removeConnectionInLoop"

\* The chunks a + 1 to a + n.
Run(a, n) == [k \in 1..n |-> a + k]

\* What the kernel has taken, what waits in m_outputBuffer and what write(2) has been
\* given make up all that was sent; handleWrite leaves in the buffer what it writes.
InOrder ==
    /\ wire = Run(0, Len(wire))
    /\ unsent = Run(total - Len(unsent), Len(unsent))
    /\ IF call = "handleWrite"
       THEN /\ Len(wire) + Len(unsent) = total /\ Len(unsent) <= Len(output)
            /\ Len(output) <= total
            /\ output = Run(total - Len(output), Len(output))
       ELSE /\ Len(wire) + Len(output) + Len(unsent) = total
            /\ output = Run(Len(wire), Len(output))

ConnInv ==
    /\ TypeOK /\ Control
    /\ disciplined => Discipline
    /\ disciplined /\ fault = "none" => InOrder

-----------------------------------------------------------------------------
(* The steps, for every user *)

\* The type in three parts: what is sent, the other values and the flags.
SentTypes ==
    /\ call \in {"none", "sendDataInLoop", "handleWrite"}
    /\ unsent \in Seq(1..Limit) /\ (call = "none" => unsent = <<>>)
    /\ total \in 0..Limit
    /\ output \in Seq(1..Limit)
    /\ wire \in Seq(1..Limit)

ValueTypes ==
    /\ state \in {"NONE", "CONNECTED", "DISCONNECTING", "DISCONNECT"}
    /\ events \in {"none", "read", "write"} /\ (events # "none" => registered)
    /\ revents \in {"none", "read", "write"}
    /\ pc \in {"loop", "established", "message", "task"}
    /\ tasks \in 0..MaxTasks
    /\ sock \in {"open", "fin", "reset", "dead"}
    /\ room \in 0..Room
    /\ arrived \in 0..MaxInput
    /\ asked \in Nat /\ destroying \in Nat
    /\ foreign \in {"idle", "queued", "done"}
    /\ fault \in {"none", "sendDataInLoop", "handleWrite", "readFd", "handleClose",
                  "removeConnectionInLoop", "connectDestroyed"}

FlagTypes ==
    /\ disciplined \in BOOLEAN /\ patient \in BOOLEAN /\ registered \in BOOLEAN
    /\ maySend \in BOOLEAN /\ wrShut \in BOOLEAN /\ inbox \in BOOLEAN /\ inMap \in BOOLEAN

LEMMA TypesSplit ==
    /\ TypeOK <=> SentTypes /\ ValueTypes /\ FlagTypes
    /\ TypeOK' <=> SentTypes' /\ ValueTypes' /\ FlagTypes'
<1> QED BY Zenon DEF TypeOK, SentTypes, ValueTypes, FlagTypes, Limit

LEMMA SentTypesKept ==
    ASSUME TypeOK, Control, [Next]_vars
    PROVE  SentTypes'
<1> USE ConnectionAssumption, LimitNatural, TypesSplit DEF SentTypes
<1> USE DEF rigid, loopVars, streamVars, callVars, peerVars, endVars, Running, Fail
<1>1. CASE ConnectEstablished \/ Return \/ Select \/ ReadMessage \/ QueuedShutdown
  BY <1>1 DEF ConnectEstablished, Return, Select, ReadMessage, QueuedShutdown
<1>2. CASE ReadError \/ HandleClose \/ ConnectDestroyed \/ RemoveConnectionInLoop
  BY <1>2 DEF ReadError, HandleClose, ConnectDestroyed, RemoveConnectionInLoop
<1>3. CASE Shutdown \/ ShutdownByThread \/ EnterTask \/ Peer \/ UNCHANGED vars
  BY <1>3 DEF Shutdown, ShutdownByThread, EnterTask, Peer, PeerSends, PeerReads, PeerCloses, vars
<1>4. CASE DataSent
  <2>1. output \o unsent \in Seq(1..Limit)
    OBVIOUS
  <2>2. output' \in Seq(1..Limit)
    BY <1>4, <2>1 DEF DataSent, KeepRest
  <2> QED BY <1>4, <2>2 DEF DataSent, WriteReturns
<1>5. CASE HandleWrite
  BY <1>5 DEF HandleWrite, StartWrite
<1>6. CASE OutputWritten
  <2>1. \A n \in 0..Len(output) : SubSeq(output, n + 1, Len(output)) \in Seq(1..Limit)
    OBVIOUS
  <2>2. output' \in Seq(1..Limit)
    BY <1>6, <2>1 DEF OutputWritten, Retrieve
  <2> QED BY <1>6, <2>2 DEF OutputWritten, WriteReturns
<1>7. CASE SendData
  <2>1. /\ total \in Nat /\ Size \in Nat /\ total + Size <= Limit /\ total' = total + Size
        /\ unsent' = [k \in 1..Size |-> total + k] /\ call' = "sendDataInLoop"
        /\ UNCHANGED <<output, wire>>
    BY <1>7 DEF SendData, StartWrite, Limit
  <2>2. unsent' \in Seq(1..Limit) /\ total' \in 0..Limit
    BY <2>1
  <2> QED BY <2>1, <2>2
<1>8. CASE KernelTakes
  BY <1>8 DEF KernelTakes
<1> QED
  BY <1>1, <1>2, <1>3, <1>4, <1>5, <1>6, <1>7, <1>8 DEF Next, IoLoop, User

LEMMA ValueTypesKept ==
    ASSUME TypeOK, Control, [Next]_vars
    PROVE  ValueTypes'
<1> USE ConnectionAssumption, TypesSplit DEF ValueTypes, FlagTypes
<1> USE DEF rigid, loopVars, streamVars, callVars, peerVars, endVars, Running, Fail
<1>1. CASE ConnectEstablished
  BY <1>1 DEF ConnectEstablished, EnterUser
<1>2. CASE Return
  BY <1>2 DEF Return, UpdateChannel
<1>3. CASE Select
  BY <1>3 DEF Select
<1>4. CASE DataSent
  BY <1>4 DEF DataSent, WriteReturns, KeepRest, UpdateChannel
<1>5. CASE HandleWrite
  BY <1>5 DEF HandleWrite
<1>6. CASE OutputWritten
  BY <1>6 DEF OutputWritten, WriteReturns, WriteFailed, Drained, UpdateChannel
<1>7. CASE ReadMessage
  BY <1>7 DEF ReadMessage, EnterUser
<1>8. CASE ReadError
  BY <1>8 DEF ReadError
<1>9. CASE HandleClose
  BY <1>9 DEF HandleClose, DisableEvents, UpdateChannel
<1>10. CASE QueuedShutdown
  BY <1>10 DEF QueuedShutdown, ShutdownInLoop
<1>11. CASE ConnectDestroyed
  BY <1>11 DEF ConnectDestroyed, Unregister
<1>12. CASE SendData
  BY <1>12 DEF SendData
<1>13. CASE Shutdown
  BY <1>13 DEF Shutdown, ShutdownInLoop
<1>14. CASE ShutdownByThread
  BY <1>14 DEF ShutdownByThread
<1>15. CASE EnterTask
  BY <1>15 DEF EnterTask, EnterUser
<1>16. CASE KernelTakes
  BY <1>16 DEF KernelTakes
<1>17. CASE RemoveConnectionInLoop
  BY <1>17 DEF RemoveConnectionInLoop
<1>18. CASE PeerSends
  BY <1>18 DEF PeerSends
<1>19. CASE PeerReads
  BY <1>19 DEF PeerReads
<1>20. CASE PeerCloses
  BY <1>20 DEF PeerCloses
<1>21. CASE UNCHANGED vars
  BY <1>21 DEF vars
<1> QED
  BY <1>1, <1>2, <1>3, <1>4, <1>5, <1>6, <1>7, <1>8, <1>9, <1>10, <1>11, <1>12, <1>13,
     <1>14, <1>15, <1>16, <1>17, <1>18, <1>19, <1>20, <1>21
  DEF Next, IoLoop, User, Peer

LEMMA FlagTypesKept ==
    ASSUME TypeOK, Control, [Next]_vars
    PROVE  FlagTypes'
<1> USE ConnectionAssumption, TypesSplit DEF FlagTypes
<1> USE DEF rigid, loopVars, streamVars, callVars, peerVars, endVars, Running, Fail
<1>1. CASE ConnectEstablished
  BY <1>1, Zenon DEF ConnectEstablished, EnterUser
<1>2. CASE Return
  BY <1>2, Zenon DEF Return, UpdateChannel
<1>3. CASE Select
  BY <1>3, Zenon DEF Select
<1>4. CASE DataSent
  BY <1>4, Zenon DEF DataSent, WriteReturns, KeepRest, UpdateChannel
<1>5. CASE HandleWrite
  BY <1>5, Zenon DEF HandleWrite
<1>6. CASE OutputWritten
  BY <1>6, Zenon DEF OutputWritten, WriteReturns, WriteFailed, Drained, UpdateChannel
<1>7. CASE ReadMessage
  BY <1>7, Zenon DEF ReadMessage, EnterUser
<1>8. CASE ReadError
  BY <1>8, Zenon DEF ReadError
<1>9. CASE HandleClose
  BY <1>9, Zenon DEF HandleClose, DisableEvents, UpdateChannel
<1>10. CASE QueuedShutdown
  BY <1>10, Zenon DEF QueuedShutdown, ShutdownInLoop
<1>11. CASE ConnectDestroyed
  BY <1>11, Zenon DEF ConnectDestroyed, Unregister
<1>12. CASE SendData
  BY <1>12, Zenon DEF SendData
<1>13. CASE Shutdown
  BY <1>13, Zenon DEF Shutdown, ShutdownInLoop
<1>14. CASE ShutdownByThread
  BY <1>14, Zenon DEF ShutdownByThread
<1>15. CASE EnterTask
  BY <1>15, Zenon DEF EnterTask, EnterUser
<1>16. CASE KernelTakes
  BY <1>16, Zenon DEF KernelTakes
<1>17. CASE RemoveConnectionInLoop
  BY <1>17, Zenon DEF RemoveConnectionInLoop
<1>18. CASE PeerSends
  BY <1>18, Zenon DEF PeerSends
<1>19. CASE PeerReads
  BY <1>19, Zenon DEF PeerReads
<1>20. CASE PeerCloses
  BY <1>20, Zenon DEF PeerCloses
<1>21. CASE UNCHANGED vars
  BY <1>21, Zenon DEF vars
<1> QED
  BY <1>1, <1>2, <1>3, <1>4, <1>5, <1>6, <1>7, <1>8, <1>9, <1>10, <1>11, <1>12, <1>13,
     <1>14, <1>15, <1>16, <1>17, <1>18, <1>19, <1>20, <1>21
  DEF Next, IoLoop, User, Peer

\* What each handler relies on is left behind by the others.
LEMMA ControlKept ==
    ASSUME TypeOK, Control, [Next]_vars
    PROVE  Control'
<1> USE ConnectionAssumption, TypesSplit
    DEF ValueTypes, FlagTypes, Control, Fresh, Writing, Watching, Removal, Gone, LifecycleAsserts
<1> USE DEF rigid, loopVars, streamVars, callVars, peerVars, endVars, Running, InLoop, Idle, Fail
<1>1. CASE ConnectEstablished
  BY <1>1 DEF ConnectEstablished, EnterUser
<1>2. CASE Return
  BY <1>2 DEF Return, UpdateChannel
<1>3. CASE Select
  BY <1>3 DEF Select
<1>4. CASE DataSent
  BY <1>4 DEF DataSent, WriteReturns, KeepRest, UpdateChannel
<1>5. CASE HandleWrite
  BY <1>5 DEF HandleWrite, StartWrite
<1>6. CASE OutputWritten
  BY <1>6 DEF OutputWritten, WriteReturns, WriteFailed, Drained, Retrieve, UpdateChannel
<1>7. CASE ReadMessage
  BY <1>7 DEF ReadMessage, EnterUser
<1>8. CASE ReadError
  BY <1>8 DEF ReadError
<1>9. CASE HandleClose
  BY <1>9 DEF HandleClose, DisableEvents, UpdateChannel
<1>10. CASE QueuedShutdown
  BY <1>10 DEF QueuedShutdown, ShutdownInLoop
<1>11. CASE ConnectDestroyed
  BY <1>11 DEF ConnectDestroyed, Unregister
<1>12. CASE SendData
  BY <1>12 DEF SendData, CanSend, StartWrite
<1>13. CASE Shutdown
  BY <1>13 DEF Shutdown, CanShutdown, ShutdownInLoop
<1>14. CASE ShutdownByThread
  BY <1>14 DEF ShutdownByThread, CanShutdown
<1>15. CASE EnterTask
  BY <1>15 DEF EnterTask, EnterUser
<1>16. CASE KernelTakes
  BY <1>16 DEF KernelTakes
<1>17. CASE RemoveConnectionInLoop
  BY <1>17 DEF RemoveConnectionInLoop
<1>18. CASE PeerSends
  BY <1>18 DEF PeerSends
<1>19. CASE PeerReads
  BY <1>19 DEF PeerReads
<1>20. CASE PeerCloses
  BY <1>20 DEF PeerCloses
<1>21. CASE UNCHANGED vars
  BY <1>21 DEF vars
<1> QED
  BY <1>1, <1>2, <1>3, <1>4, <1>5, <1>6, <1>7, <1>8, <1>9, <1>10, <1>11, <1>12, <1>13,
     <1>14, <1>15, <1>16, <1>17, <1>18, <1>19, <1>20, <1>21
  DEF Next, IoLoop, User, Peer

\* A disciplined user sends once in a message callback, which starts with nothing
\* waiting.
LEMMA DisciplineKept ==
    ASSUME TypeOK, Control, disciplined, Discipline, [Next]_vars
    PROVE  disciplined' /\ Discipline'
<1> USE ConnectionAssumption, TypesSplit
    DEF ValueTypes, FlagTypes, Control, Fresh, Writing, Watching, Removal, Gone, Discipline, Closed
<1> USE DEF rigid, loopVars, streamVars, callVars, peerVars, endVars, Running, InLoop, Idle, Fail
<1>1. CASE ConnectEstablished
  BY <1>1 DEF ConnectEstablished, EnterUser
<1>2. CASE Return
  BY <1>2 DEF Return, UpdateChannel
<1>3. CASE Select
  BY <1>3 DEF Select
<1>4. CASE DataSent
  <2>1. /\ UNCHANGED <<disciplined, revents, pc, maySend, asked, inMap, destroying>>
        /\ call = "sendDataInLoop" /\ call' = "none" /\ (sock' = sock \/ sock' = "dead")
        /\ fault' # "removeConnectionInLoop"
    BY <1>4 DEF DataSent, WriteReturns
  <2>2. pc = "message" /\ ~Closed /\ ~Closed' /\ revents' = "none"
    BY <2>1
  <2>3. output' # <<>> => events' = "write" \/ sock' = "dead"
    BY <1>4, <2>1 DEF DataSent, KeepRest, UpdateChannel
  <2> QED BY <2>1, <2>2, <2>3
<1>5. CASE HandleWrite
  BY <1>5 DEF HandleWrite, StartWrite
<1>6. CASE OutputWritten
  BY <1>6 DEF OutputWritten, WriteReturns, WriteFailed, Drained, Retrieve, UpdateChannel
<1>7. CASE ReadMessage
  BY <1>7 DEF ReadMessage, EnterUser
<1>8. CASE ReadError
  <2>1. CASE Fail("readFd")
    BY <1>8, <2>1 DEF ReadError
  <2>2. CASE sock' = "dead" /\ revents' = "none"
    BY <1>8, <2>2 DEF ReadError
  <2> QED BY <1>8, <2>1, <2>2 DEF ReadError
<1>9. CASE HandleClose
  <2>1. asked = 0 /\ inMap /\ pc = "loop" /\ call = "none" /\ (output # <<>> => sock = "dead")
    BY <1>9 DEF HandleClose
  <2>2. state \in {"CONNECTED", "DISCONNECTING"}
    BY <1>9 DEF HandleClose
  <2> QED BY <1>9, <2>1, <2>2 DEF HandleClose, DisableEvents, UpdateChannel
<1>10. CASE QueuedShutdown
  BY <1>10 DEF QueuedShutdown, ShutdownInLoop
<1>11. CASE ConnectDestroyed
  BY <1>11 DEF ConnectDestroyed, Unregister
<1>12. CASE SendData
  BY <1>12 DEF SendData, CanSend, StartWrite
<1>13. CASE Shutdown
  BY <1>13 DEF Shutdown, CanShutdown, ShutdownInLoop
<1>14. CASE ShutdownByThread
  BY <1>14 DEF ShutdownByThread, CanShutdown
<1>15. CASE EnterTask
  BY <1>15 DEF EnterTask, EnterUser
<1>16. CASE KernelTakes
  BY <1>16 DEF KernelTakes
<1>17. CASE RemoveConnectionInLoop
  BY <1>17 DEF RemoveConnectionInLoop
<1>18. CASE PeerSends
  BY <1>18 DEF PeerSends
<1>19. CASE PeerReads
  BY <1>19 DEF PeerReads
<1>20. CASE PeerCloses
  BY <1>20 DEF PeerCloses
<1>21. CASE UNCHANGED vars
  BY <1>21 DEF vars
<1> QED
  BY <1>1, <1>2, <1>3, <1>4, <1>5, <1>6, <1>7, <1>8, <1>9, <1>10, <1>11, <1>12, <1>13,
     <1>14, <1>15, <1>16, <1>17, <1>18, <1>19, <1>20, <1>21
  DEF Next, IoLoop, User, Peer

-----------------------------------------------------------------------------
(* The chunks of a disciplined user *)

\* Runs of chunks, as the steps take them apart and put them together.
LEMMA RunFacts ==
    ASSUME NEW a \in Nat, NEW n \in Nat
    PROVE  /\ Run(a, n) \in Seq(Nat) /\ Len(Run(a, n)) = n
           /\ n = 0 => Run(a, n) = <<>>
           /\ n > 0 => Head(Run(a, n)) = a + 1 /\ Tail(Run(a, n)) = Run(a + 1, n - 1)
           /\ Append(Run(a, n), a + n + 1) = Run(a, n + 1)
<1>1. Run(a, n) \in Seq(Nat) /\ Len(Run(a, n)) = n
  BY DEF Run
<1>2. n = 0 => Run(a, n) = <<>>
  BY <1>1
<1>3. n > 0 => Head(Run(a, n)) = a + 1 /\ Tail(Run(a, n)) = Run(a + 1, n - 1)
  BY DEF Run
<1>4. Append(Run(a, n), a + n + 1) = Run(a, n + 1)
  BY DEF Run
<1> QED BY <1>1, <1>2, <1>3, <1>4

LEMMA RunJoin ==
    ASSUME NEW a \in Nat, NEW n \in Nat, NEW m \in Nat
    PROVE  Run(a, n) \o Run(a + n, m) = Run(a, n + m)
<1> QED BY DEF Run

LEMMA RunCut ==
    ASSUME NEW a \in Nat, NEW n \in Nat, NEW k \in 0..n
    PROVE  SubSeq(Run(a, n), k + 1, n) = Run(a + k, n - k)
<1> QED BY DEF Run

\* Each write moves chunks on in order, and drops none.
LEMMA InOrderKept ==
    ASSUME TypeOK, Control, Discipline, InOrder, [Next]_vars, fault' = "none"
    PROVE  InOrder'
<1> DEFINE w == Len(wire)
           o == Len(output)
           u == Len(unsent)
<1> USE ConnectionAssumption
<1>1. /\ w \in Nat /\ o \in Nat /\ u \in Nat /\ total \in Nat /\ Limit \in Nat
      /\ output \in Seq(1..Limit) /\ unsent \in Seq(1..Limit) /\ wire \in Seq(1..Limit)
      /\ (unsent = <<>> <=> u = 0) /\ (output = <<>> <=> o = 0) /\ (call = "none" => u = 0)
      /\ call \in {"none", "sendDataInLoop", "handleWrite"}
  <2>1. /\ output \in Seq(1..Limit) /\ unsent \in Seq(1..Limit) /\ wire \in Seq(1..Limit)
        /\ total \in Nat /\ (call = "none" => unsent = <<>>)
        /\ call \in {"none", "sendDataInLoop", "handleWrite"}
    BY LimitNatural, TypesSplit DEF SentTypes
  <2> QED BY <2>1, LimitNatural, LenProperties, EmptySeq
<1>2. /\ wire = Run(0, w) /\ unsent = Run(total - u, u) /\ total - u \in Nat
      /\ call = "handleWrite" => /\ w + u = total /\ u <= o /\ o <= total
                                 /\ output = Run(total - o, o)
      /\ call # "handleWrite" => w + o + u = total /\ output = Run(w, o)
  BY <1>1 DEF InOrder
<1> HIDE DEF w, o, u
<1>3. CASE KernelTakes
  <2>1. /\ call # "none" /\ u > 0 /\ sock # "dead"
        /\ wire' = Append(wire, Head(unsent)) /\ unsent' = Tail(unsent)
        /\ UNCHANGED <<call, total, output>>
    BY <1>1, <1>3 DEF KernelTakes, Running
  <2>2. call = "sendDataInLoop" => o = 0
    BY <1>1, <2>1 DEF Discipline
  <2>3. total - u = w
    BY <1>1, <1>2, <2>1, <2>2
  <2>4. Head(unsent) = w + 1 /\ unsent' = Run(w + 1, u - 1)
    BY <1>1, <1>2, <2>1, <2>3, RunFacts
  <2>5. wire' = Run(0, w + 1)
    <3>1. Append(Run(0, w), 0 + w + 1) = Run(0, w + 1)
      BY <1>1, RunFacts
    <3> QED BY <1>1, <1>2, <2>1, <2>4, <3>1
  <2>6. Len(wire') = w + 1 /\ Len(unsent') = u - 1 /\ w + 1 = total - (u - 1)
    <3>1. w + 1 \in Nat /\ u - 1 \in Nat /\ 0 \in Nat
      BY <1>1, <2>1
    <3>2. Len(Run(0, w + 1)) = w + 1 /\ Len(Run(w + 1, u - 1)) = u - 1
      BY <3>1, RunFacts
    <3> QED BY <1>1, <2>1, <2>3, <2>4, <2>5, <3>2
  <2>7. call = "sendDataInLoop" => output = Run(w + 1, o)
    BY <1>1, <2>2, RunFacts
  <2>8. CASE call = "sendDataInLoop"
    <3>1. (w + 1) + o + (u - 1) = total
      BY <1>1, <1>2, <2>1, <2>8
    <3> QED BY <2>1, <2>4, <2>5, <2>6, <2>7, <2>8, <3>1 DEF InOrder, o
  <2>9. CASE call = "handleWrite"
    <3>1. (w + 1) + (u - 1) = total /\ u - 1 <= o /\ o <= total /\ output = Run(total - o, o)
      BY <1>1, <1>2, <2>1, <2>9
    <3> QED BY <2>1, <2>4, <2>5, <2>6, <2>9, <3>1 DEF InOrder, o
  <2> QED BY <1>1, <2>1, <2>8, <2>9
<1>4. CASE DataSent
  <2>1. /\ call = "sendDataInLoop" /\ call' = "none" /\ unsent' = <<>>
        /\ KeepRest(unsent) /\ UNCHANGED <<total, wire>>
    BY <1>4 DEF DataSent, WriteReturns
  <2>2. output' = Run(w, o + u)
    <3>1. CASE unsent = <<>>
      BY <1>1, <1>2, <2>1, <3>1 DEF KeepRest
    <3>2. CASE unsent # <<>>
      <4>1. output' = Run(w, o) \o Run(w + o, u)
        <5>1. total - u = w + o
          BY <1>1, <1>2, <2>1
        <5> QED BY <1>2, <2>1, <3>2, <5>1 DEF KeepRest
      <4>2. Run(w, o) \o Run(w + o, u) = Run(w, o + u)
        <5>1. w \in Nat /\ o \in Nat /\ u \in Nat
          BY <1>1
        <5> QED BY <5>1, RunJoin, Zenon
      <4> QED BY <4>1, <4>2
    <3> QED BY <3>1, <3>2
  <2>3. Len(output') = o + u /\ Len(unsent') = 0 /\ unsent' = Run(total, 0)
    <3>1. o + u \in Nat /\ 0 \in Nat
      BY <1>1
    <3>2. Len(Run(w, o + u)) = o + u /\ Run(total, 0) = <<>>
      BY <1>1, <3>1, RunFacts
    <3> QED BY <2>1, <2>2, <3>2
  <2>4. w + (o + u) + 0 = total /\ total - 0 = total
    BY <1>1, <1>2, <2>1
  <2> QED BY <1>2, <2>1, <2>2, <2>3, <2>4 DEF InOrder, w
<1>5. CASE HandleWrite
  <2>1. /\ call = "none" /\ call' = "handleWrite" /\ unsent' = output
        /\ UNCHANGED <<total, output, wire>>
    BY <1>5 DEF HandleWrite, InLoop, StartWrite, Fail
  <2>2. total - o = w /\ w + o = total /\ output = Run(total - o, o)
    BY <1>1, <1>2, <2>1
  <2> QED BY <1>1, <1>2, <2>1, <2>2 DEF InOrder, w, o
<1>6. CASE OutputWritten
  <2>1. /\ call = "handleWrite" /\ call' = "none" /\ unsent' = <<>> /\ UNCHANGED <<total, wire>>
        /\ \/ u = o /\ output' = output
           \/ output' = SubSeq(output, (o - u) + 1, o)
    BY <1>6 DEF OutputWritten, WriteReturns, Retrieve, Control, Writing, o, u
  <2>2. output' = Run(w, u)
    <3>1. CASE u = o /\ output' = output
      BY <1>1, <1>2, <2>1, <3>1
    <3>2. CASE output' = SubSeq(output, (o - u) + 1, o)
      <4>1. o - u \in 0..o /\ total - o \in Nat /\ (total - o) + (o - u) = w /\ o - (o - u) = u
        BY <1>1, <1>2, <2>1
      <4>2. SubSeq(Run(total - o, o), (o - u) + 1, o) = Run((total - o) + (o - u), o - (o - u))
        BY <1>1, <4>1, RunCut
      <4> QED BY <1>2, <2>1, <3>2, <4>1, <4>2
    <3> QED BY <2>1, <3>1, <3>2
  <2>3. Len(output') = u /\ Len(unsent') = 0 /\ unsent' = Run(total, 0)
    BY <1>1, <2>1, <2>2, RunFacts
  <2> QED BY <1>1, <1>2, <2>1, <2>2, <2>3 DEF InOrder, w
<1>7. CASE SendData
  <2>1. /\ call = "none" /\ call' = "sendDataInLoop" /\ total' = total + Size
        /\ unsent' = Run(total, Size) /\ UNCHANGED <<output, wire>>
    BY <1>7 DEF SendData, StartWrite, Run
  <2>2. Len(unsent') = Size /\ total' - Size = total
    BY <1>1, <2>1, RunFacts
  <2>3. w + o + Size = total'
    BY <1>1, <1>2, <2>1
  <2> QED BY <1>2, <2>1, <2>2, <2>3 DEF InOrder, w, o
<1>8. CASE UNCHANGED <<call, unsent, total, output, wire>>
  BY <1>8 DEF InOrder, Run
<1>9. CASE /\ ~KernelTakes /\ ~DataSent /\ ~HandleWrite /\ ~OutputWritten /\ ~SendData
  BY <1>8, <1>9
  DEF Next, IoLoop, User, Peer, ConnectEstablished, Return, Select, ReadMessage, ReadError,
      HandleClose, QueuedShutdown, ConnectDestroyed, Shutdown, ShutdownByThread, EnterTask,
      RemoveConnectionInLoop, PeerSends, PeerReads, PeerCloses, Fail, vars, streamVars, callVars
<1> QED BY <1>3, <1>4, <1>5, <1>6, <1>7, <1>9

-----------------------------------------------------------------------------
(* The invariant, and what follows from it *)

LEMMA ConnInit == Init => ConnInv
<1> SUFFICES ASSUME Init PROVE ConnInv
  OBVIOUS
<1> USE ConnectionAssumption DEF Init
<1>1. TypeOK
  <2>1. SentTypes
    BY LimitNatural DEF SentTypes
  <2>2. ValueTypes
    BY DEF ValueTypes
  <2>3. FlagTypes
    BY DEF FlagTypes
  <2> QED BY <2>1, <2>2, <2>3, TypesSplit
<1>2. Control
  BY DEF Control, Fresh, Writing, Watching, Removal, Gone, LifecycleAsserts
<1>3. Discipline
  BY DEF Discipline, Closed
<1>4. InOrder
  BY RunFacts DEF InOrder
<1> QED BY <1>1, <1>2, <1>3, <1>4 DEF ConnInv

LEMMA ConnInductive == ConnInv /\ [Next]_vars => ConnInv'
<1> SUFFICES ASSUME ConnInv, [Next]_vars PROVE ConnInv'
  OBVIOUS
<1>1. TypeOK /\ Control
  BY DEF ConnInv
<1>2. TypeOK' /\ Control'
  BY <1>1, SentTypesKept, ValueTypesKept, FlagTypesKept, ControlKept, TypesSplit
<1>3. disciplined' = disciplined /\ (fault' = "none" => fault = "none")
  BY DEF Next, IoLoop, User, Peer, ConnectEstablished, Return, Select, DataSent, HandleWrite,
         OutputWritten, ReadMessage, ReadError, HandleClose, QueuedShutdown, ConnectDestroyed,
         SendData, Shutdown, ShutdownByThread, EnterTask, KernelTakes, RemoveConnectionInLoop,
         PeerSends, PeerReads, PeerCloses, Running, vars, rigid
<1>4. disciplined' => Discipline'
  BY <1>1, <1>3, DisciplineKept DEF ConnInv
<1>5. disciplined' /\ fault' = "none" => InOrder'
  BY <1>1, <1>3, InOrderKept DEF ConnInv
<1> QED BY <1>2, <1>4, <1>5 DEF ConnInv

LEMMA ConnInvariant == Spec => []ConnInv
<1> QED BY ConnInit, ConnInductive, PTL DEF Spec

\* The state has its type, and every event a channel asks for is in the Selector
\* (channel.h:41-60).
THEOREM TypeCorrect == Spec => []TypeOK
<1>1. ConnInv => TypeOK
  BY DEF ConnInv
<1> QED BY <1>1, ConnInvariant, PTL

\* Output that waits is watched for by EPOLLOUT until it is gone or the peer is, if the
\* user sends once in a message callback (tcpconnection.cpp:76-100, 160-165).
THEOREM PendingIsWatched == Spec => []PendingWatched
<1>1. ConnInv => PendingWatched
  BY DEF ConnInv, Discipline, PendingWatched
<1> QED BY <1>1, ConnInvariant, PTL

\* Such a user's connection is taken out of the server's map once (tcpserver.cpp:68).
THEOREM RemovedOnlyOnce == Spec => []RemovedOnce
<1>1. ConnInv => RemovedOnce
  BY DEF ConnInv, Discipline, RemovedOnce
<1> QED BY <1>1, ConnInvariant, PTL

\* Whatever user code and other threads do, the asserts on the state of a connection
\* that is closed and destroyed hold (tcpconnection.cpp:56, 107).
THEOREM LifecycleHolds == Spec => []LifecycleAsserts
<1>1. ConnInv => LifecycleAsserts
  BY DEF ConnInv, Control
<1> QED BY <1>1, ConnInvariant, PTL

\* A destroyed connection is in no Selector again, whatever its user does
\* (tcpconnection.cpp:104-112, selector.cpp:14-31).
THEOREM StaysOut == Spec => []DestroyedStaysOut
<1>1. ConnInv => DestroyedStaysOut
  BY DEF ConnInv, Control, Removal, Gone, Destroyed, DestroyedStaysOut
<1> QED BY <1>1, ConnInvariant, PTL

\* When a write event is handled it is still wanted and has output to write, whatever
\* has run since epoll_wait reported it (tcpconnection.cpp:75-76, channel.cpp:38-42).
THEOREM WriteEventWanted == Spec => []WriteEventCurrent
<1>1. ConnInv => WriteEventCurrent
  BY DEF ConnInv, Control, Watching, WriteEventCurrent
<1> QED BY <1>1, ConnInvariant, PTL

-----------------------------------------------------------------------------
(* A disciplined user's connection is a ByteStream *)

Written == IF disciplined THEN [k \in 1..total |-> k] ELSE <<>>
Taken   == IF disciplined THEN wire ELSE <<>>
NoMore  == disciplined /\ state \in {"DISCONNECTING", "DISCONNECT"}
Ended   == disciplined /\ wrShut
Broken  == disciplined /\ sock \in {"reset", "dead"}

\* What a step of the connection does to these, as one of a ByteStream.
LEMMA StreamStep ==
    ASSUME \/ UNCHANGED <<Written, Taken, NoMore, Ended, Broken>>
           \/ /\ ~NoMore
              /\ Written' = Written \o [k \in 1..Size |-> Len(Written) + k]
              /\ UNCHANGED <<Taken, NoMore, Ended, Broken>>
           \/ /\ ~Ended /\ ~Broken /\ Len(Taken) < Len(Written)
              /\ Taken' = Append(Taken, Written[Len(Taken) + 1])
              /\ UNCHANGED <<Written, NoMore, Ended, Broken>>
           \/ /\ NoMore' = TRUE /\ Ended' \in {Ended, Taken = Written \/ Broken}
              /\ UNCHANGED <<Written, Taken, Broken>>
           \/ Broken' = TRUE /\ UNCHANGED <<Written, Taken, NoMore, Ended>>
    PROVE  [Stream!Next]_(Stream!streamVars)
<1> QED
  BY Zenon DEF Stream!Next, Stream!Send, Stream!Deliver, Stream!Close, Stream!Break, Stream!streamVars,
         Written, Taken, NoMore, Ended, Broken

LEMMA StreamInit == Init => Stream!Init
<1> SUFFICES ASSUME Init PROVE Stream!Init
  OBVIOUS
<1>1. total = 0 /\ wire = <<>> /\ state = "NONE" /\ wrShut = FALSE /\ sock = "open"
  BY DEF Init
<1>2. [k \in 1..0 |-> k] = <<>>
  OBVIOUS
<1> QED BY <1>1, <1>2 DEF Stream!Init

\* Of another user the stream says nothing.
LEMMA AnyUserStutters ==
    ASSUME ~disciplined, ~disciplined'
    PROVE  UNCHANGED <<Written, Taken, NoMore, Ended, Broken>>
<1> QED BY DEF Written, Taken, NoMore, Ended, Broken

\* A chunk that the kernel takes is the next one, and nobody has closed the write side.
LEMMA KernelDelivers ==
    ASSUME TypeOK, Control, disciplined, disciplined', Discipline, InOrder, KernelTakes
    PROVE  /\ ~Ended /\ ~Broken /\ Len(Taken) < Len(Written)
           /\ Taken' = Append(Taken, Written[Len(Taken) + 1])
           /\ UNCHANGED <<Written, NoMore, Ended, Broken>>
<1>1. /\ call # "none" /\ unsent # <<>> /\ sock \in {"open", "fin"}
      /\ wire' = Append(wire, Head(unsent))
      /\ UNCHANGED <<total, state, wrShut, sock>>
  BY DEF KernelTakes, loopVars
<1>2. ~Ended /\ ~Broken
  BY <1>1 DEF Ended, Broken, Control, Writing
<1>3. /\ Len(wire) \in Nat /\ Len(unsent) \in Nat /\ Len(unsent) > 0 /\ total \in Nat
      /\ Len(output) \in Nat
  <2>1. wire \in Seq(1..Limit) /\ unsent \in Seq(1..Limit) /\ output \in Seq(1..Limit) /\ total \in Nat
    BY LimitNatural, TypesSplit DEF SentTypes
  <2> QED BY <1>1, <2>1, LenProperties, EmptySeq
<1>4. total - Len(unsent) = Len(wire)
  <2>1. CASE call = "handleWrite"
    BY <1>3, <2>1 DEF InOrder
  <2>2. CASE call # "handleWrite"
    <3>1. output = <<>>
      BY <1>1, <2>2, TypesSplit DEF SentTypes, Discipline
    <3>2. Len(output) = 0
      BY <3>1
    <3> QED BY <1>3, <2>2, <3>2 DEF InOrder
  <2> QED BY <2>1, <2>2
<1>5. Head(unsent) = Len(wire) + 1
  <2>1. unsent = Run(Len(wire), Len(unsent))
    BY <1>4 DEF InOrder
  <2> QED BY <1>3, <2>1, RunFacts
<1>6. Len(Written) = total /\ Written[Len(wire) + 1] = Len(wire) + 1
  BY <1>3, <1>4 DEF Written
<1>7. UNCHANGED <<Written, NoMore, Ended, Broken>>
  BY <1>1 DEF Written, NoMore, Ended, Broken
<1> QED BY <1>1, <1>2, <1>3, <1>4, <1>5, <1>6, <1>7 DEF Taken

\* sendData numbers its chunks on, and only while the connection is open.
LEMMA SendDataSends ==
    ASSUME TypeOK, disciplined, disciplined', SendData
    PROVE  /\ ~NoMore
           /\ Written' = Written \o [k \in 1..Size |-> Len(Written) + k]
           /\ UNCHANGED <<Taken, NoMore, Ended, Broken>>
<1>1. /\ state = "CONNECTED" /\ total' = total + Size
      /\ UNCHANGED <<wire, state, wrShut, sock>>
  BY DEF SendData, CanSend, peerVars
<1>2. total \in Nat /\ Size \in Nat
  BY LimitNatural, TypesSplit, ConnectionAssumption DEF SentTypes
<1>3. Written' = Written \o [k \in 1..Size |-> Len(Written) + k]
  <2>1. [k \in 1..total + Size |-> k] = [k \in 1..total |-> k] \o [k \in 1..Size |-> total + k]
    BY <1>2
  <2> QED BY <1>1, <1>2, <2>1 DEF Written
<1>4. ~NoMore /\ UNCHANGED <<Taken, NoMore, Ended, Broken>>
  BY <1>1 DEF Taken, NoMore, Ended, Broken
<1> QED BY <1>3, <1>4

\* The write side is closed with nothing left to write, or not yet.
LEMMA ShutdownCloses ==
    ASSUME TypeOK, Control, disciplined, disciplined', Discipline, InOrder,
           call = "none", ShutdownInLoop, UNCHANGED <<total, wire, sock>>
    PROVE  /\ NoMore' = TRUE /\ Ended' \in {Ended, Taken = Written \/ Broken}
           /\ UNCHANGED <<Written, Taken, Broken>>
<1>1. NoMore' = TRUE
  BY DEF ShutdownInLoop, NoMore
<1>2. UNCHANGED <<Written, Taken, Broken>>
  BY DEF Written, Taken, Broken
<1>3. CASE wrShut
  <2>1. Ended = TRUE /\ Ended' = TRUE
    BY <1>3 DEF ShutdownInLoop, Ended
  <2> QED BY <1>1, <1>2, <2>1
<1>4. CASE ~wrShut /\ events = "write"
  <2>1. Ended = FALSE /\ Ended' = FALSE
    BY <1>4 DEF ShutdownInLoop, Ended
  <2> QED BY <1>1, <1>2, <2>1
<1>5. CASE ~wrShut /\ events # "write"
  <2>1. Ended' = TRUE
    BY <1>5 DEF ShutdownInLoop, Ended
  <2>2. CASE sock = "dead"
    <3>1. (Taken = Written \/ Broken) = TRUE
      BY <2>2 DEF Broken
    <3> QED BY <1>1, <1>2, <2>1, <3>1
  <2>3. CASE output = <<>>
    <3>1. unsent = <<>> /\ wire \in Seq(1..Limit) /\ total \in Nat
      BY LimitNatural, TypesSplit DEF SentTypes
    <3>2. Len(wire) \in Nat /\ Len(output) = 0 /\ Len(unsent) = 0
      BY <2>3, <3>1, LenProperties
    <3>3. wire = Run(0, total)
      <4>1. Len(wire) + Len(output) + Len(unsent) = total /\ wire = Run(0, Len(wire))
        BY DEF InOrder
      <4> QED BY <3>1, <3>2, <4>1
    <3>4. Taken = Written
      BY <3>1, <3>3 DEF Taken, Written, Run
    <3>5. (Taken = Written \/ Broken) = TRUE
      BY <3>4
    <3> QED BY <1>1, <1>2, <2>1, <3>5
  <2> QED BY <1>5, <2>2, <2>3 DEF Discipline
<1> QED BY <1>3, <1>4, <1>5

LEMMA StreamKept ==
    ASSUME ConnInv, [Next]_vars
    PROVE  [Stream!Next]_(Stream!streamVars)
<1>1. TypeOK /\ Control /\ disciplined' = disciplined
  BY DEF ConnInv, Next, IoLoop, User, Peer, ConnectEstablished, Return, Select, DataSent,
         HandleWrite, OutputWritten, ReadMessage, ReadError, HandleClose, QueuedShutdown,
         ConnectDestroyed, SendData, Shutdown, ShutdownByThread, EnterTask, KernelTakes,
         RemoveConnectionInLoop, PeerSends, PeerReads, PeerCloses, Running, vars, rigid
<1>2. CASE ~disciplined
  BY <1>1, <1>2, AnyUserStutters, StreamStep
<1>3. CASE disciplined /\ UNCHANGED vars
  <2>1. UNCHANGED <<Written, Taken, NoMore, Ended, Broken>>
    BY <1>3 DEF vars, rigid, loopVars, streamVars, peerVars, Written, Taken, NoMore, Ended, Broken
  <2> QED BY <2>1, StreamStep
<1>4. CASE disciplined /\ Next
  <2>1. disciplined' /\ Discipline /\ fault = "none" /\ InOrder
    BY <1>1, <1>4 DEF ConnInv, Next, IoLoop, User, Peer, ConnectEstablished, Return, Select, DataSent,
         HandleWrite, OutputWritten, ReadMessage, ReadError, HandleClose, QueuedShutdown,
         ConnectDestroyed, SendData, Shutdown, ShutdownByThread, EnterTask, KernelTakes,
         RemoveConnectionInLoop, PeerSends, PeerReads, PeerCloses, Running
  <2>2. CASE KernelTakes
    BY <1>1, <1>4, <2>1, <2>2, KernelDelivers, StreamStep
  <2>3. CASE SendData
    BY <1>1, <1>4, <2>1, <2>3, SendDataSends, StreamStep
  <2>4. CASE Shutdown \/ QueuedShutdown
    <3>1. call = "none" /\ ShutdownInLoop /\ UNCHANGED <<total, wire, sock>>
      BY <2>4 DEF Shutdown, QueuedShutdown, Idle, InLoop, peerVars
    <3> QED BY <1>1, <1>4, <2>1, <3>1, ShutdownCloses, StreamStep
  <2>5. CASE ConnectDestroyed
    <3>1. UNCHANGED <<Written, Taken, Ended, Broken>>
      BY <1>1, <2>5 DEF ConnectDestroyed, Fail, streamVars, peerVars, Written, Taken, Ended, Broken
    <3>2. NoMore' = TRUE \/ NoMore' = NoMore
      BY <1>1, <1>4, <2>5 DEF ConnectDestroyed, Fail, loopVars, NoMore
    <3> QED BY <3>1, <3>2, StreamStep
  <2>6. CASE DataSent \/ OutputWritten
    <3>1. /\ UNCHANGED <<total, wire, wrShut, state>>
          /\ sock' = sock \/ (sock' = "dead" /\ sock \in {"reset", "dead"})
      <4>1. Size > 0 /\ (call = "handleWrite" => Len(output) > 0)
        <5>1. output \in Seq(1..Limit) /\ (call = "handleWrite" => output # <<>>)
          BY <1>1, TypesSplit DEF SentTypes, Control, Writing, Watching
        <5> QED BY <5>1, ConnectionAssumption, EmptySeq, LenProperties
      <4>2. unsent = <<>> => Len(unsent) = 0
        OBVIOUS
      <4> QED BY <2>6, <4>1, <4>2, ConnectionAssumption DEF DataSent, OutputWritten, WriteReturns
    <3>2. UNCHANGED <<Written, Taken, NoMore, Ended, Broken>>
      BY <1>1, <3>1 DEF Written, Taken, NoMore, Ended, Broken
    <3> QED BY <3>2, StreamStep
  <2>7. CASE ReadError
    <3>1. UNCHANGED <<Written, Taken, NoMore, Ended>>
      <4>1. UNCHANGED <<total, wire, wrShut, state>>
        BY <2>7 DEF ReadError, Fail, loopVars, streamVars
      <4> QED BY <1>1, <4>1 DEF Written, Taken, NoMore, Ended
    <3>2. Broken' = Broken
      <4>1. sock = "reset" /\ sock' \in {"reset", "dead"}
        BY <2>7 DEF ReadError, Fail, peerVars
      <4> QED BY <1>1, <4>1 DEF Broken
    <3> QED BY <3>1, <3>2, StreamStep
  <2>8. CASE PeerCloses
    <3>1. UNCHANGED <<Written, Taken, NoMore, Ended>>
      BY <1>1, <2>8 DEF PeerCloses, loopVars, streamVars, Written, Taken, NoMore, Ended
    <3>2. Broken' = TRUE \/ Broken' = Broken
      BY <1>1, <1>4, <2>8 DEF PeerCloses, Broken
    <3> QED BY <3>1, <3>2, StreamStep
  <2>9. CASE ConnectEstablished
    <3>1. UNCHANGED <<Written, Taken, NoMore, Ended, Broken>>
      BY <1>1, <2>9 DEF ConnectEstablished, streamVars, peerVars, Written, Taken, NoMore, Ended, Broken
    <3> QED BY <3>1, StreamStep
  <2>10. CASE UNCHANGED <<total, wire, wrShut, state, sock>>
    <3>1. UNCHANGED <<Written, Taken, NoMore, Ended, Broken>>
      BY <1>1, <2>10 DEF Written, Taken, NoMore, Ended, Broken
    <3> QED BY <3>1, StreamStep
  <2>11. \/ Return \/ Select \/ HandleWrite \/ ReadMessage \/ HandleClose \/ ShutdownByThread
         \/ EnterTask \/ RemoveConnectionInLoop \/ PeerSends \/ PeerReads
         => UNCHANGED <<total, wire, wrShut, state, sock>>
    BY DEF Return, Select, HandleWrite, ReadMessage, HandleClose, ShutdownByThread, EnterTask,
           RemoveConnectionInLoop, PeerSends, PeerReads, Fail, loopVars, streamVars, peerVars
  <2> QED BY <1>4, <2>2, <2>3, <2>4, <2>5, <2>6, <2>7, <2>8, <2>9, <2>10, <2>11
          DEF Next, IoLoop, User, Peer
<1> QED BY <1>2, <1>3, <1>4

\* For a disciplined user every step is one of a ByteStream, or none: the kernel gets
\* what was handed to sendData in order, none lost or twice, and the write side is closed
\* after the last of it (tcpconnection.cpp:71-102, 146-166, 176-185).
THEOREM StreamRefined == Spec => StreamSpec
<1> QED
  BY StreamInit, StreamKept, ConnInvariant, PTL DEF Spec, StreamSpec, Stream!StreamSpec
=============================================================================
