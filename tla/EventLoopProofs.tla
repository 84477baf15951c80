--------------------------- MODULE EventLoopProofs ---------------------------
(***************************************************************************)
(* The safety properties of EventLoop, for any sets of threads, functions  *)
(* and channels, and the refinement of Mailbox.                            *)
(***************************************************************************)
EXTENDS EventLoop, SequenceTheorems, TLAPS

\* Covered is what NoLostWakeup asks for while the loop is blocked.  It must
\* hold already when the loop has run its functions and goes to test m_quit;
\* only between the read of the eventfd and the swap does it not.
Inv ==
    /\ TypeOK
    /\ pc \in {"init", "test", "select", "exec"} => Covered

-----------------------------------------------------------------------------
(* Queues *)

\* Moving the head of the second queue to the end of the first changes nothing.
LEMMA MoveHead ==
    ASSUME NEW S, NEW r \in Seq(S), NEW s \in Seq(S), s # <<>>
    PROVE  r \o s = Append(r, Head(s)) \o Tail(s)
<1>1. Head(s) \in S /\ Tail(s) \in Seq(S) /\ s = <<Head(s)>> \o Tail(s)
  <2>1. Len(s) \in Nat \ {0} /\ Head(s) = s[1]
    BY EmptySeq
  <2>2. SubSeq(s, 1, Len(s)) = <<s[1]>> \o SubSeq(s, 2, Len(s))
    <3>1. 1 \in 1..Len(s) /\ Len(s) \in 1..Len(s) /\ 1 + 1 = 2
      BY <2>1
    <3> QED BY <3>1, SubSeqRecursiveFirst
  <2> QED BY <2>1, <2>2, SubSeqFull, TailIsSubSeq, HeadTailProperties
<1>2. <<Head(s)>> \in Seq(S)
  BY <1>1
<1>3. Append(r, Head(s)) = r \o <<Head(s)>>
  BY <1>1, AppendIsConcat
<1>4. (r \o <<Head(s)>>) \o Tail(s) = r \o (<<Head(s)>> \o Tail(s))
  BY <1>1, <1>2, ConcatAssociative
<1> QED BY <1>1, <1>3, <1>4

\* The element after a prefix is the head of what follows the prefix.
LEMMA NextAfterPrefix ==
    ASSUME NEW S, NEW r \in Seq(S), NEW s \in Seq(S), s # <<>>
    PROVE  /\ Len(r) < Len(r \o s)
           /\ (r \o s)[Len(r) + 1] = Head(s)
<1>1. Len(r) \in Nat /\ Len(s) \in Nat \ {0} /\ Head(s) = s[1]
  BY EmptySeq, LenProperties
<1>2. /\ Len(r \o s) = Len(r) + Len(s)
      /\ \A i \in 1..Len(r) + Len(s) :
            (r \o s)[i] = IF i <= Len(r) THEN r[i] ELSE s[i - Len(r)]
  BY ConcatProperties
<1>3. Len(r) + 1 \in 1..Len(r) + Len(s) /\ ~(Len(r) + 1 <= Len(r)) /\ (Len(r) + 1) - Len(r) = 1
  BY <1>1
<1> QED BY <1>1, <1>2, <1>3

\* The elements of a queue, after one more was appended.
LEMMA ElementsOfAppend ==
    ASSUME NEW q \in Seq(Tasks), NEW e \in Tasks
    PROVE  Elements(Append(q, e)) = Elements(q) \cup {e}
<1>1. /\ DOMAIN q = 1..Len(q) /\ Len(q) \in Nat
      /\ DOMAIN Append(q, e) = (1..Len(q)) \cup {Len(q) + 1}
      /\ \A i \in 1..Len(q) : Append(q, e)[i] = q[i]
      /\ Append(q, e)[Len(q) + 1] = e
  BY AppendProperties, LenProperties
<1> QED BY <1>1, Zenon DEF Elements

-----------------------------------------------------------------------------
(* Steps that several actions share *)

\* Handing over one more function keeps the queues typed and in order.
LEMMA PushKeeps ==
    ASSUME TypeOK, NEW t \in Fresh, Push(t)
    PROVE  /\ taskQ' \in Seq(Tasks)
           /\ queued' \in Seq(Tasks)
           /\ Elements(taskQ') = Elements(taskQ) \cup {t}
           /\ t \in Tasks
           /\ InOrder => queued' = ran \o tempTaskQ \o taskQ'
<1>1. t \in Tasks /\ taskQ \in Seq(Tasks) /\ queued \in Seq(Tasks)
      /\ ran \in Seq(Tasks) /\ tempTaskQ \in Seq(Tasks)
  BY DEF TypeOK, Fresh
<1>2. taskQ' = Append(taskQ, t) /\ queued' = Append(queued, t)
  BY DEF Push
<1>3. Elements(taskQ') = Elements(taskQ) \cup {t}
  <2>1. Elements(Append(taskQ, t)) = Elements(taskQ) \cup {t}
    BY <1>1, ElementsOfAppend
  <2> QED BY <1>2, <2>1
<1>4. InOrder => queued' = ran \o tempTaskQ \o taskQ'
  <2> DEFINE s == ran \o tempTaskQ
  <2>1. s \in Seq(Tasks)
    BY <1>1, ConcatProperties
  <2> HIDE DEF s
  <2>2. Append(s \o taskQ, t) = s \o Append(taskQ, t)
    <3>1. s \o taskQ \in Seq(Tasks) /\ <<t>> \in Seq(Tasks)
      BY <1>1, <2>1, ConcatProperties
    <3>2. (s \o taskQ) \o <<t>> = s \o (taskQ \o <<t>>)
      BY <1>1, <2>1, <3>1, ConcatAssociative
    <3>3. Append(taskQ, t) = taskQ \o <<t>>
      BY <1>1, AppendIsConcat
    <3>4. Append(s \o taskQ, t) = (s \o taskQ) \o <<t>>
      BY <1>1, <3>1, AppendIsConcat
    <3> QED BY <3>2, <3>3, <3>4
  <2> QED BY <1>2, <2>2 DEF InOrder, s
<1> QED BY <1>1, <1>2, <1>3, <1>4, AppendProperties

\* What callback code may do to its loop, as far as the queues are concerned:
\* nothing, or one push and, while execTasks runs, a wakeup with it.
LEMMA CallbackKeeps ==
    ASSUME TypeOK, NEW R \in SUBSET Channels, Callback(R)
    PROVE  /\ taskQ' \in Seq(Tasks)
           /\ queued' \in Seq(Tasks)
           /\ wakeupFd' \in BOOLEAN
           /\ quit' \in BOOLEAN
           /\ registered' \subseteq Channels
           /\ registered \ R \subseteq registered'
           /\ wakeupFd => wakeupFd'
           /\ InOrder => queued' = ran \o tempTaskQ \o taskQ'
           /\ UNCHANGED taskQ \/ (callingTask => wakeupFd')
<1>1. CASE UNCHANGED <<taskQ, queued, wakeupFd, quit, registered>>
  BY <1>1 DEF TypeOK, InOrder
<1>2. CASE /\ \E t \in Fresh : QueueInOwnLoop(t)
           /\ UNCHANGED <<quit, registered>>
  <2>1. PICK t \in Fresh : QueueInOwnLoop(t)
    BY <1>2
  <2>2. Push(t) /\ wakeupFd' = (wakeupFd \/ NeedsWakeup(TRUE))
    BY <2>1 DEF QueueInOwnLoop
  <2>3. wakeupFd' = (wakeupFd \/ callingTask)
    BY <2>2 DEF NeedsWakeup
  <2>4. /\ taskQ' \in Seq(Tasks)
        /\ queued' \in Seq(Tasks)
        /\ InOrder => queued' = ran \o tempTaskQ \o taskQ'
    BY <2>2, PushKeeps
  <2> QED BY <1>2, <2>3, <2>4 DEF TypeOK
<1>3. CASE /\ quit' = TRUE
           /\ UNCHANGED <<taskQ, queued, wakeupFd, registered>>
  BY <1>3 DEF TypeOK, InOrder
<1>4. CASE /\ \/ \E c \in Channels : registered' = registered \cup {c}
              \/ \E c \in R : registered' = registered \ {c}
           /\ UNCHANGED <<taskQ, queued, wakeupFd, quit>>
  <2>1. registered' \subseteq Channels /\ registered \ R \subseteq registered'
    BY <1>4 DEF TypeOK
  <2> QED BY <1>4, <2>1 DEF TypeOK, InOrder
<1> QED BY <1>1, <1>2, <1>3, <1>4 DEF Callback

-----------------------------------------------------------------------------
(* No wakeup is lost *)

LEMMA InitInv == Init => Inv
<1> SUFFICES ASSUME Init PROVE Inv
  OBVIOUS
<1>1. <<>> \in Seq(Tasks) /\ Elements(<<>>) = {}
  BY EmptySeq DEF Elements
<1>2. TypeOK
  BY <1>1 DEF Init, TypeOK
<1>3. Covered
  BY <1>1 DEF Init, Covered
<1> QED BY <1>2, <1>3 DEF Inv

LEMMA StepInv == Inv /\ [Next]_vars => Inv'
<1> SUFFICES ASSUME Inv, [Next]_vars PROVE Inv'
  OBVIOUS
<1> USE DEF Inv
<1>1. ASSUME NEW th \in Threads, QueueInLoop(th)
      PROVE  Inv'
  <2>1. PICK t \in Fresh : Push(t)
    BY <1>1 DEF QueueInLoop
  <2>2. /\ taskQ' \in Seq(Tasks) /\ queued' \in Seq(Tasks)
    BY <2>1, PushKeeps
  <2>3. caller' = [caller EXCEPT ![th] = "wakeup"]
    BY <1>1 DEF QueueInLoop, NeedsWakeup
  <2>4. TypeOK'
    BY <1>1, <2>2, <2>3 DEF TypeOK, QueueInLoop, poll
  <2>5. Covered'
    BY <2>3 DEF Covered, TypeOK
  <2> QED BY <2>4, <2>5
<1>2. ASSUME NEW th \in Threads, Wakeup(th)
      PROVE  Inv'
  BY <1>2 DEF Wakeup, TypeOK, Covered, poll
<1>3. ASSUME NEW th \in Threads, Quit(th)
      PROVE  Inv'
  BY <1>3 DEF Quit, TypeOK, Covered, poll
<1>4. CASE QueueBeforeLoop
  <2>1. PICK t \in Fresh : QueueInOwnLoop(t) /\ early' = early \cup {t}
    BY <1>4 DEF QueueBeforeLoop
  <2>2. /\ taskQ' \in Seq(Tasks) /\ queued' \in Seq(Tasks)
        /\ Elements(taskQ') = Elements(taskQ) \cup {t} /\ t \in Tasks
    BY <2>1, PushKeeps DEF QueueInOwnLoop
  <2>3. wakeupFd' = (wakeupFd \/ callingTask)
    BY <2>1 DEF QueueInOwnLoop, NeedsWakeup
  <2>4. TypeOK'
    BY <1>4, <2>1, <2>2, <2>3 DEF TypeOK, QueueBeforeLoop, poll
  <2>5. Covered'
    BY <1>4, <2>1, <2>2, <2>3 DEF QueueBeforeLoop, Covered
  <2> QED BY <2>4, <2>5
<1>5. CASE StartLoop
  BY <1>5 DEF StartLoop, TypeOK, Covered, poll
<1>6. CASE TestQuit
  BY <1>6 DEF TestQuit, AfterTest, TypeOK, Covered, poll
<1>7. CASE Select
  BY <1>7 DEF Select, ReadyChannels, TypeOK
<1>8. CASE SelectError
  BY <1>8 DEF SelectError, TypeOK, poll
<1>9. CASE HandleWakeup
  BY <1>9 DEF HandleWakeup, TypeOK
<1>10. ASSUME NEW c \in Channels, HandleEvents(c)
       PROVE  Inv'
  <2>1. Removable(c) \in SUBSET Channels /\ Callback(Removable(c))
    BY <1>10 DEF HandleEvents, Removable
  <2>2. /\ taskQ' \in Seq(Tasks) /\ queued' \in Seq(Tasks)
        /\ wakeupFd' \in BOOLEAN /\ quit' \in BOOLEAN /\ registered' \subseteq Channels
    BY <2>1, CallbackKeeps
  <2> QED BY <1>10, <2>2 DEF HandleEvents, TypeOK
<1>11. CASE ExecTasks
  <2>1. Elements(<<>>) = {} /\ <<>> \in Seq(Tasks)
    BY EmptySeq DEF Elements
  <2> QED BY <1>11, <2>1 DEF ExecTasks, SwapQueues, TypeOK, Covered, poll
<1>12. CASE RunTask
  <2>1. Callback(Channels)
    BY <1>12 DEF RunTask
  <2>2. /\ taskQ' \in Seq(Tasks) /\ queued' \in Seq(Tasks)
        /\ wakeupFd' \in BOOLEAN /\ quit' \in BOOLEAN /\ registered' \subseteq Channels
        /\ wakeupFd => wakeupFd'
        /\ UNCHANGED taskQ \/ (callingTask => wakeupFd')
    BY <2>1, CallbackKeeps
  <2>3. Tail(tempTaskQ) \in Seq(Tasks) /\ Head(tempTaskQ) \in Tasks
    BY <1>12, HeadTailProperties DEF RunTask, TypeOK
  <2>4. TypeOK'
    BY <1>12, <2>2, <2>3, AppendProperties DEF RunTask, TypeOK
  <2>5. Covered'
    BY <1>12, <2>2 DEF RunTask, TypeOK, Covered
  <2> QED BY <2>4, <2>5
<1>13. CASE EndTasks
  BY <1>13 DEF EndTasks, TypeOK, Covered, poll
<1>14. ASSUME NEW c \in Channels, Arrive(c)
       PROVE  Inv'
  BY <1>14 DEF Arrive, TypeOK, Covered
<1>15. CASE UNCHANGED vars
  BY <1>15 DEF vars, TypeOK, Covered
<1> QED
  BY <1>1, <1>2, <1>3, <1>4, <1>5, <1>6, <1>7, <1>8, <1>9, <1>10, <1>11, <1>12,
     <1>13, <1>14, <1>15 DEF Next, LoopThread

LEMMA Invariance == Spec => []Inv
<1> QED BY InitInv, StepInv, PTL DEF Spec

\* The state of the loop keeps its type: in particular m_callingTask is up
\* exactly while execTasks runs functions, on which queueInLoop relies
\* (eventLoop.cpp:120, 146, 158).
THEOREM TypeCorrect == Spec => []TypeOK
<1>1. Inv => TypeOK
  BY DEF Inv
<1> QED BY <1>1, Invariance, PTL

\* A loop blocked in epoll_wait never leaves a function behind that was queued
\* by another thread, or by callback code, without a wakeup on its way
\* (eventLoop.cpp:113-124, 144-158).
THEOREM WakeupNotLost == Spec => []NoLostWakeup
<1>1. Inv => NoLostWakeup
  BY DEF Inv, NoLostWakeup
<1> QED BY <1>1, Invariance, PTL

-----------------------------------------------------------------------------
(* Order *)

\* Nothing queued is lost, duplicated or reordered (eventLoop.cpp:115-118,
\* 148-156).
THEOREM QueueOrder == Spec => []InOrder
<1>1. Init => InOrder
  BY ConcatEmptySeq, EmptySeq DEF Init, InOrder
<1>2. Inv /\ InOrder /\ [Next]_vars => InOrder'
  <2> SUFFICES ASSUME Inv, InOrder, [Next]_vars PROVE InOrder'
    OBVIOUS
  <2>1. TypeOK
    BY DEF Inv
  <2>2. ASSUME NEW th \in Threads, QueueInLoop(th)
        PROVE  InOrder'
    BY <2>1, <2>2, PushKeeps DEF QueueInLoop, InOrder
  <2>3. CASE QueueBeforeLoop
    BY <2>1, <2>3, PushKeeps DEF QueueBeforeLoop, QueueInOwnLoop, InOrder
  <2>4. ASSUME NEW c \in Channels, HandleEvents(c)
        PROVE  InOrder'
    <3>1. Removable(c) \in SUBSET Channels /\ Callback(Removable(c))
      BY <2>4 DEF HandleEvents, Removable
    <3> QED BY <2>1, <2>4, <3>1, CallbackKeeps DEF HandleEvents, InOrder
  <2>5. CASE ExecTasks
    <3>1. tempTaskQ = <<>> /\ tempTaskQ' = taskQ /\ taskQ' = <<>>
      BY <2>1, <2>5 DEF ExecTasks, SwapQueues, TypeOK
    <3>2. ran \in Seq(Tasks) /\ taskQ \in Seq(Tasks) /\ ran \o taskQ \in Seq(Tasks)
      BY <2>1, ConcatProperties DEF TypeOK
    <3>3. ran \o <<>> \o taskQ = ran \o taskQ /\ ran \o taskQ \o <<>> = ran \o taskQ
      BY <3>2, ConcatEmptySeq
    <3> QED BY <2>5, <3>1, <3>3 DEF ExecTasks, InOrder
  <2>6. CASE RunTask
    <3>1. queued' = ran \o tempTaskQ \o taskQ'
      BY <2>1, <2>6, CallbackKeeps DEF RunTask
    <3>2. ran \o tempTaskQ = ran' \o tempTaskQ'
      BY <2>1, <2>6, MoveHead DEF RunTask, TypeOK
    <3> QED BY <3>1, <3>2 DEF InOrder
  <2>7. CASE UNCHANGED <<queued, ran, tempTaskQ, taskQ>>
    BY <2>7 DEF InOrder
  <2> QED
    BY <2>2, <2>3, <2>4, <2>5, <2>6, <2>7
    DEF Next, LoopThread, vars, StartLoop, TestQuit, Select, SelectError,
        HandleWakeup, EndTasks, Wakeup, Quit, Arrive
<1> QED BY <1>1, <1>2, Invariance, PTL DEF Spec

-----------------------------------------------------------------------------
(* Dispatch *)

\* No handler runs for a channel that has left the poller since epoll_wait
\* returned, as long as a handler removes only its own channel
\* (eventLoop.cpp:67-73, selector.cpp:50-56).
THEOREM DispatchSafe == Spec => []DispatchRegistered
<1>1. Init => DispatchRegistered
  BY DEF Init, DispatchRegistered
<1>2. Inv /\ DispatchRegistered /\ [Next]_vars => DispatchRegistered'
  <2> SUFFICES ASSUME Inv, DispatchRegistered, [Next]_vars PROVE DispatchRegistered'
    OBVIOUS
  <2>1. TypeOK
    BY DEF Inv
  <2>2. CASE Select
    BY <2>2 DEF Select, ReadyChannels, DispatchRegistered
  <2>3. CASE HandleWakeup
    BY <2>3 DEF HandleWakeup, DispatchRegistered
  <2>4. ASSUME NEW c \in Channels, HandleEvents(c)
        PROVE  DispatchRegistered'
    <3>1. Callback({c}) /\ active' = active \ {c}
      BY <2>4 DEF HandleEvents, Removable
    <3>2. registered \ {c} \subseteq registered'
      BY <2>1, <3>1, CallbackKeeps
    <3> QED BY <3>1, <3>2 DEF DispatchRegistered
  <2>5. CASE RunTask
    BY <2>1, <2>5 DEF RunTask, TypeOK, DispatchRegistered
  <2>6. CASE UNCHANGED <<active, registered>>
    BY <2>6 DEF DispatchRegistered
  <2> QED
    BY <2>2, <2>3, <2>4, <2>5, <2>6
    DEF Next, LoopThread, vars, poll, StartLoop, TestQuit, SelectError, ExecTasks,
        EndTasks, QueueInLoop, QueueBeforeLoop, Wakeup, Quit, Arrive
<1> QED BY <1>1, <1>2, Invariance, PTL DEF Spec
-----------------------------------------------------------------------------
(* Refinement *)

\* A push onto m_taskQ is a function handed to the mailbox.
LEMMA PushHands ==
    ASSUME NEW t \in Fresh, Push(t)
    PROVE  t \in Tasks \ Box!Submitted /\ Box!Hand(t)
<1> QED BY DEF Fresh, Elements, Push, Box!Submitted, Box!Hand

\* Callback code hands at most one function to its loop.
LEMMA CallbackHands ==
    ASSUME NEW R, Callback(R)
    PROVE  \/ UNCHANGED queued
           \/ \E t \in Tasks \ Box!Submitted : Box!Hand(t)
<1> QED BY PushHands DEF Callback, QueueInOwnLoop

\* EventLoop implements Mailbox: every function handed to the loop runs at most
\* once, in the order of the calls, across the swap of the queues and whatever
\* thread called (eventLoop.cpp:113-159).
THEOREM Refinement == Spec => MailboxSpec
<1>1. Init => Box!Init
  BY DEF Init, Box!Init
<1>2. Inv /\ InOrder /\ [Next]_vars => [Box!Next]_(Box!vars)
  <2> SUFFICES ASSUME Inv, InOrder, [Next]_vars PROVE [Box!Next]_(Box!vars)
    OBVIOUS
  <2>1. TypeOK
    BY DEF Inv
  <2>2. ASSUME NEW th \in Threads, QueueInLoop(th)
        PROVE  Box!Next
    BY <2>2, PushHands DEF QueueInLoop, Box!Next, Box!Submit
  <2>3. CASE QueueBeforeLoop
    BY <2>3, PushHands DEF QueueBeforeLoop, QueueInOwnLoop, Box!Next, Box!Submit
  <2>4. ASSUME NEW c \in Channels, HandleEvents(c)
        PROVE  [Box!Next]_(Box!vars)
    BY <2>4, CallbackHands DEF HandleEvents, Box!Next, Box!Submit, Box!vars
  <2>5. CASE RunTask
    <3>1. ran \in Seq(Tasks) /\ tempTaskQ \in Seq(Tasks) /\ tempTaskQ # <<>>
          /\ taskQ \in Seq(Tasks)
      BY <2>1, <2>5 DEF RunTask, TypeOK
    <3>2. Len(ran) < Len(queued) /\ queued[Len(ran) + 1] = Head(tempTaskQ)
      <4>1. /\ ran \o tempTaskQ \in Seq(Tasks)
            /\ Len(ran) < Len(ran \o tempTaskQ)
            /\ (ran \o tempTaskQ)[Len(ran) + 1] = Head(tempTaskQ)
        BY <3>1, NextAfterPrefix, ConcatProperties
      <4>2. Len(ran) \in Nat /\ Len(ran \o tempTaskQ) \in Nat /\ Len(taskQ) \in Nat
        BY <3>1, <4>1, LenProperties
      <4>3. /\ Len(queued) = Len(ran \o tempTaskQ) + Len(taskQ)
            /\ \A i \in 1..Len(ran \o tempTaskQ) + Len(taskQ) :
                  queued[i] = IF i <= Len(ran \o tempTaskQ)
                                THEN (ran \o tempTaskQ)[i]
                                ELSE taskQ[i - Len(ran \o tempTaskQ)]
        BY <3>1, <4>1, ConcatProperties DEF InOrder
      <4> HIDE DEF InOrder
      <4> QED BY <4>1, <4>2, <4>3
    <3>3. ran' = Append(ran, queued[Len(ran) + 1])
      BY <2>5, <3>2 DEF RunTask
    <3>4. UNCHANGED queued \/ \E t \in Tasks \ Box!Submitted : Box!Hand(t)
      BY <2>5, CallbackHands DEF RunTask
    <3> QED BY <3>2, <3>3, <3>4 DEF Box!Next, Box!Run
  <2>6. CASE UNCHANGED <<queued, ran>>
    BY <2>6 DEF Box!vars
  <2> QED
    BY <2>2, <2>3, <2>4, <2>5, <2>6
    DEF Next, LoopThread, vars, StartLoop, TestQuit, Select, SelectError,
        HandleWakeup, ExecTasks, EndTasks, Wakeup, Quit, Arrive, Box!vars
<1> QED
  BY <1>1, <1>2, Invariance, QueueOrder, PTL DEF Spec, MailboxSpec, Box!Spec
=============================================================================
