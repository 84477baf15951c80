------------------------------ MODULE EventLoop ------------------------------
(***************************************************************************)
(* tcp/eventLoop.cpp with the Selector and the Channel dispatch it drives: *)
(* one thread that waits in epoll, runs the handlers of the channels that  *)
(* are ready and then the functions other code has handed to it, woken     *)
(* through an eventfd.  Any thread may call queueInLoop; the steps of such *)
(* a call (append under the mutex, then write to the eventfd) interleave   *)
(* with the loop's own.                                                    *)
(*                                                                         *)
(* A function or handler ("callback code") is opaque: it does one of the   *)
(* things callback code can do to its loop.  runInLoop is not an operation *)
(* of its own: on the loop's thread it is a plain call, elsewhere it is    *)
(* queueInLoop.                                                            *)
(***************************************************************************)
EXTENDS Naturals, Sequences

CONSTANTS Threads,      \* the threads other than the loop's that use the loop
          Tasks,        \* the functions, each handed over at most once
          Channels,     \* channels on fds other than the eventfd
          WakeupChannel \* m_wakeupChannel

ASSUME WakeupAssumption == WakeupChannel \notin Channels

VARIABLES pc,           \* where the loop's thread is
          quit,         \* m_quit
          callingTask,  \* m_callingTask
          taskQ,        \* m_taskQ
          tempTaskQ,    \* execTasks' local queue, from the function being run
          wakeupFd,     \* is the eventfd readable (its counter non-zero)?
          registered,   \* Selector::m_channelMaps without m_wakeupChannel
          ready,        \* channels whose fd has pending events
          active,       \* m_activeChannelList, from the channel being handled
          caller,       \* where each thread is in queueInLoop
          queued,       \* history: every function ever queued, in order
          ran,          \* history: the queued functions that ran, in order
          early         \* history: queued by the owner before it called loop()

vars == <<pc, quit, callingTask, taskQ, tempTaskQ, wakeupFd, registered, ready,
          active, caller, queued, ran, early>>

poll == <<registered, ready, active>>   \* what only the poller's steps touch

Elements(s) == {s[i] : i \in DOMAIN s}

Fresh == Tasks \ Elements(queued)

-----------------------------------------------------------------------------
(* queueInLoop *)

\* mutant: the newest function goes first
PushFront(t) ==
    /\ taskQ' = <<t>> \o taskQ
    /\ queued' = Append(queued, t)

Push(t) ==
    /\ taskQ' = Append(taskQ, t)
    /\ queued' = Append(queued, t)

\* mutants: either disjunct of the test in queueInLoop is left out
NeedsWakeupAcross(inLoopThread) == ~inLoopThread
NeedsWakeupInTask(inLoopThread) == callingTask

NeedsWakeup(inLoopThread) == ~inLoopThread \/ callingTask

\* The two halves of a call made by another thread.
QueueInLoop(th) ==
    /\ caller[th] = "idle"
    /\ \E t \in Fresh : Push(t)
    /\ caller' = [caller EXCEPT ![th] = IF NeedsWakeup(FALSE) THEN "wakeup" ELSE "idle"]
    /\ UNCHANGED <<pc, quit, callingTask, tempTaskQ, wakeupFd, poll, ran, early>>

Wakeup(th) ==
    /\ caller[th] = "wakeup"
    /\ wakeupFd' = TRUE
    /\ caller' = [caller EXCEPT ![th] = "idle"]
    /\ UNCHANGED <<pc, quit, callingTask, taskQ, tempTaskQ, poll, queued, ran,
                   early>>

\* A call made by the loop's own thread.  Only that thread reads the eventfd,
\* so nothing can come between the two halves.
QueueInOwnLoop(t) ==
    /\ Push(t)
    /\ wakeupFd' = (wakeupFd \/ NeedsWakeup(TRUE))

\* The owner, between constructing the loop and calling loop().
QueueBeforeLoop ==
    /\ pc = "init"
    /\ \E t \in Fresh : QueueInOwnLoop(t) /\ early' = early \cup {t}
    /\ UNCHANGED <<pc, quit, callingTask, tempTaskQ, poll, caller, ran>>

\* quit() sets m_quit and does not wake the loop up.
Quit(th) ==
    /\ caller[th] = "idle"
    /\ quit' = TRUE
    /\ UNCHANGED <<pc, callingTask, taskQ, tempTaskQ, wakeupFd, poll, caller,
                   queued, ran, early>>

-----------------------------------------------------------------------------
(* The loop's thread *)

\* What one callback may do to its loop: nothing, queue a function, quit,
\* register a channel, or remove one of `removable`.
Callback(removable) ==
    \/ UNCHANGED <<taskQ, queued, wakeupFd, quit, registered>>
    \/ /\ \E t \in Fresh : QueueInOwnLoop(t)
       /\ UNCHANGED <<quit, registered>>
    \/ /\ quit' = TRUE
       /\ UNCHANGED <<taskQ, queued, wakeupFd, registered>>
    \/ /\ \/ \E c \in Channels : registered' = registered \cup {c}
          \/ \E c \in removable : registered' = registered \ {c}
       /\ UNCHANGED <<taskQ, queued, wakeupFd, quit>>

\* loop() is entered with whatever the owner has registered.
StartLoop ==
    /\ pc = "init"
    /\ pc' = "test"
    /\ UNCHANGED <<quit, callingTask, taskQ, tempTaskQ, wakeupFd, poll, caller,
                   queued, ran, early>>

\* mutant: quitting waits for an empty queue
AfterTestDrained == IF quit /\ taskQ = <<>> THEN "done" ELSE "select"

AfterTest == IF quit THEN "done" ELSE "select"

TestQuit ==
    /\ pc = "test"
    /\ pc' = AfterTest
    /\ UNCHANGED <<quit, callingTask, taskQ, tempTaskQ, wakeupFd, poll, caller,
                   queued, ran, early>>

\* What epoll_wait reports: every registered fd with an event.
ReadyChannels ==
    (ready \cap registered) \cup (IF wakeupFd THEN {WakeupChannel} ELSE {})

Select ==
    /\ pc = "select"
    /\ ReadyChannels # {}
    /\ active' = ReadyChannels
    /\ pc' = "handle"
    /\ UNCHANGED <<quit, callingTask, taskQ, tempTaskQ, wakeupFd, registered,
                   ready, caller, queued, ran, early>>

\* epoll_wait fails (EINTR): logged, and the round goes on with no channel.
SelectError ==
    /\ pc = "select"
    /\ pc' = "handle"
    /\ UNCHANGED <<quit, callingTask, taskQ, tempTaskQ, wakeupFd, poll, caller,
                   queued, ran, early>>

\* EventLoop::handleRead, the handler of m_wakeupChannel.
HandleWakeup ==
    /\ pc = "handle"
    /\ WakeupChannel \in active
    /\ wakeupFd' = FALSE
    /\ active' = active \ {WakeupChannel}
    /\ UNCHANGED <<pc, quit, callingTask, taskQ, tempTaskQ, registered, ready,
                   caller, queued, ran, early>>

\* A handler removes no channel but its own.
Removable(c) == {c}

\* A handler consumes its event; one that does not is Arrive'd again.
HandleEvents(c) ==
    /\ pc = "handle"
    /\ c \in active
    /\ active' = active \ {c}
    /\ ready' = ready \ {c}
    /\ Callback(Removable(c))
    /\ UNCHANGED <<pc, callingTask, tempTaskQ, caller, ran, early>>

SwapQueues == tempTaskQ' = taskQ /\ taskQ' = <<>>

ExecTasks ==
    /\ pc = "handle"
    /\ active = {}
    /\ pc' = "exec"
    /\ callingTask' = TRUE
    /\ SwapQueues
    /\ UNCHANGED <<quit, wakeupFd, poll, caller, queued, ran, early>>

RunTask ==
    /\ pc = "exec"
    /\ tempTaskQ # <<>>
    /\ tempTaskQ' = Tail(tempTaskQ)
    /\ ran' = Append(ran, Head(tempTaskQ))
    /\ Callback(Channels)
    /\ UNCHANGED <<pc, callingTask, ready, active, caller, early>>

EndTasks ==
    /\ pc = "exec"
    /\ tempTaskQ = <<>>
    /\ callingTask' = FALSE
    /\ pc' = "test"
    /\ UNCHANGED <<quit, taskQ, tempTaskQ, wakeupFd, poll, caller, queued, ran,
                   early>>

-----------------------------------------------------------------------------
(* The kernel: an event arrives for a channel. *)

Arrive(c) ==
    /\ c \notin ready
    /\ ready' = ready \cup {c}
    /\ UNCHANGED <<pc, quit, callingTask, taskQ, tempTaskQ, wakeupFd, registered,
                   active, caller, queued, ran, early>>

-----------------------------------------------------------------------------

Init ==
    /\ pc = "init"
    /\ quit = FALSE
    /\ callingTask = FALSE
    /\ taskQ = <<>>
    /\ tempTaskQ = <<>>
    /\ wakeupFd = FALSE
    /\ registered \in SUBSET Channels
    /\ ready = {}
    /\ active = {}
    /\ caller = [th \in Threads |-> "idle"]
    /\ queued = <<>>
    /\ ran = <<>>
    /\ early = {}

LoopThread ==
    \/ StartLoop \/ TestQuit \/ Select \/ HandleWakeup
    \/ \E c \in Channels : HandleEvents(c)
    \/ ExecTasks \/ RunTask \/ EndTasks

Next ==
    \/ LoopThread
    \/ SelectError
    \/ QueueBeforeLoop
    \/ \E th \in Threads : QueueInLoop(th) \/ Wakeup(th) \/ Quit(th)
    \/ \E c \in Channels : Arrive(c)

Spec == Init /\ [][Next]_vars

\* The loop's thread is scheduled, and a thread that is inside queueInLoop
\* finishes the call.  No caller has to call anything, no event has to arrive.
Fairness ==
    /\ WF_vars(LoopThread)
    /\ \A th \in Threads : WF_vars(Wakeup(th))

FairSpec == Spec /\ Fairness

-----------------------------------------------------------------------------
(* Properties *)

\* The state has its type; m_callingTask is up exactly while execTasks runs
\* functions, and only then does its local queue hold any (eventLoop.cpp:146-158).
TypeOK ==
    /\ pc \in {"init", "test", "select", "handle", "exec", "done"}
    /\ quit \in BOOLEAN
    /\ callingTask = (pc = "exec")
    /\ taskQ \in Seq(Tasks)
    /\ tempTaskQ \in Seq(Tasks)
    /\ pc # "exec" => tempTaskQ = <<>>
    /\ wakeupFd \in BOOLEAN
    /\ registered \subseteq Channels
    /\ ready \subseteq Channels
    /\ active \subseteq Channels \cup {WakeupChannel}
    /\ pc # "handle" => active = {}
    /\ caller \in [Threads -> {"idle", "wakeup"}]
    /\ queued \in Seq(Tasks)
    /\ ran \in Seq(Tasks)
    /\ early \subseteq Tasks

\* A wakeup is under way, or m_taskQ holds nothing that anyone was promised.
Covered ==
    \/ wakeupFd
    \/ \E th \in Threads : caller[th] = "wakeup"
    \/ Elements(taskQ) \subseteq early

\* While the loop is blocked in epoll_wait, a queued function is never left
\* behind without a wakeup on its way (eventLoop.cpp:120-123 against :144-158).
\* What the owner queued before loop() is the exception: that call sees the
\* loop's own thread with m_callingTask down, and writes no wakeup.
NoLostWakeup == pc = "select" => Covered

\* Nothing queued is lost, duplicated or reordered between the two queues and
\* the functions already run (the swap at eventLoop.cpp:147-151).
InOrder == queued = ran \o tempTaskQ \o taskQ

\* A handler is only ever run for a channel that is still registered, although
\* m_activeChannelList is a snapshot of raw pointers (eventLoop.cpp:69-72).
DispatchRegistered == active \subseteq registered \cup {WakeupChannel}

\* EventLoop implements the mailbox of queueInLoop: each function at most once,
\* in the order of the calls, whatever thread they came from.
Box == INSTANCE Mailbox WITH submitted <- queued
MailboxSpec == Box!Spec

\* A function queued by any thread, or by callback code, is run unless the
\* loop is asked to quit (eventLoop.cpp:113-124, 144-158).
TaskRuns ==
    \A t \in Tasks :
        t \in Elements(queued) \ early ~> (t \in Elements(ran) \/ quit)

\* quit() ends the loop, provided it is not asleep in epoll_wait with nothing
\* to wake it (eventLoop.cpp:64, 78-81).
QuitStops == (quit /\ (pc # "select" \/ wakeupFd)) ~> pc = "done"
=============================================================================
