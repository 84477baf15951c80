------------------------- MODULE EventLoopThreadPool -------------------------
(***************************************************************************)
(* tcp/eventLoopThread.cpp and eventLoopThreadPool.cpp: the server's       *)
(* thread starts one thread per io loop, one after the other, and waits on *)
(* a condition variable until each has published its EventLoop; later it   *)
(* deals connections out to the loops in turn.                             *)
(*                                                                         *)
(* The wait has no predicate: it returns when it is notified, or without a *)
(* reason, and a notification that finds nobody waiting is gone.           *)
(***************************************************************************)
EXTENDS Naturals, Sequences

CONSTANTS N,          \* m_loopNum
          MaxConns    \* bound: connections dealt out

ASSUME PoolAssumption == N \in Nat /\ MaxConns \in Nat

Loops == 0..N - 1
Null  == N            \* no loop

VARIABLES pc,         \* the server's thread in the start of thread i
          i,          \* the loop variable of start
          thread,     \* where each thread is in threadFunc
          mutex,      \* is each EventLoopThread's m_mutex taken by its thread?
          eventLoop,  \* each EventLoopThread's m_eventLoop
          loops,      \* m_loops
          started,    \* m_started
          next,       \* m_next
          dealt,      \* history: the loops given out
          unasked     \* history: the threads for which wait returned unnotified

poolVars == <<pc, i, thread, mutex, eventLoop, loops, started, next, dealt, unasked>>

-----------------------------------------------------------------------------
(* The server's thread *)

CreateThread ==
    /\ pc = "create" /\ i < N
    /\ thread' = [thread EXCEPT ![i] = "spawned"]
    /\ pc' = "lock"
    /\ UNCHANGED <<i, mutex, eventLoop, loops, started, next, dealt, unasked>>

\* The lock is taken and given up again by the wait.
Wait ==
    /\ pc = "lock"
    /\ ~mutex[i]
    /\ pc' = "waiting"
    /\ UNCHANGED <<i, thread, mutex, eventLoop, loops, started, next, dealt, unasked>>

SpuriousWakeup ==
    /\ pc = "waiting"
    /\ pc' = "woken"
    /\ unasked' = unasked \cup {i}
    /\ UNCHANGED <<i, thread, mutex, eventLoop, loops, started, next, dealt>>

\* The wait takes the lock again and start returns m_eventLoop.
Return ==
    /\ pc = "woken"
    /\ ~mutex[i]
    /\ loops' = [loops EXCEPT ![i] = eventLoop[i]]
    /\ i' = i + 1
    /\ pc' = "create"
    /\ UNCHANGED <<thread, mutex, eventLoop, started, next, dealt, unasked>>

PoolStarted ==
    /\ pc = "create" /\ i = N
    /\ started' = TRUE
    /\ pc' = "serve"
    /\ UNCHANGED <<i, thread, mutex, eventLoop, loops, next, dealt, unasked>>

\* mutant: the last loop of the pool is passed over
AfterNextShort == IF next + 1 >= N - 1 THEN 0 ELSE next + 1

AfterNext == IF next + 1 >= N THEN 0 ELSE next + 1

\* For a new connection; a pool of no loops gives out the server's own.
GetNextLoop ==
    /\ pc = "serve" /\ started
    /\ Len(dealt) < MaxConns
    /\ IF N = 0 THEN dealt' = Append(dealt, Null) /\ UNCHANGED next
                ELSE dealt' = Append(dealt, loops[next]) /\ next' = AfterNext
    /\ UNCHANGED <<pc, i, thread, mutex, eventLoop, loops, started, unasked>>

-----------------------------------------------------------------------------
(* threadFunc of loop j *)

\* mutant: m_eventLoop is set after the block that notifies
PublishLate(j) == UNCHANGED eventLoop

Publish(j) == eventLoop' = [eventLoop EXCEPT ![j] = j]

LockAndPublish(j) ==
    /\ thread[j] = "spawned"
    /\ mutex' = [mutex EXCEPT ![j] = TRUE]
    /\ Publish(j)
    /\ thread' = [thread EXCEPT ![j] = "publish"]
    /\ UNCHANGED <<pc, i, loops, started, next, dealt, unasked>>

\* notify_one wakes the server's thread if it is waiting on this very condition.
WakeStarter(j) == pc' = IF pc = "waiting" /\ i = j THEN "woken" ELSE pc

Notify(j) ==
    /\ thread[j] = "publish"
    /\ WakeStarter(j)
    /\ thread' = [thread EXCEPT ![j] = "notified"]
    /\ UNCHANGED <<i, mutex, eventLoop, loops, started, next, dealt, unasked>>

Unlock(j) ==
    /\ thread[j] = "notified"
    /\ mutex' = [mutex EXCEPT ![j] = FALSE]
    /\ thread' = [thread EXCEPT ![j] = "looping"]
    /\ UNCHANGED <<pc, i, eventLoop, loops, started, next, dealt, unasked>>

-----------------------------------------------------------------------------

PoolInit ==
    /\ pc = "create" /\ i = 0
    /\ thread = [j \in Loops |-> "none"]
    /\ mutex = [j \in Loops |-> FALSE]
    /\ eventLoop = [j \in Loops |-> Null]
    /\ loops = [j \in Loops |-> Null]
    /\ started = FALSE
    /\ next = 0
    /\ dealt = <<>>
    /\ unasked = {}

Starter == CreateThread \/ Wait \/ SpuriousWakeup \/ Return \/ PoolStarted

Thread(j) == LockAndPublish(j) \/ Notify(j) \/ Unlock(j)

PoolStarts == Starter \/ \E j \in Loops : Thread(j)

PoolNext == PoolStarts \/ GetNextLoop

PoolSpec == PoolInit /\ [][PoolNext]_poolVars

\* Every thread is scheduled.  No wakeup is spurious if it can help it, and no
\* connection has to come.
PoolFairness ==
    /\ WF_poolVars(CreateThread) /\ WF_poolVars(Wait) /\ WF_poolVars(Return)
    /\ WF_poolVars(PoolStarted)
    /\ \A j \in Loops : WF_poolVars(Thread(j))

PoolFairSpec == PoolSpec /\ PoolFairness

-----------------------------------------------------------------------------
(* Properties *)

\* The state has its type; only the thread being started and those before it exist,
\* and m_next names a loop (eventLoopThreadPool.cpp:21-27, 41-46).
PoolTypeOK ==
    /\ pc \in {"create", "lock", "waiting", "woken", "serve"}
    /\ i \in 0..N
    /\ thread \in [Loops -> {"none", "spawned", "publish", "notified", "looping"}]
    /\ \A j \in Loops : thread[j] # "none" <=> j < i \/ (j = i /\ pc # "create")
    /\ mutex \in [Loops -> BOOLEAN]
    /\ \A j \in Loops : mutex[j] <=> thread[j] \in {"publish", "notified"}
    /\ eventLoop \in [Loops -> Loops \cup {Null}]
    /\ loops \in [Loops -> Loops \cup {Null}]
    /\ started = (pc = "serve")
    /\ next \in 0..N /\ (N > 0 => next < N)
    /\ dealt \in Seq(Loops \cup {Null})
    /\ unasked \subseteq Loops

\* A thread that start is done with has left its own loop in its place: start reads
\* m_eventLoop after the thread has published it (eventLoopThread.cpp:21-26, 33-37).
\* Only a wait that returned unnotified can leave null there.
LoopsReal ==
    \A j \in Loops : j < i => loops[j] = j \/ (j \in unasked /\ loops[j] = Null)

\* Any N connections in a row go to N different loops (eventLoopThreadPool.cpp:
\* 31-47).
RoundRobin ==
    \A a, b \in DOMAIN dealt :
        a < b /\ b < a + N => dealt[a] # dealt[b] \/ dealt[a] = Null

\* start returns, as the example and the test that call it and then enter their own
\* loop count on (README.md:59-60, test/testHttpServer.cpp:44-45).
StartReturns == <>started
=============================================================================
