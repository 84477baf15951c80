----------------------------- MODULE ThreadPool -----------------------------
(***************************************************************************)
(* base/threadPool.h and threadPool.cpp: workers that take tasks from one  *)
(* queue under a mutex and wait on a condition variable when there is      *)
(* none, clients that enqueue, and the destructor, which stops the pool    *)
(* and joins the workers.  A block under the mutex is one step; what       *)
(* enqueue and the destructor notify after it is a step of its own.        *)
(***************************************************************************)
EXTENDS Naturals, Sequences, FiniteSets

CONSTANTS Workers,    \* m_workers
          Clients,    \* threads that enqueue
          Tasks       \* the tasks, each enqueued at most once

ASSUME PoolAssumption == IsFiniteSet(Workers) /\ Workers # {}

VARIABLES tasks,      \* m_tasks
          stop,       \* m_stop
          worker,     \* where each worker is
          holds,      \* the tasks a worker has taken and not finished
          client,     \* where each client is in enqueue
          destructor, \* where the destructor is
          accepted,   \* history: the tasks enqueue took
          refused,    \* history: the tasks for which enqueue threw
          ran         \* history: the tasks that have run, in order of completion

vars == <<tasks, stop, worker, holds, client, destructor, accepted, refused, ran>>

Elements(s) == {s[i] : i \in DOMAIN s}

Waiting == {w \in Workers : worker[w] = "waiting"}

-----------------------------------------------------------------------------
(* enqueue *)

Refuses == stop

Enqueue(c) ==
    /\ client[c] = "idle"
    /\ \E t \in Tasks \ (accepted \cup refused) :
          IF Refuses THEN /\ refused' = refused \cup {t}
                          /\ UNCHANGED <<tasks, client, accepted>>
          ELSE /\ tasks' = Append(tasks, t)
               /\ accepted' = accepted \cup {t}
               /\ client' = [client EXCEPT ![c] = "notify"]
               /\ UNCHANGED refused
    /\ UNCHANGED <<stop, worker, holds, destructor, ran>>

\* notify_one: one of those that wait, if any does.
NotifyOne(c) ==
    /\ client[c] = "notify"
    /\ \/ Waiting = {} /\ UNCHANGED worker
       \/ \E w \in Waiting : worker' = [worker EXCEPT ![w] = "check"]
    /\ client' = [client EXCEPT ![c] = "idle"]
    /\ UNCHANGED <<tasks, stop, holds, destructor, accepted, refused, ran>>

-----------------------------------------------------------------------------
(* A worker *)

\* mutant: a stopped worker leaves the rest of the queue
ReturnsAtStop == stop

Returns == stop /\ tasks = <<>>

\* mutant: the task stays at the head of the queue
PopNot == UNCHANGED tasks

Pop == tasks' = Tail(tasks)

\* Under the mutex: wait while there is nothing to do, return, or take a task.
Check(w) ==
    /\ worker[w] = "check"
    /\ \/ /\ ~stop /\ tasks = <<>>
          /\ worker' = [worker EXCEPT ![w] = "waiting"]
          /\ UNCHANGED <<tasks, holds>>
       \/ /\ Returns
          /\ worker' = [worker EXCEPT ![w] = "returned"]
          /\ UNCHANGED <<tasks, holds>>
       \/ /\ tasks # <<>> /\ ~Returns
          /\ holds' = [holds EXCEPT ![w] = {Head(tasks)}]
          /\ Pop
          /\ worker' = [worker EXCEPT ![w] = "running"]
    /\ UNCHANGED <<stop, client, destructor, accepted, refused, ran>>

SpuriousWakeup(w) ==
    /\ worker[w] = "waiting"
    /\ worker' = [worker EXCEPT ![w] = "check"]
    /\ UNCHANGED <<tasks, stop, holds, client, destructor, accepted, refused, ran>>

RunTask(w) ==
    /\ worker[w] = "running"
    /\ \E t \in holds[w] : ran' = Append(ran, t)
    /\ holds' = [holds EXCEPT ![w] = {}]
    /\ worker' = [worker EXCEPT ![w] = "check"]
    /\ UNCHANGED <<tasks, stop, client, destructor, accepted, refused>>

-----------------------------------------------------------------------------
(* The destructor *)

SetStop == stop' = TRUE

Stop ==
    /\ destructor = "idle"
    /\ SetStop
    /\ destructor' = "notify"
    /\ UNCHANGED <<tasks, worker, holds, client, accepted, refused, ran>>

\* mutant: notify_one where notify_all belongs
WakeAllOne ==
    \/ Waiting = {} /\ UNCHANGED worker
    \/ \E w \in Waiting : worker' = [worker EXCEPT ![w] = "check"]

WakeAll ==
    worker' = [w \in Workers |-> IF w \in Waiting THEN "check" ELSE worker[w]]

NotifyAll ==
    /\ destructor = "notify"
    /\ WakeAll
    /\ destructor' = "join"
    /\ UNCHANGED <<tasks, stop, holds, client, accepted, refused, ran>>

Join ==
    /\ destructor = "join"
    /\ \A w \in Workers : worker[w] = "returned"
    /\ destructor' = "joined"
    /\ UNCHANGED <<tasks, stop, worker, holds, client, accepted, refused, ran>>

-----------------------------------------------------------------------------

Init ==
    /\ tasks = <<>> /\ stop = FALSE
    /\ worker = [w \in Workers |-> "check"]
    /\ holds = [w \in Workers |-> {}]
    /\ client = [c \in Clients |-> "idle"]
    /\ destructor = "idle"
    /\ accepted = {} /\ refused = {} /\ ran = <<>>

Worker(w) == Check(w) \/ RunTask(w)

Destructor == Stop \/ NotifyAll \/ Join

Next ==
    \/ \E c \in Clients : Enqueue(c) \/ NotifyOne(c)
    \/ \E w \in Workers : Worker(w) \/ SpuriousWakeup(w)
    \/ Destructor

Spec == Init /\ [][Next]_vars

\* Workers, a client inside enqueue and the destructor once it has begun are
\* scheduled.  Nobody has to enqueue or to destroy the pool.
Fairness ==
    /\ \A w \in Workers : WF_vars(Worker(w))
    /\ \A c \in Clients : WF_vars(NotifyOne(c))
    /\ WF_vars(NotifyAll) /\ WF_vars(Join)

FairSpec == Spec /\ Fairness

-----------------------------------------------------------------------------
(* Properties *)

\* The state has its type; a worker holds a task exactly while it runs one, and the
\* pool is stopped exactly once its destructor has begun (threadPool.cpp:10-36,
\* 43-47).
TypeOK ==
    /\ tasks \in Seq(Tasks)
    /\ stop = (destructor # "idle")
    /\ worker \in [Workers -> {"check", "waiting", "running", "returned"}]
    /\ holds \in [Workers -> SUBSET Tasks]
    /\ \A w \in Workers : worker[w] = "running" <=> holds[w] # {}
    /\ client \in [Clients -> {"idle", "notify"}]
    /\ destructor \in {"idle", "notify", "join", "joined"}
    /\ accepted \subseteq Tasks /\ refused \subseteq Tasks
    /\ ran \in Seq(Tasks)

\* An accepted task is in one place: in the queue, with one worker, or run, and run
\* only once (threadPool.h:57-68, threadPool.cpp:14-34).
OnePlace ==
    /\ accepted = Elements(tasks) \cup (UNION {holds[w] : w \in Workers}) \cup Elements(ran)
    /\ Cardinality(accepted) =
          Len(tasks) + Len(ran) + Cardinality({w \in Workers : worker[w] = "running"})

\* All workers wait while there is a task or the pool has been stopped only if a
\* notification is still to come, although enqueue and the destructor notify after
\* they have let go of the mutex (threadPool.h:57-69, threadPool.cpp:44-50).
NobodyForgotten ==
    /\ stop => destructor = "notify" \/ Waiting = {}
    /\ tasks # <<>> /\ Waiting = Workers =>
          destructor = "notify" \/ \E c \in Clients : client[c] = "notify"

\* The destructor returns only when every accepted task has run
\* (threadPool.cpp:22-27, 41-57).
JoinedDrained == destructor = "joined" => accepted = Elements(ran)

\* Every accepted task is run, destructor or not.
TaskRun == \A t \in Tasks : t \in accepted ~> t \in Elements(ran)

\* The destructor comes to its end (threadPool.cpp:49-56).
Joins == stop ~> destructor = "joined"
=============================================================================
