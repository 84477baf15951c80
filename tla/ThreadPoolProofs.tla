--------------------------- MODULE ThreadPoolProofs ---------------------------
(***************************************************************************)
(* The safety properties of ThreadPool, for any finite set of workers and  *)
(* any sets of clients and tasks.                                          *)
(***************************************************************************)
EXTENDS ThreadPool, FiniteSetTheorems, SequenceTheorems, TLAPS

Busy == {w \in Workers : worker[w] = "running"}

\* OnePlace counts; for that a worker must hold one task at a time.
Counted ==
    /\ IsFiniteSet(accepted)
    /\ \A w \in Workers : worker[w] = "running" => \E t \in Tasks : holds[w] = {t}

\* A worker returns when it finds the pool stopped and the queue empty.  The queue stays
\* empty from then on, because enqueue refuses; and the destructor has joined them all.
Left ==
    /\ \A w \in Workers : worker[w] = "returned" => stop /\ tasks = <<>>
    /\ destructor = "joined" => \A w \in Workers : worker[w] = "returned"

Inv == TypeOK /\ Counted /\ OnePlace /\ NobodyForgotten /\ Left

-----------------------------------------------------------------------------
(* Types *)

\* Whatever a thread does keeps the state typed.
LEMMA TypeStep == TypeOK /\ [Next]_vars => TypeOK'
<1> SUFFICES ASSUME TypeOK, [Next]_vars PROVE TypeOK'
  OBVIOUS
<1>1. ASSUME NEW c \in Clients, Enqueue(c) PROVE TypeOK'
  <2>1. PICK t \in Tasks : \/ refused' = refused \cup {t} /\ UNCHANGED <<tasks, client, accepted>>
                           \/ /\ tasks' = Append(tasks, t) /\ accepted' = accepted \cup {t}
                              /\ client' = [client EXCEPT ![c] = "notify"] /\ UNCHANGED refused
    BY <1>1 DEF Enqueue
  <2>2. UNCHANGED <<stop, worker, holds, destructor, ran>>
    BY <1>1 DEF Enqueue
  <2>3. stop' = (destructor' # "idle")
    BY <2>2, Zenon DEF TypeOK
  <2>4. tasks' \in Seq(Tasks)
    BY <2>1 DEF TypeOK
  <2>5. client' \in [Clients -> {"idle", "notify"}]
    BY <2>1 DEF TypeOK
  <2>6. accepted' \subseteq Tasks /\ refused' \subseteq Tasks
    BY <2>1 DEF TypeOK
  <2> QED BY <2>2, <2>3, <2>4, <2>5, <2>6 DEF TypeOK
<1>2. ASSUME NEW c \in Clients, NotifyOne(c) PROVE TypeOK'
  BY <1>2 DEF TypeOK, NotifyOne, Waiting
<1>3. ASSUME NEW w \in Workers, Check(w) PROVE TypeOK'
  <2>1. tasks # <<>> => Head(tasks) \in Tasks /\ Tail(tasks) \in Seq(Tasks)
    BY HeadTailProperties DEF TypeOK
  <2>2. UNCHANGED <<stop, client, destructor, accepted, refused, ran>>
    BY <1>3 DEF Check
  <2>3. \/ \E next \in {"waiting", "returned"} :
              worker' = [worker EXCEPT ![w] = next] /\ UNCHANGED <<tasks, holds>>
        \/ /\ tasks # <<>> /\ tasks' = Tail(tasks)
           /\ holds' = [holds EXCEPT ![w] = {Head(tasks)}]
           /\ worker' = [worker EXCEPT ![w] = "running"]
    BY <1>3 DEF Check, Pop
  <2>4. worker[w] = "check"
    BY <1>3 DEF Check
  <2>5. stop' = (destructor' # "idle")
    BY <2>2, Zenon DEF TypeOK
  <2>6. /\ worker' \in [Workers -> {"check", "waiting", "running", "returned"}]
        /\ holds' \in [Workers -> SUBSET Tasks]
    <3>1. worker' \in [Workers -> {"check", "waiting", "running", "returned"}]
      BY <2>3 DEF TypeOK
    <3>2. holds' \in [Workers -> SUBSET Tasks]
      BY <2>1, <2>3 DEF TypeOK
    <3> QED BY <3>1, <3>2
  <2>7. tasks' \in Seq(Tasks)
    BY <2>1, <2>3 DEF TypeOK
  <2>8. \A v \in Workers : worker'[v] = "running" <=> holds'[v] # {}
    BY <2>3, <2>4 DEF TypeOK
  <2> QED BY <2>2, <2>5, <2>6, <2>7, <2>8 DEF TypeOK
<1>4. ASSUME NEW w \in Workers, RunTask(w) PROVE TypeOK'
  BY <1>4 DEF TypeOK, RunTask
<1>5. ASSUME NEW w \in Workers, SpuriousWakeup(w) PROVE TypeOK'
  BY <1>5 DEF TypeOK, SpuriousWakeup
<1>6. CASE Stop
  BY <1>6 DEF TypeOK, Stop, SetStop
<1>7. CASE NotifyAll
  BY <1>7 DEF TypeOK, NotifyAll, WakeAll, Waiting
<1>8. CASE Join
  BY <1>8 DEF TypeOK, Join
<1>9. CASE UNCHANGED vars
  BY <1>9 DEF TypeOK, vars
<1> QED BY <1>1, <1>2, <1>3, <1>4, <1>5, <1>6, <1>7, <1>8, <1>9 DEF Next, Worker, Destructor

-----------------------------------------------------------------------------
(* One place for each task *)

\* The elements of a queue, with one more, and with one less.
LEMMA ElementsOfAppend ==
    ASSUME NEW q \in Seq(Tasks), NEW e \in Tasks
    PROVE  Elements(Append(q, e)) = Elements(q) \cup {e}
<1>1. /\ DOMAIN q = 1..Len(q) /\ Len(q) \in Nat
      /\ DOMAIN Append(q, e) = (1..Len(q)) \cup {Len(q) + 1}
      /\ \A i \in 1..Len(q) : Append(q, e)[i] = q[i]
      /\ Append(q, e)[Len(q) + 1] = e
  BY AppendProperties, LenProperties
<1> QED BY <1>1, Zenon DEF Elements

LEMMA ElementsOfTail ==
    ASSUME NEW q \in Seq(Tasks), q # <<>>
    PROVE  Elements(q) = {Head(q)} \cup Elements(Tail(q))
<1>1. /\ Len(q) \in Nat \ {0} /\ DOMAIN q = 1..Len(q) /\ Head(q) = q[1]
      /\ DOMAIN Tail(q) = 1..Len(q) - 1
      /\ \A i \in 1..Len(q) - 1 : Tail(q)[i] = q[i + 1]
  BY EmptySeq, LenProperties, HeadTailProperties
<1>2. \A i \in 1..Len(q) : q[i] = Head(q) \/ \E j \in 1..Len(q) - 1 : q[i] = Tail(q)[j]
  <2>1. ASSUME NEW i \in 1..Len(q), i # 1
        PROVE  i - 1 \in 1..Len(q) - 1 /\ q[i] = Tail(q)[i - 1]
    BY <1>1, <2>1
  <2> QED BY <1>1, <2>1
<1>3. \A j \in 1..Len(q) - 1 : j + 1 \in 1..Len(q) /\ Tail(q)[j] = q[j + 1]
  BY <1>1
<1>4. 1 \in 1..Len(q)
  BY <1>1
<1>5. {q[i] : i \in 1..Len(q)} = {Head(q)} \cup {Tail(q)[j] : j \in 1..Len(q) - 1}
  <2>1. {q[i] : i \in 1..Len(q)} \subseteq {Head(q)} \cup {Tail(q)[j] : j \in 1..Len(q) - 1}
    BY <1>2
  <2>2. {Tail(q)[j] : j \in 1..Len(q) - 1} \subseteq {q[i] : i \in 1..Len(q)}
    BY <1>3
  <2>3. Head(q) \in {q[i] : i \in 1..Len(q)}
    BY <1>1, <1>4
  <2> QED BY <2>1, <2>2, <2>3
<1> QED BY <1>1, <1>5 DEF Elements

Taken == UNION {holds[w] : w \in Workers}

\* What is counted are natural numbers.
LEMMA Numbers ==
    ASSUME TypeOK, Counted
    PROVE  /\ IsFiniteSet(Busy) /\ Cardinality(Busy) \in Nat
           /\ Cardinality(accepted) \in Nat
           /\ Len(tasks) \in Nat /\ Len(ran) \in Nat
<1>1. IsFiniteSet(Busy)
  BY PoolAssumption, FS_Subset DEF Busy
<1> QED BY <1>1, FS_CardinalityType, LenProperties DEF TypeOK, Counted

\* enqueue puts a new task into the queue.
LEMMA EnqueuePlaces ==
    ASSUME TypeOK, Counted, OnePlace, NEW c \in Clients, Enqueue(c)
    PROVE  Counted' /\ OnePlace'
<1>1. UNCHANGED <<worker, holds, ran>>
  BY DEF Enqueue
<1>2. CASE UNCHANGED <<tasks, accepted>>
  BY <1>1, <1>2 DEF Counted, OnePlace, Elements
<1>3. ASSUME NEW t \in Tasks, t \notin accepted,
             tasks' = Append(tasks, t), accepted' = accepted \cup {t}
      PROVE  Counted' /\ OnePlace'
  <2>1. /\ IsFiniteSet(accepted')
        /\ Cardinality(accepted') = Cardinality(accepted) + 1
    BY <1>3, FS_AddElement DEF Counted
  <2>2. Len(tasks') = Len(tasks) + 1
    BY <1>3, AppendProperties DEF TypeOK
  <2>3. Elements(tasks') = Elements(tasks) \cup {t}
    BY <1>3, ElementsOfAppend DEF TypeOK
  <2>4. Counted'
    BY <1>1, <2>1 DEF Counted
  <2>5. accepted' = Elements(tasks') \cup Taken' \cup Elements(ran')
    BY <1>1, <1>3, <2>3 DEF OnePlace, Taken
  <2>6. Cardinality(accepted') = Len(tasks') + Len(ran') + Cardinality(Busy')
    BY <1>1, <2>1, <2>2, Numbers DEF OnePlace, Busy
  <2> QED BY <2>4, <2>5, <2>6 DEF OnePlace, Taken, Busy
<1> QED BY <1>2, <1>3 DEF Enqueue

\* A worker moves the head of the queue into its own hands.
LEMMA TakingPlaces ==
    ASSUME TypeOK, Counted, OnePlace, NEW w \in Workers, worker[w] = "check",
           tasks # <<>>, tasks' = Tail(tasks), UNCHANGED <<accepted, ran>>,
           holds' = [holds EXCEPT ![w] = {Head(tasks)}],
           worker' = [worker EXCEPT ![w] = "running"]
    PROVE  Counted' /\ OnePlace'
<1>1. /\ Head(tasks) \in Tasks
      /\ Elements(tasks) = {Head(tasks)} \cup Elements(tasks')
      /\ Len(tasks') = Len(tasks) - 1
  BY HeadTailProperties, ElementsOfTail DEF TypeOK
<1>2. holds[w] = {} /\ \A v \in Workers : holds'[v] = IF v = w THEN {Head(tasks)} ELSE holds[v]
  BY DEF TypeOK
<1>3. Taken' = Taken \cup {Head(tasks)}
  BY <1>2 DEF Taken
<1>4. Busy' = Busy \cup {w} /\ w \notin Busy
  BY DEF Busy, TypeOK
<1>5. Cardinality(Busy') = Cardinality(Busy) + 1
  BY <1>4, Numbers, FS_AddElement
<1>6. Counted'
  BY <1>1, <1>2 DEF Counted, TypeOK
<1>7. accepted' = Elements(tasks') \cup Taken' \cup Elements(ran')
  BY <1>1, <1>3 DEF OnePlace, Taken
<1>8. Cardinality(accepted') = Len(tasks') + Len(ran') + Cardinality(Busy')
  BY <1>1, <1>5, Numbers DEF OnePlace, Busy
<1> QED BY <1>6, <1>7, <1>8 DEF OnePlace, Taken, Busy

\* A task that has run is no longer in the worker's hands.
LEMMA RunningPlaces ==
    ASSUME TypeOK, Counted, OnePlace, NEW w \in Workers, RunTask(w)
    PROVE  Counted' /\ OnePlace'
<1>1. /\ worker[w] = "running" /\ UNCHANGED <<tasks, accepted>>
      /\ holds' = [holds EXCEPT ![w] = {}]
      /\ worker' = [worker EXCEPT ![w] = "check"]
  BY DEF RunTask
<1>2. PICK t \in Tasks : holds[w] = {t}
  BY <1>1 DEF Counted
<1>3. ran' = Append(ran, t)
  BY <1>2 DEF RunTask
<1>4. Elements(ran') = Elements(ran) \cup {t} /\ Len(ran') = Len(ran) + 1
  BY <1>3, ElementsOfAppend, AppendProperties DEF TypeOK
<1>5. \A v \in Workers : holds'[v] = IF v = w THEN {} ELSE holds[v]
  BY <1>1 DEF TypeOK
<1>6. Taken = Taken' \cup {t}
  BY <1>2, <1>5 DEF Taken
<1>7. Busy' = Busy \ {w} /\ w \in Busy
  BY <1>1 DEF Busy, TypeOK
<1>8. Cardinality(Busy') = Cardinality(Busy) - 1
  BY <1>7, Numbers, FS_RemoveElement
<1>9. Counted'
  BY <1>1, <1>5 DEF Counted, TypeOK
<1>10. accepted' = Elements(tasks') \cup Taken' \cup Elements(ran')
  BY <1>1, <1>4, <1>6 DEF OnePlace, Taken
<1>11. Cardinality(accepted') = Len(tasks') + Len(ran') + Cardinality(Busy')
  BY <1>1, <1>4, <1>8, Numbers DEF OnePlace, Busy
<1> QED BY <1>9, <1>10, <1>11 DEF OnePlace, Taken, Busy

\* Waking, waiting, returning and the destructor move no task.
LEMMA OthersMoveNothing ==
    ASSUME TypeOK, Counted, OnePlace, UNCHANGED <<tasks, holds, accepted, ran>>, Busy' = Busy
    PROVE  Counted' /\ OnePlace'
BY DEF Counted, OnePlace, Busy, Elements

\* An accepted task stays in one place, and is counted there.
LEMMA PlaceStep == TypeOK /\ Counted /\ OnePlace /\ [Next]_vars => Counted' /\ OnePlace'
<1> SUFFICES ASSUME TypeOK, Counted, OnePlace, [Next]_vars PROVE Counted' /\ OnePlace'
  OBVIOUS
<1>1. ASSUME NEW c \in Clients, Enqueue(c) PROVE Counted' /\ OnePlace'
  BY <1>1, EnqueuePlaces
<1>2. ASSUME NEW c \in Clients, NotifyOne(c) PROVE Counted' /\ OnePlace'
  <2>1. Busy' = Busy
    BY <1>2 DEF NotifyOne, Waiting, Busy, TypeOK
  <2> QED BY <1>2, <2>1, OthersMoveNothing DEF NotifyOne
<1>3. ASSUME NEW w \in Workers, Check(w) PROVE Counted' /\ OnePlace'
  <2>1. CASE \E s \in {"waiting", "returned"} : worker' = [worker EXCEPT ![w] = s]
    <3>1. Busy' = Busy
      BY <1>3, <2>1 DEF Check, Busy, TypeOK
    <3>2. UNCHANGED <<tasks, holds, accepted, ran>>
      BY <1>3, <2>1 DEF Check, TypeOK
    <3> QED BY <3>1, <3>2, OthersMoveNothing
  <2>2. CASE worker' = [worker EXCEPT ![w] = "running"]
    BY <1>3, <2>2, TakingPlaces DEF Check, Pop, TypeOK
  <2> QED BY <1>3, <2>1, <2>2 DEF Check
<1>4. ASSUME NEW w \in Workers, RunTask(w) PROVE Counted' /\ OnePlace'
  BY <1>4, RunningPlaces
<1>5. ASSUME NEW w \in Workers, SpuriousWakeup(w) PROVE Counted' /\ OnePlace'
  <2>1. Busy' = Busy
    BY <1>5 DEF SpuriousWakeup, Busy, TypeOK
  <2> QED BY <1>5, <2>1, OthersMoveNothing DEF SpuriousWakeup
<1>6. CASE Destructor
  <2>1. Busy' = Busy
    BY <1>6 DEF Destructor, Stop, NotifyAll, Join, WakeAll, Waiting, Busy, TypeOK
  <2> QED BY <1>6, <2>1, OthersMoveNothing DEF Destructor, Stop, NotifyAll, Join
<1>7. CASE UNCHANGED vars
  BY <1>7, OthersMoveNothing DEF vars, Busy
<1> QED BY <1>1, <1>2, <1>3, <1>4, <1>5, <1>6, <1>7 DEF Next, Worker

-----------------------------------------------------------------------------
(* Notifications and the end *)

\* A worker goes to wait only beside an empty queue of a pool that goes on; who changes
\* that is about to notify.
LEMMA NotifiedStep == TypeOK /\ NobodyForgotten /\ [Next]_vars => NobodyForgotten'
<1> SUFFICES ASSUME TypeOK, NobodyForgotten, [Next]_vars PROVE NobodyForgotten'
  OBVIOUS
<1>1. ASSUME NEW c \in Clients, Enqueue(c) PROVE NobodyForgotten'
  <2>1. UNCHANGED <<stop, worker, destructor>>
    BY <1>1 DEF Enqueue
  <2>2. UNCHANGED <<tasks, client>> \/ client'[c] = "notify"
    BY <1>1 DEF Enqueue, TypeOK
  <2> QED BY <2>1, <2>2 DEF NobodyForgotten, Waiting
<1>2. ASSUME NEW c \in Clients, NotifyOne(c) PROVE NobodyForgotten'
  <2>1. Waiting' \subseteq Waiting /\ Waiting' # Workers
    BY <1>2, PoolAssumption DEF NotifyOne, Waiting, TypeOK
  <2>2. UNCHANGED <<stop, destructor>>
    BY <1>2 DEF NotifyOne
  <2> QED BY <2>1, <2>2 DEF NobodyForgotten
<1>3. ASSUME NEW w \in Workers, Check(w) PROVE NobodyForgotten'
  <2>1. UNCHANGED <<stop, destructor, client>>
    BY <1>3 DEF Check
  <2>2. CASE worker' = [worker EXCEPT ![w] = "waiting"]
    <3>1. ~stop /\ tasks' = <<>>
      BY <1>3, <2>2 DEF Check, TypeOK
    <3> QED BY <2>1, <3>1 DEF NobodyForgotten
  <2>3. CASE \E s \in {"returned", "running"} : worker' = [worker EXCEPT ![w] = s]
    <3>1. Waiting' \subseteq Waiting /\ Waiting' # Workers
      BY <2>3 DEF Waiting, TypeOK
    <3> QED BY <2>1, <3>1 DEF NobodyForgotten
  <2> QED BY <1>3, <2>2, <2>3 DEF Check
<1>4. ASSUME NEW w \in Workers, RunTask(w) \/ SpuriousWakeup(w) PROVE NobodyForgotten'
  <2>1. Waiting' \subseteq Waiting /\ Waiting' # Workers
    BY <1>4 DEF RunTask, SpuriousWakeup, Waiting, TypeOK
  <2>2. UNCHANGED <<stop, destructor>>
    BY <1>4 DEF RunTask, SpuriousWakeup
  <2> QED BY <2>1, <2>2 DEF NobodyForgotten
<1>5. CASE Stop
  BY <1>5 DEF Stop, NobodyForgotten
<1>6. CASE NotifyAll
  <2>1. Waiting' = {}
    BY <1>6 DEF NotifyAll, WakeAll, Waiting
  <2> QED BY <2>1, PoolAssumption DEF NobodyForgotten
<1>7. CASE Join
  <2>1. Waiting = {} /\ Waiting' = Waiting
    BY <1>7 DEF Join, Waiting
  <2> QED BY <2>1, PoolAssumption DEF NobodyForgotten
<1>8. CASE UNCHANGED vars
  BY <1>8 DEF vars, NobodyForgotten, Waiting
<1> QED BY <1>1, <1>2, <1>3, <1>4, <1>5, <1>6, <1>7, <1>8 DEF Next, Worker, Destructor

\* A worker that has returned leaves nothing behind, and nothing comes after it.
LEMMA LeftStep == TypeOK /\ Left /\ [Next]_vars => Left'
<1> SUFFICES ASSUME TypeOK, Left, [Next]_vars PROVE Left'
  OBVIOUS
<1>1. ASSUME NEW c \in Clients, Enqueue(c) PROVE Left'
  <2>1. UNCHANGED <<stop, worker, destructor>> /\ (stop => UNCHANGED tasks)
    BY <1>1 DEF Enqueue, Refuses
  <2> QED BY <2>1 DEF Left
<1>2. ASSUME NEW c \in Clients, NotifyOne(c) PROVE Left'
  BY <1>2 DEF NotifyOne, Waiting, Left, TypeOK
<1>3. ASSUME NEW w \in Workers, Check(w) PROVE Left'
  BY <1>3 DEF Check, Returns, Left, TypeOK
<1>4. ASSUME NEW w \in Workers, RunTask(w) \/ SpuriousWakeup(w) PROVE Left'
  BY <1>4 DEF RunTask, SpuriousWakeup, Left, TypeOK
<1>5. CASE Stop
  BY <1>5 DEF Stop, SetStop, Left
<1>6. CASE NotifyAll
  BY <1>6 DEF NotifyAll, WakeAll, Waiting, Left, TypeOK
<1>7. CASE Join
  BY <1>7 DEF Join, Left
<1>8. CASE UNCHANGED vars
  BY <1>8 DEF vars, Left
<1> QED BY <1>1, <1>2, <1>3, <1>4, <1>5, <1>6, <1>7, <1>8 DEF Next, Worker, Destructor

-----------------------------------------------------------------------------
(* The theorems *)

\* The pool starts without tasks.
LEMMA InitInv == Init => Inv
<1> SUFFICES ASSUME Init PROVE Inv
  OBVIOUS
<1>1. TypeOK
  BY EmptySeq DEF Init, TypeOK
<1>2. Busy = {} /\ Taken = {} /\ Elements(tasks) = {} /\ Elements(ran) = {} /\ accepted = {}
  BY DEF Init, Busy, Taken, Elements
<1>3. Counted /\ OnePlace
  <2>1. Cardinality(Busy) = 0 /\ Cardinality(accepted) = 0 /\ IsFiniteSet(accepted)
    BY <1>2, FS_EmptySet
  <2>2. Len(tasks) = 0 /\ Len(ran) = 0
    BY DEF Init
  <2>3. Counted
    BY <2>1 DEF Init, Counted
  <2> QED BY <1>2, <2>1, <2>2, <2>3 DEF OnePlace, Taken, Busy
<1>4. NobodyForgotten /\ Left
  BY DEF Init, NobodyForgotten, Left
<1> QED BY <1>1, <1>3, <1>4 DEF Inv

\* The invariant of the pool.
LEMMA Invariance == Spec => []Inv
<1>1. Inv /\ [Next]_vars => Inv'
  BY TypeStep, PlaceStep, NotifiedStep, LeftStep DEF Inv
<1> QED BY <1>1, InitInv, PTL DEF Spec

\* The state of the pool has its type (threadPool.cpp:10-36, 43-47).
THEOREM TypeCorrect == Spec => []TypeOK
<1>1. Inv => TypeOK
  BY DEF Inv
<1> QED BY <1>1, Invariance, PTL

\* However many workers and clients there are, an accepted task is in the queue, with
\* one worker or run, and it is run once (threadPool.h:57-68, threadPool.cpp:14-34).
THEOREM TaskInOnePlace == Spec => []OnePlace
<1>1. Inv => OnePlace
  BY DEF Inv
<1> QED BY <1>1, Invariance, PTL

\* Notifying after the mutex was released loses no wakeup (threadPool.h:57-69,
\* threadPool.cpp:44-50).
THEOREM NoWorkerForgotten == Spec => []NobodyForgotten
<1>1. Inv => NobodyForgotten
  BY DEF Inv
<1> QED BY <1>1, Invariance, PTL

\* The destructor returns only when every accepted task has run (threadPool.cpp:22-27,
\* 41-57).
THEOREM JoinDrains == Spec => []JoinedDrained
<1>1. Inv => JoinedDrained
  <2> SUFFICES ASSUME Inv, destructor = "joined" PROVE accepted = Elements(ran)
    BY DEF JoinedDrained
  <2>1. \A w \in Workers : worker[w] = "returned" /\ tasks = <<>>
    BY DEF Inv, Left
  <2>2. tasks = <<>> /\ \A w \in Workers : holds[w] = {}
    BY <2>1, PoolAssumption DEF Inv, TypeOK
  <2> QED BY <2>2 DEF Inv, OnePlace, Elements
<1> QED BY <1>1, Invariance, PTL
=============================================================================
