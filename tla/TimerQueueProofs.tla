--------------------------- MODULE TimerQueueProofs ---------------------------
(***************************************************************************)
(* The safety properties of TimerQueue, for any numbers of timers and of   *)
(* settings of the clock, any delays, any lateness and any intervals that  *)
(* do not exceed it.                                                       *)
(***************************************************************************)
EXTENDS TimerQueue, SequenceTheorems, WellFoundedInduction, TLAPS

-----------------------------------------------------------------------------
(* The first of several timers *)

\* One of the timers of a set expires first, because none is later than MaxLate.
LEMMA EarliestIsThere ==
    ASSUME NEW S \in SUBSET Timers, S # {}
    PROVE  Earliest(S) \in S
<1> DEFINE T == {t.left + MaxLate : t \in S}
           R == OpToRel(<, Nat)
<1>1. T \in SUBSET Nat /\ T # {}
  BY TimerAssumption DEF Timers
<1>2. PICK x \in T : \A y \in T : x <= y
  <2>1. \E x \in T : \A y \in T : ~(<<y, x>> \in R)
    <3> HIDE DEF T, R
    <3>1. IsWellFoundedOn(R, Nat)
      BY NatLessThanWellFounded DEF R
    <3> QED BY <1>1, <3>1, WFMin
  <2>2. ASSUME NEW x \in T, NEW y \in T, ~(<<y, x>> \in R) PROVE x <= y
    BY <1>1, <2>2 DEF OpToRel
  <2> QED BY <2>1, <2>2
<1>3. PICK t \in S : x = t.left + MaxLate
  BY <1>2
<1>4. ASSUME NEW u \in S PROVE t.left <= u.left
  <2>1. t.left + MaxLate <= u.left + MaxLate
    BY <1>2, <1>3
  <2> QED BY <2>1, TimerAssumption DEF Timers
<1> QED BY <1>3, <1>4 DEF Earliest

-----------------------------------------------------------------------------
(* Steps that several actions share *)

\* The set takes a timer or drops it, and keeps those it has.
LEMMA InsertKeeps ==
    ASSUME TypeOK, NEW t \in Timers, Insert(t)
    PROVE  /\ timerSet \subseteq timerSet' /\ timerSet' \subseteq timerSet \cup {t}
           /\ dropped \subseteq dropped' /\ dropped' \subseteq Nat
           /\ t.id \in Ids(timerSet') \cup dropped'
BY DEF TypeOK, Insert, Ids, Timers

\* The same for addTimerInLoop, unless its assert fails.
LEMMA AddKeeps ==
    ASSUME TypeOK, NEW t \in Timers, AddTimerInLoop(t)
    PROVE  /\ timerSet \subseteq timerSet' /\ timerSet' \subseteq timerSet \cup {t}
           /\ timerSet' # timerSet => t.left > 0
           /\ dropped \subseteq dropped' /\ dropped' \subseteq Nat
           /\ fires' \in Nat \cup {Off}
           /\ fault' \in BOOLEAN
           /\ fault' \/ t.id \in Ids(timerSet') \cup dropped'
<1>1. CASE t.left <= 0
  BY <1>1 DEF TypeOK, AddTimerInLoop
<1>2. CASE ~(t.left <= 0)
  <2>1. Insert(t) /\ UNCHANGED fault
    BY <1>2 DEF AddTimerInLoop
  <2>2. fires' \in Nat \cup {Off}
    BY <1>2 DEF AddTimerInLoop, SetTime, TypeOK, Timers
  <2>3. t.left > 0
    BY <1>2 DEF Timers
  <2> QED BY <2>1, <2>2, <2>3, InsertKeeps DEF TypeOK
<1> QED BY <1>1, <1>2

\* A cancellation takes a timer of the id, if there is one, and leaves the others.
LEMMA EraseKeeps ==
    ASSUME TypeOK, NEW id \in Nat, Erase(id)
    PROVE  /\ timerSet' \subseteq timerSet
           /\ \A t \in timerSet \ timerSet' : t.id = id
           /\ \/ \A t \in timerSet : t.id # id
              \/ \E t \in timerSet : t.id = id /\ timerSet' = timerSet \ {t}
<1> DEFINE same == {t \in timerSet : t.id = id}
<1>1. timerSet' = IF same = {} THEN timerSet ELSE timerSet \ {Earliest(same)}
  BY DEF Erase
<1>2. same # {} => Earliest(same) \in same
  BY EarliestIsThere DEF TypeOK
<1>3. Earliest(same) \in same => Earliest(same) \in timerSet /\ Earliest(same).id = id
  OBVIOUS
<1> QED BY <1>1, <1>2, <1>3

\* A new timer is one.
LEMMA NewTimer ==
    ASSUME NEW delay \in Delays, NEW interval \in Intervals, NEW id \in Nat
    PROVE  /\ Timer(delay, interval, id) \in Timers
           /\ Timer(delay, interval, id).left > 0
           /\ Timer(delay, interval, id).id = id
BY TimerAssumption DEF Timer, Timers

\* A repeating timer that is put back is one, with its id.
LEMMA AgainTimer ==
    ASSUME NEW t \in Timers
    PROVE  /\ [t EXCEPT !.left = @ + t.interval] \in Timers
           /\ [t EXCEPT !.left = @ + t.interval].id = t.id
<1>1. /\ t.left \in Int /\ t.left >= -MaxLate /\ t.interval \in Intervals /\ t.id \in Nat
      /\ t = [left |-> t.left, interval |-> t.interval, id |-> t.id]
  BY DEF Timers
<1>2. t.interval \in Int /\ t.interval >= 0
  BY <1>1, TimerAssumption
<1>3. t.left + t.interval \in Int /\ t.left + t.interval >= -MaxLate
  BY <1>1, <1>2, TimerAssumption
<1> QED BY <1>1, <1>3 DEF Timers

\* What the clock does to a timer.
LEMMA ShiftTimer ==
    ASSUME NEW t \in Timers, NEW ticks \in {-1, 1}
    PROVE  /\ Shift(t, ticks) \in Timers
           /\ Shift(t, ticks).id = t.id /\ Shift(t, ticks).interval = t.interval
           /\ Shift(t, ticks).left = IF t.left - ticks < -MaxLate THEN -MaxLate ELSE t.left - ticks
BY TimerAssumption DEF Shift, Timers

\* What the clock does to the tasks.
LEMMA ShiftTasks ==
    ASSUME TypeOK, NEW ticks \in {-1, 1}, TimeOfDay(ticks)
    PROVE  /\ taskQ' \in Seq(TimerTasks) /\ DOMAIN taskQ' = DOMAIN taskQ
           /\ \A i \in DOMAIN taskQ :
                 /\ taskQ'[i].op = taskQ[i].op
                 /\ taskQ[i].op = "add" => taskQ'[i].timer = Shift(taskQ[i].timer, ticks)
                 /\ taskQ[i].op = "cancel" => taskQ'[i] = taskQ[i]
<1>1. taskQ' = [i \in DOMAIN taskQ |-> ShiftTask(taskQ[i], ticks)]
  BY DEF TimeOfDay
<1>2. /\ Len(taskQ) \in Nat /\ DOMAIN taskQ = 1..Len(taskQ)
      /\ \A i \in DOMAIN taskQ : taskQ[i] \in TimerTasks
  BY LenProperties DEF TypeOK
<1>3. ASSUME NEW task \in TimerTasks
      PROVE  /\ ShiftTask(task, ticks) \in TimerTasks
             /\ ShiftTask(task, ticks).op = task.op
             /\ task.op = "add" => ShiftTask(task, ticks).timer = Shift(task.timer, ticks)
             /\ task.op = "cancel" => ShiftTask(task, ticks) = task
  BY ShiftTimer DEF ShiftTask, TimerTasks
<1>4. taskQ' \in Seq(TimerTasks)
  BY <1>1, <1>2, <1>3
<1> QED BY <1>1, <1>2, <1>3, <1>4

-----------------------------------------------------------------------------
(* Types *)

\* Whatever a thread or the clock does keeps the state typed.
LEMMA TypeStep == TypeOK /\ [Next]_vars => TypeOK'
<1> SUFFICES ASSUME TypeOK, [Next]_vars PROVE TypeOK'
  OBVIOUS
<1> USE DEF vars, idVars, handlerVars
<1>1. CASE AddTimer
  <2>1. PICK delay \in Delays, interval \in Intervals :
            AddTimerInLoop(Timer(delay, interval, globalId))
    BY <1>1 DEF AddTimer
  <2>2. Timer(delay, interval, globalId) \in Timers
    BY NewTimer DEF TypeOK
  <2>3. /\ timerSet' \subseteq Timers /\ dropped' \subseteq Nat
        /\ fires' \in Nat \cup {Off} /\ fault' \in BOOLEAN
    BY <2>1, <2>2, AddKeeps DEF TypeOK
  <2> QED BY <1>1, <2>3, TimerAssumption DEF AddTimer, GiveId, TypeOK
<1>2. CASE CancelTimer
  <2>1. PICK id \in Ids(Live) : Cancel(id)
    BY <1>2 DEF CancelTimer
  <2>2. id \in Nat
    BY DEF TypeOK, Live, Ids, InQueue, Timers, TimerTasks
  <2>3. taskQ' \in Seq(TimerTasks) /\ UNCHANGED <<timerSet, cancelled>>
    BY <2>1, <2>2 DEF Cancel, TypeOK, TimerTasks
  <2> QED BY <1>2, <2>3 DEF CancelTimer, TypeOK
<1>3. CASE ForeignReadId
  BY <1>3, TimerAssumption DEF ForeignReadId, GiveId, TypeOK
<1>4. CASE ForeignAdd
  <2>1. PICK id \in foreign, delay \in Delays, interval \in Intervals :
            /\ taskQ' = Append(taskQ, [op |-> "add", timer |-> Timer(delay, interval, id)])
            /\ globalId' = id + 1
    BY <1>4 DEF ForeignAdd
  <2>2. id \in Nat
    BY DEF TypeOK
  <2>3. taskQ' \in Seq(TimerTasks)
    BY <2>1, <2>2, NewTimer DEF TimerTasks, TypeOK
  <2> QED BY <1>4, <2>1, <2>2, <2>3 DEF ForeignAdd, TypeOK
<1>5. CASE RunTask
  <2>1. /\ Head(taskQ) \in TimerTasks /\ Tail(taskQ) \in Seq(TimerTasks)
        /\ taskQ' = Tail(taskQ)
    BY <1>5, HeadTailProperties DEF RunTask, TypeOK
  <2>2. CASE Head(taskQ).op = "add"
    <3>1. Head(taskQ).timer \in Timers
      BY <2>1, <2>2 DEF TimerTasks
    <3>2. AddTimerInLoop(Head(taskQ).timer) /\ UNCHANGED cancelled
      BY <1>5, <2>2 DEF RunTask
    <3>3. /\ timerSet' \subseteq Timers /\ dropped' \subseteq Nat
          /\ fires' \in Nat \cup {Off} /\ fault' \in BOOLEAN
      BY <3>1, <3>2, AddKeeps DEF TypeOK
    <3> QED BY <1>5, <2>1, <3>2, <3>3 DEF RunTask, TypeOK
  <2>3. CASE Head(taskQ).op # "add"
    <3>1. Head(taskQ).id \in Nat
      BY <2>1, <2>3 DEF TimerTasks
    <3>2. Erase(Head(taskQ).id) /\ UNCHANGED <<fires, dropped, fault>>
      BY <1>5, <2>3 DEF RunTask
    <3>3. timerSet' \subseteq timerSet /\ cancelled' = cancelled \cup {Head(taskQ).id}
      BY <3>1, <3>2, EraseKeeps DEF Erase
    <3> QED BY <1>5, <2>1, <3>1, <3>2, <3>3 DEF RunTask, TypeOK
  <2> QED BY <2>2, <2>3
<1>6. CASE HandleRead
  BY <1>6 DEF HandleRead, Expired, Remaining, TypeOK
<1>7. CASE StartTimer
  <2>1. Earliest(toRun) \in toRun
    BY <1>7, EarliestIsThere DEF StartTimer, TypeOK
  <2>2. Earliest(toRun).id \in Nat
    BY <2>1 DEF TypeOK, Timers
  <2> QED BY <1>7, <2>2 DEF StartTimer, TypeOK
<1>8. CASE CallbacksDone
  BY <1>8 DEF CallbacksDone, TypeOK
<1>9. CASE ResetNext
  <2> DEFINE t == Earliest(toReset)
             again == [t EXCEPT !.left = @ + t.interval]
  <2>1. t \in toReset
    BY <1>9, EarliestIsThere DEF ResetNext, TypeOK
  <2>2. again \in Timers
    BY <2>1, AgainTimer DEF TypeOK
  <2>3. \/ UNCHANGED <<timerSet, dropped, fault>>
        \/ fault' = TRUE /\ UNCHANGED <<timerSet, dropped>>
        \/ Insert(again) /\ UNCHANGED fault
    BY <1>9 DEF ResetNext
  <2>4. timerSet' \subseteq Timers /\ dropped' \subseteq Nat /\ fault' \in BOOLEAN
    <3> HIDE DEF again
    <3> QED BY <2>2, <2>3, InsertKeeps DEF TypeOK
  <2> QED BY <1>9, <2>4 DEF ResetNext, TypeOK
<1>10. CASE ResetDone
  <2>1. fires' \in Nat \cup {Off}
    <3>1. timerSet # {} => Earliest(timerSet).left \in Int
      BY EarliestIsThere DEF TypeOK, Timers
    <3> QED BY <1>10, <3>1 DEF ResetDone, ArmNext, SetTime, TypeOK
  <2> QED BY <1>10, <2>1 DEF ResetDone, TypeOK
<1>11. CASE Destroy
  BY <1>11 DEF Destroy, TypeOK
<1>12. ASSUME NEW ticks \in {-1, 1}, TimeOfDay(ticks), Running,
              fires' \in Nat \cup {Off}, sets' \in 0..MaxSets, UNCHANGED adds
       PROVE  TypeOK'
  <2>1. timerSet' \subseteq Timers /\ toRun' \subseteq toReset' /\ toReset' \subseteq Timers
    BY <1>12, ShiftTimer DEF TimeOfDay, TypeOK
  <2>2. taskQ' \in Seq(TimerTasks)
    BY <1>12, ShiftTasks
  <2>3. /\ stamp' \in Int
        /\ pc' \in {"loop", "gone"} => toReset' = {} /\ stamp' = 0
        /\ pc' = "reset" => toRun' = {}
    BY <1>12 DEF TimeOfDay, TypeOK
  <2> QED BY <1>12, <2>1, <2>2, <2>3 DEF TimeOfDay, TypeOK
<1>13. CASE Tick
  <2>1. fires' \in Nat \cup {Off}
    BY <1>13 DEF Tick, TypeOK, Off
  <2> QED BY <1>12, <1>13, <2>1 DEF Tick, TimeOfDay, TypeOK
<1>14. CASE SetClock
  <2>1. sets' \in 0..MaxSets
    BY <1>14, TimerAssumption DEF SetClock, TypeOK
  <2> QED BY <1>12, <1>14, <2>1 DEF SetClock, TimeOfDay, TypeOK
<1>15. CASE UNCHANGED vars
  BY <1>15 DEF TypeOK
<1> QED BY <1>1, <1>2, <1>3, <1>4, <1>5, <1>6, <1>7, <1>8, <1>9, <1>10, <1>11, <1>13, <1>14,
           <1>15 DEF Next, LoopThread

-----------------------------------------------------------------------------
(* Punctuality *)

\* What handleRead took for now is past, until the clock is set back.
StampPast == pc = "run" /\ sets = 0 => stamp <= 0

\* A callback adds timers that are still to come, and time leaves the expired and the
\* others on their sides of the stamp.
LEMMA OnTimeStep == TypeOK /\ OnTime /\ StampPast /\ [Next]_vars => OnTime' /\ StampPast'
<1> SUFFICES ASSUME TypeOK, OnTime, StampPast, [Next]_vars PROVE OnTime' /\ StampPast'
  OBVIOUS
<1> USE DEF vars, idVars, handlerVars
<1>1. CASE AddTimer
  <2>1. PICK delay \in Delays, interval \in Intervals :
            AddTimerInLoop(Timer(delay, interval, globalId))
    BY <1>1 DEF AddTimer
  <2> DEFINE new == Timer(delay, interval, globalId)
  <2>2. new \in Timers /\ new.left > 0
    BY NewTimer DEF TypeOK
  <2>3. timerSet' \subseteq timerSet \cup {new}
    <3> HIDE DEF new
    <3> QED BY <2>1, <2>2, AddKeeps DEF new
  <2>4. UNCHANGED <<pc, stamp, toRun, sets>>
    BY <1>1 DEF AddTimer
  <2>5. ASSUME pc = "run", sets = 0, NEW t \in timerSet' PROVE t.left > stamp
    <3>1. stamp <= 0 /\ stamp \in Int
      BY <2>5 DEF StampPast, TypeOK
    <3>2. CASE t \in timerSet
      BY <2>5, <3>2 DEF OnTime
    <3>3. CASE t = new
      <4> HIDE DEF new
      <4>1. t.left > 0 /\ t.left \in Int
        BY <2>2, <3>3 DEF Timers
      <4> QED BY <3>1, <4>1
    <3> QED BY <2>3, <2>5, <3>2, <3>3
  <2> QED BY <2>4, <2>5 DEF OnTime, StampPast
<1>2. CASE CancelTimer \/ ForeignReadId \/ ForeignAdd
  <2>1. UNCHANGED <<pc, stamp, toRun, timerSet, sets>>
    BY <1>2 DEF CancelTimer, Cancel, ForeignReadId, ForeignAdd
  <2> QED BY <2>1 DEF OnTime, StampPast
<1>3. CASE RunTask
  BY <1>3 DEF RunTask, OnTime, StampPast
<1>4. CASE HandleRead
  BY <1>4 DEF HandleRead, Expired, Remaining, OnTime, StampPast, TypeOK, Timers
<1>5. CASE StartTimer
  <2>1. toRun' \subseteq toRun /\ UNCHANGED <<pc, stamp, timerSet, sets>>
    BY <1>5 DEF StartTimer
  <2> QED BY <2>1 DEF OnTime, StampPast
<1>6. CASE CallbacksDone \/ ResetNext \/ ResetDone \/ Destroy
  BY <1>6 DEF CallbacksDone, ResetNext, ResetDone, Destroy, OnTime, StampPast
<1>7. ASSUME NEW ticks \in {-1, 1}, TimeOfDay(ticks), sets' = 0 => sets = 0 /\ ticks = 1
      PROVE  OnTime' /\ StampPast'
  <2> SUFFICES ASSUME pc' = "run" PROVE OnTime' /\ StampPast'
    BY DEF OnTime, StampPast
  <2>1. pc = "run" /\ stamp' = stamp - ticks /\ stamp' >= -MaxLate /\ stamp \in Int
    BY <1>7 DEF TimeOfDay, TypeOK
  <2>2. ASSUME NEW t \in toRun' PROVE t.left <= stamp'
    <3>1. PICK u \in toRun : t = Shift(u, ticks)
      BY <1>7, <2>2 DEF TimeOfDay
    <3>2. u \in Timers /\ u.left \in Int /\ u.left <= stamp
      BY <2>1 DEF TypeOK, OnTime, Timers
    <3> QED BY <2>1, <3>1, <3>2, ShiftTimer, TimerAssumption
  <2>3. ASSUME sets' = 0, NEW t \in timerSet' PROVE t.left > stamp'
    <3>1. PICK u \in timerSet : t = Shift(u, ticks)
      BY <1>7, <2>3 DEF TimeOfDay
    <3>2. u \in Timers /\ u.left \in Int /\ u.left > stamp
      BY <1>7, <2>1, <2>3 DEF TypeOK, OnTime, Timers
    <3> QED BY <2>1, <3>1, <3>2, ShiftTimer, TimerAssumption
  <2>4. sets' = 0 => stamp' <= 0
    BY <1>7, <2>1 DEF StampPast
  <2> QED BY <2>2, <2>3, <2>4 DEF OnTime, StampPast
<1>8. CASE Tick
  BY <1>7, <1>8 DEF Tick
<1>9. CASE SetClock
  <2>1. sets' # 0
    BY <1>9 DEF SetClock, TypeOK
  <2> QED BY <1>7, <1>9, <2>1 DEF SetClock
<1>10. CASE UNCHANGED vars
  BY <1>10 DEF OnTime, StampPast
<1> QED BY <1>1, <1>2, <1>3, <1>4, <1>5, <1>6, <1>8, <1>9, <1>10 DEF Next, LoopThread

-----------------------------------------------------------------------------
(* The timers in the task queue *)

\* A task more, at the end.
LEMMA QueueAppended ==
    ASSUME TypeOK, NEW task \in TimerTasks, taskQ' = Append(taskQ, task)
    PROVE  InQueue' = InQueue \cup (IF task.op = "add" THEN {task.timer} ELSE {})
<1>1. /\ DOMAIN taskQ = 1..Len(taskQ) /\ Len(taskQ) \in Nat
      /\ DOMAIN taskQ' = (1..Len(taskQ)) \cup {Len(taskQ) + 1}
      /\ \A i \in 1..Len(taskQ) : taskQ'[i] = taskQ[i]
      /\ taskQ'[Len(taskQ) + 1] = task
  BY AppendProperties, LenProperties DEF TypeOK
<1> QED BY <1>1 DEF InQueue

\* A task less, at the head.
LEMMA QueueTail ==
    ASSUME TypeOK, taskQ # <<>>, taskQ' = Tail(taskQ)
    PROVE  InQueue = InQueue' \cup (IF Head(taskQ).op = "add" THEN {Head(taskQ).timer} ELSE {})
<1>1. /\ Len(taskQ) \in Nat \ {0} /\ DOMAIN taskQ = 1..Len(taskQ) /\ Head(taskQ) = taskQ[1]
      /\ DOMAIN taskQ' = 1..Len(taskQ) - 1
      /\ \A i \in 1..Len(taskQ) - 1 : taskQ'[i] = taskQ[i + 1]
  BY EmptySeq, LenProperties, HeadTailProperties DEF TypeOK
<1>2. ASSUME NEW i \in DOMAIN taskQ, taskQ[i].op = "add"
      PROVE  taskQ[i].timer \in InQueue' \cup (IF Head(taskQ).op = "add" THEN {Head(taskQ).timer} ELSE {})
  <2>1. CASE i = 1
    BY <1>1, <1>2, <2>1
  <2>2. CASE i # 1
    <3>1. i - 1 \in 1..Len(taskQ) - 1 /\ taskQ'[i - 1] = taskQ[i]
      BY <1>1, <2>2
    <3> QED BY <1>1, <1>2, <3>1 DEF InQueue
  <2> QED BY <2>1, <2>2
<1>3. ASSUME NEW i \in DOMAIN taskQ', taskQ'[i].op = "add"
      PROVE  taskQ'[i].timer \in InQueue
  <2>1. i + 1 \in 1..Len(taskQ) /\ taskQ[i + 1] = taskQ'[i]
    BY <1>1
  <2> QED BY <1>1, <1>3, <2>1 DEF InQueue
<1>4. Head(taskQ).op = "add" => Head(taskQ).timer \in InQueue
  <2>1. 1 \in DOMAIN taskQ
    BY <1>1
  <2> QED BY <1>1, <2>1 DEF InQueue
<1>5. InQueue' \subseteq InQueue
  BY <1>3 DEF InQueue
<1>6. InQueue \subseteq InQueue' \cup (IF Head(taskQ).op = "add" THEN {Head(taskQ).timer} ELSE {})
  BY <1>2 DEF InQueue
<1> QED BY <1>4, <1>5, <1>6

\* The clock leaves the ids of the timers.
LEMMA ShiftIds ==
    ASSUME TypeOK, NEW ticks \in {-1, 1}, TimeOfDay(ticks)
    PROVE  /\ Ids(Live') = Ids(Live)
           /\ Ids((timerSet \cup toRun \cup toReset)') = Ids(timerSet \cup toRun \cup toReset)
<1>1. \A S \in SUBSET Timers : Ids({Shift(t, ticks) : t \in S}) = Ids(S)
  BY ShiftTimer DEF Ids
<1>2. InQueue \in SUBSET Timers /\ InQueue' = {Shift(t, ticks) : t \in InQueue}
  <2>1. \A i \in DOMAIN taskQ : taskQ[i].op = "add" => taskQ[i].timer \in Timers
    BY ElementOfSeq, LenProperties DEF TypeOK, TimerTasks
  <2> QED BY <2>1, ShiftTasks DEF InQueue
<1>3. /\ Live' = {Shift(t, ticks) : t \in Live} /\ Live \in SUBSET Timers
      /\ (timerSet \cup toRun \cup toReset)'
            = {Shift(t, ticks) : t \in timerSet \cup toRun \cup toReset}
  BY <1>2 DEF Live, TimeOfDay, TypeOK
<1> QED BY <1>1, <1>3 DEF Live

-----------------------------------------------------------------------------
(* No timer is lost *)

Whereabouts == Ids(Live) \cup ended \cup cancelled \cup dropped

\* A timer that resetTime will not put back has been noted when it was started; and only
\* one other thread at a time adds timers.
Noted ==
    /\ \A t \in toReset \ toRun : t.interval = 0 => t.id \in ended
    /\ \A id, other \in foreign : id = other

\* Where timers go to from the set, the task queue and handleRead.
LEMMA AccountStep ==
    ASSUME TypeOK, Accounted, Noted, [Next]_vars
    PROVE  Accounted' /\ Noted'
<1> USE DEF idVars, handlerVars
<1>1. ASSUME Whereabouts \subseteq Whereabouts', UNCHANGED <<given, foreign>>, Running
      PROVE  Accounted'
  BY <1>1 DEF Accounted, Whereabouts
<1>2. taskQ' = taskQ => InQueue' = InQueue
  BY DEF InQueue
<1>3. CASE AddTimer
  <2>1. PICK delay \in Delays, interval \in Intervals :
            AddTimerInLoop(Timer(delay, interval, globalId))
    BY <1>3 DEF AddTimer
  <2>2. /\ timerSet \subseteq timerSet' /\ dropped \subseteq dropped'
        /\ fault' \/ globalId \in Ids(timerSet') \cup dropped'
    BY <2>1, NewTimer, AddKeeps DEF TypeOK
  <2>3. /\ UNCHANGED <<toRun, toReset, taskQ, foreign, ended, cancelled>>
        /\ given' = given \cup {globalId}
    BY <1>3 DEF AddTimer, GiveId
  <2>4. Whereabouts \subseteq Whereabouts'
    BY <1>2, <2>2, <2>3 DEF Whereabouts, Live, Ids
  <2>5. ~fault' => globalId \in Whereabouts'
    BY <2>2 DEF Whereabouts, Live, Ids
  <2>6. Accounted'
    BY <1>3, <2>3, <2>4, <2>5 DEF AddTimer, Accounted, Whereabouts, Running
  <2>7. Noted'
    BY <2>3 DEF Noted
  <2> QED BY <2>6, <2>7
<1>4. CASE CancelTimer
  <2>1. PICK id \in Ids(Live) : Cancel(id)
    BY <1>4 DEF CancelTimer
  <2>2. id \in Nat
    BY DEF TypeOK, Live, Ids, InQueue, Timers, TimerTasks
  <2>3. InQueue' = InQueue
    <3> DEFINE task == [op |-> "cancel", id |-> id]
    <3>1. task \in TimerTasks /\ task.op # "add" /\ taskQ' = Append(taskQ, task)
      BY <2>1, <2>2 DEF Cancel, TimerTasks
    <3> HIDE DEF task
    <3> QED BY <3>1, QueueAppended
  <2>4. UNCHANGED <<timerSet, toRun, toReset, ended, cancelled, dropped, given, foreign>>
    BY <1>4, <2>1 DEF CancelTimer, Cancel
  <2>5. Whereabouts \subseteq Whereabouts'
    BY <2>3, <2>4 DEF Whereabouts, Live, Ids
  <2> QED BY <1>1, <1>4, <2>4, <2>5 DEF CancelTimer, Noted
<1>5. CASE ForeignReadId
  <2>1. Whereabouts \subseteq Whereabouts'
    BY <1>2, <1>5 DEF ForeignReadId, Whereabouts, Live, Ids
  <2>2. Accounted'
    BY <1>5, <2>1 DEF ForeignReadId, GiveId, Accounted, Whereabouts
  <2> QED BY <1>5, <2>2 DEF ForeignReadId, Noted
<1>6. CASE ForeignAdd
  <2>1. PICK id \in foreign, delay \in Delays, interval \in Intervals :
            taskQ' = Append(taskQ, [op |-> "add", timer |-> Timer(delay, interval, id)])
    BY <1>6 DEF ForeignAdd
  <2>2. id \in Nat
    BY DEF TypeOK
  <2>3. InQueue' = InQueue \cup {Timer(delay, interval, id)}
    BY <2>1, <2>2, NewTimer, QueueAppended DEF TimerTasks
  <2>4. foreign' = {} /\ UNCHANGED <<timerSet, toRun, toReset, ended, cancelled, dropped>>
    BY <1>6 DEF ForeignAdd
  <2>5. Whereabouts \cup {id} \subseteq Whereabouts'
    <3>1. id \in Ids(Live')
      BY <2>2, <2>3, NewTimer DEF Live, Ids
    <3>2. Ids(Live) \subseteq Ids(Live')
      BY <2>3, <2>4 DEF Live, Ids
    <3> QED BY <2>4, <3>1, <3>2 DEF Whereabouts
  <2>6. Accounted'
    <3>1. foreign \subseteq {id} /\ given' = given
      BY <1>6 DEF ForeignAdd, Noted
    <3> QED BY <1>6, <2>5, <3>1 DEF ForeignAdd, Accounted, Whereabouts
  <2> QED BY <2>4, <2>6 DEF Noted
<1>7. CASE RunTask
  <2>1. /\ taskQ # <<>> /\ taskQ' = Tail(taskQ) /\ Head(taskQ) \in TimerTasks
        /\ UNCHANGED <<toRun, toReset, ended, given, foreign>> /\ Running
    BY <1>7, HeadTailProperties DEF RunTask, TypeOK
  <2>2. CASE Head(taskQ).op = "add"
    <3> DEFINE t == Head(taskQ).timer
    <3>1. t \in Timers /\ AddTimerInLoop(t) /\ UNCHANGED cancelled
      BY <1>7, <2>1, <2>2 DEF RunTask, TimerTasks
    <3>2. /\ timerSet \subseteq timerSet' /\ dropped \subseteq dropped'
          /\ fault' \/ t.id \in Ids(timerSet') \cup dropped'
      <4> HIDE DEF t
      <4> QED BY <3>1, AddKeeps
    <3>3. InQueue = InQueue' \cup {t}
      BY <2>1, <2>2, QueueTail
    <3>4. Whereabouts \subseteq Whereabouts' \cup {t.id} /\ (~fault' => t.id \in Whereabouts')
      <4> HIDE DEF t
      <4> QED BY <2>1, <3>1, <3>2, <3>3 DEF Whereabouts, Live, Ids
    <3>5. CASE fault'
      BY <2>1, <3>5 DEF Accounted, Noted, Running
    <3>6. CASE ~fault'
      BY <1>1, <2>1, <3>4, <3>6 DEF Noted
    <3> QED BY <3>5, <3>6
  <2>3. CASE Head(taskQ).op # "add"
    <3>1. Erase(Head(taskQ).id) /\ UNCHANGED dropped
      BY <1>7, <2>3 DEF RunTask
    <3>2. InQueue = InQueue'
      BY <2>1, <2>3, QueueTail
    <3>3. Head(taskQ).id \in Nat
      BY <2>1, <2>3 DEF TimerTasks
    <3>4. /\ cancelled' = cancelled \cup {Head(taskQ).id}
          /\ \A t \in timerSet \ timerSet' : t.id = Head(taskQ).id
      BY <3>1, <3>3, EraseKeeps DEF Erase
    <3>5. Whereabouts \subseteq Whereabouts'
      BY <2>1, <3>1, <3>2, <3>4 DEF Whereabouts, Live, Ids
    <3> QED BY <1>1, <2>1, <3>5 DEF Noted
  <2> QED BY <2>2, <2>3
<1>8. CASE HandleRead
  <2>1. Whereabouts \subseteq Whereabouts'
    BY <1>2, <1>8 DEF HandleRead, Remaining, Whereabouts, Live, Ids, TypeOK
  <2> QED BY <1>1, <1>8, <2>1 DEF HandleRead, Noted
<1>9. CASE StartTimer
  <2> DEFINE t == Earliest(toRun)
  <2>1. t \in toRun /\ t \in toReset
    BY <1>9, EarliestIsThere DEF StartTimer, TypeOK
  <2>2. /\ toRun' = toRun \ {t}
        /\ ended' = IF t.interval = 0 THEN ended \cup {t.id} ELSE ended
        /\ UNCHANGED <<timerSet, toReset, taskQ, given, foreign, cancelled, dropped>>
    BY <1>9 DEF StartTimer
  <2> HIDE DEF t
  <2>3. Whereabouts \subseteq Whereabouts'
    BY <1>2, <2>1, <2>2 DEF Whereabouts, Live, Ids
  <2>4. Noted'
    BY <2>1, <2>2 DEF Noted
  <2> QED BY <1>1, <1>9, <2>2, <2>3, <2>4 DEF StartTimer
<1>10. CASE CallbacksDone \/ ResetDone
  <2>1. UNCHANGED <<timerSet, toRun, toReset, taskQ, given, foreign, ended, cancelled,
                    dropped>> /\ Running
    BY <1>10 DEF CallbacksDone, ResetDone
  <2>2. Whereabouts \subseteq Whereabouts'
    BY <1>2, <2>1 DEF Whereabouts, Live, Ids
  <2> QED BY <1>1, <2>1, <2>2 DEF Noted
<1>11. CASE ResetNext
  <2> DEFINE t == Earliest(toReset)
             again == [t EXCEPT !.left = @ + t.interval]
  <2>1. t \in toReset /\ toRun = {} /\ Running
    BY <1>11, EarliestIsThere DEF ResetNext, TypeOK
  <2>2. again \in Timers /\ again.id = t.id
    BY <2>1, AgainTimer DEF TypeOK
  <2>3. /\ toReset' = toReset \ {t}
        /\ UNCHANGED <<toRun, taskQ, given, foreign, ended, cancelled>>
        /\ \/ t.interval = 0 /\ UNCHANGED <<timerSet, dropped, fault>>
           \/ fault' = TRUE /\ UNCHANGED <<timerSet, dropped>>
           \/ Insert(again) /\ UNCHANGED fault
    BY <1>11 DEF ResetNext
  <2>4. fault' \/ (t.interval = 0 /\ t.id \in ended) \/ t.id \in Ids(timerSet') \cup dropped'
    <3> HIDE DEF again
    <3> QED BY <2>1, <2>2, <2>3, InsertKeeps DEF Noted
  <2>5. timerSet \subseteq timerSet' /\ dropped \subseteq dropped'
    <3> HIDE DEF again
    <3> QED BY <2>2, <2>3, InsertKeeps
  <2>6. Noted'
    BY <2>3 DEF Noted
  <2> HIDE DEF t, again
  <2>7. fault' \/ Whereabouts \subseteq Whereabouts'
    BY <1>2, <2>1, <2>3, <2>4, <2>5 DEF Whereabouts, Live, Ids
  <2>8. Accounted'
    <3>1. CASE fault'
      BY <3>1 DEF Accounted, Running
    <3> QED BY <1>1, <2>1, <2>3, <2>7, <3>1
  <2> QED BY <2>6, <2>8
<1>12. CASE Destroy
  BY <1>12 DEF Destroy, Accounted, Running, Noted
<1>13. ASSUME NEW ticks \in {-1, 1}, TimeOfDay(ticks), Running
       PROVE  Accounted' /\ Noted'
  <2>1. UNCHANGED <<given, foreign, ended, cancelled, dropped>>
    BY <1>13 DEF TimeOfDay
  <2>2. Whereabouts \subseteq Whereabouts'
    <3>1. Ids(Live') = Ids(Live)
      BY <1>13, ShiftIds
    <3> QED BY <2>1, <3>1 DEF Whereabouts
  <2>3. ASSUME NEW t \in toReset', t \notin toRun', t.interval = 0 PROVE t.id \in ended
    <3>1. PICK u \in toReset : t = Shift(u, ticks)
      BY <1>13, <2>3 DEF TimeOfDay
    <3>2. u \notin toRun
      BY <1>13, <2>3, <3>1 DEF TimeOfDay
    <3>3. u.id = t.id /\ u.interval = t.interval
      BY <3>1, ShiftTimer DEF TypeOK
    <3> QED BY <2>3, <3>2, <3>3 DEF Noted
  <2>4. Noted'
    BY <2>1, <2>3 DEF Noted
  <2> QED BY <1>1, <1>13, <2>1, <2>2, <2>4
<1>14. CASE Tick
  BY <1>13, <1>14 DEF Tick
<1>15. CASE SetClock
  BY <1>13, <1>15 DEF SetClock
<1>16. CASE UNCHANGED vars
  <2>1. Whereabouts' = Whereabouts /\ Running' = Running /\ UNCHANGED <<given, foreign>>
    BY <1>2, <1>16 DEF vars, Whereabouts, Live, Ids, Running
  <2> QED BY <1>16, <2>1 DEF vars, Accounted, Whereabouts, Noted
<1> QED BY <1>3, <1>4, <1>5, <1>6, <1>7, <1>8, <1>9, <1>10, <1>11, <1>12, <1>14, <1>15, <1>16
        DEF Next, LoopThread

-----------------------------------------------------------------------------
(* A cancelled timer is gone *)

InHand == timerSet \cup toRun \cup toReset

\* The id that a task is about.
IdOf(task) == IF task.op = "add" THEN task.timer.id ELSE task.id

TaskIds == {IdOf(taskQ[k]) : k \in DOMAIN taskQ}

Known == Ids(InHand) \cup TaskIds \cup cancelled

\* What anybody knows of is an id that a timer has got; and an id which another thread has
\* read, and nobody has read since, is still unknown.
Taken ==
    /\ Known \cup foreign \subseteq given
    /\ foreign \cap Known \subseteq twice

\* A timer that is still to be added, and has its id to itself, is nowhere yet; its
\* cancellation, if there is one, is queued behind it.
AddedFirst ==
    \A k \in DOMAIN taskQ :
        taskQ[k].op = "add" /\ IdOf(taskQ[k]) \notin twice =>
            /\ IdOf(taskQ[k]) \notin Ids(InHand) \cup cancelled
            /\ \A j \in 1..k - 1 : IdOf(taskQ[j]) # IdOf(taskQ[k])

\* A cancellation takes one timer of its id: an id that one timer has got is in one place.
Alone ==
    /\ \A t, u \in timerSet : t.id = u.id => t = u \/ t.id \in twice
    /\ \A t, u \in toReset : t.id = u.id => t = u \/ t.id \in twice
    /\ Ids(timerSet) \cap Ids(toReset) \subseteq twice

CancelInv == CancelledGone /\ Taken /\ AddedFirst /\ Alone

\* Steps that leave the tasks and what was cancelled, and bring no timer from elsewhere.
LEMMA NothingNew ==
    ASSUME TypeOK, CancelInv, Alone',
           DOMAIN taskQ' = DOMAIN taskQ,
           \A k \in DOMAIN taskQ :
               taskQ'[k].op = taskQ[k].op /\ IdOf(taskQ'[k]) = IdOf(taskQ[k]),
           cancelled' = cancelled, Ids(InHand') \subseteq Ids(InHand),
           given \subseteq given', twice \subseteq twice',
           foreign' \subseteq given', foreign' \cap Known \subseteq twice'
    PROVE  CancelInv'
<1>1. TaskIds' = TaskIds
  BY DEF TaskIds
<1>2. Known' \subseteq Known
  BY <1>1 DEF Known
<1>3. CancelledGone'
  BY DEF CancelInv, CancelledGone, InHand
<1>4. Taken'
  BY <1>2 DEF CancelInv, Taken
<1>5. \A k \in DOMAIN taskQ : \A j \in 1..k - 1 : j \in DOMAIN taskQ
  BY LenProperties DEF TypeOK
<1>6. AddedFirst'
  BY <1>5 DEF CancelInv, AddedFirst
<1> QED BY <1>3, <1>4, <1>6 DEF CancelInv

\* A task at the end of the queue.
LEMMA TaskAppended ==
    ASSUME TypeOK, CancelInv, NEW task, taskQ' = Append(taskQ, task),
           UNCHANGED <<timerSet, toRun, toReset, cancelled, given, twice>>,
           foreign' \subseteq foreign,
           IdOf(task) \in given, IdOf(task) \in foreign' => IdOf(task) \in twice,
           task.op = "add" => IdOf(task) \in twice \/ IdOf(task) \notin Known
    PROVE  CancelInv'
<1>1. /\ DOMAIN taskQ = 1..Len(taskQ) /\ Len(taskQ) \in Nat
      /\ DOMAIN taskQ' = (1..Len(taskQ)) \cup {Len(taskQ) + 1}
      /\ \A k \in 1..Len(taskQ) : taskQ'[k] = taskQ[k]
      /\ taskQ'[Len(taskQ) + 1] = task
  BY LenProperties DEF TypeOK
<1>2. CancelledGone' /\ Alone'
  BY DEF CancelInv, CancelledGone, Alone
<1>3. Ids(InHand') = Ids(InHand)
  BY DEF InHand
<1>4. TaskIds' = TaskIds \cup {IdOf(task)}
  BY <1>1 DEF TaskIds
<1>5. Known' = Known \cup {IdOf(task)}
  BY <1>3, <1>4 DEF Known
<1>6. Taken'
  BY <1>5 DEF CancelInv, Taken
<1>7. AddedFirst'
  <2> SUFFICES ASSUME NEW k \in DOMAIN taskQ', taskQ'[k].op = "add",
                      IdOf(taskQ'[k]) \notin twice
               PROVE  /\ IdOf(taskQ'[k]) \notin Ids(InHand) \cup cancelled
                      /\ \A j \in 1..k - 1 : IdOf(taskQ'[j]) # IdOf(taskQ'[k])
    BY <1>3 DEF AddedFirst
  <2>1. \A j \in 1..k - 1 : j \in DOMAIN taskQ /\ taskQ'[j] = taskQ[j]
    BY <1>1
  <2>2. CASE k \in DOMAIN taskQ
    BY <1>1, <2>1, <2>2 DEF CancelInv, AddedFirst
  <2>3. CASE k = Len(taskQ) + 1
    <3>1. IdOf(task) \notin Known
      BY <1>1, <2>3
    <3>2. \A j \in DOMAIN taskQ : IdOf(taskQ[j]) \in Known
      BY DEF Known, TaskIds
    <3> QED BY <1>1, <2>1, <2>3, <3>1, <3>2 DEF Known
  <2> QED BY <1>1, <2>2, <2>3
<1> QED BY <1>2, <1>6, <1>7 DEF CancelInv

\* The task at the head of the queue leaves it.
LEMMA HeadLeaves ==
    ASSUME TypeOK, AddedFirst, taskQ # <<>>, taskQ' = Tail(taskQ)
    PROVE  /\ Head(taskQ) \in TimerTasks
           /\ TaskIds = TaskIds' \cup {IdOf(Head(taskQ))}
           /\ Head(taskQ).op = "add" /\ IdOf(Head(taskQ)) \notin twice =>
                 IdOf(Head(taskQ)) \notin Ids(InHand) \cup cancelled
           /\ \A k \in DOMAIN taskQ' :
                 taskQ'[k].op = "add" /\ IdOf(taskQ'[k]) \notin twice =>
                     /\ IdOf(taskQ'[k]) \notin Ids(InHand) \cup cancelled
                     /\ IdOf(taskQ'[k]) # IdOf(Head(taskQ))
                     /\ \A j \in 1..k - 1 : IdOf(taskQ'[j]) # IdOf(taskQ'[k])
<1>1. /\ Len(taskQ) \in Nat \ {0} /\ DOMAIN taskQ = 1..Len(taskQ) /\ Head(taskQ) = taskQ[1]
      /\ DOMAIN taskQ' = 1..Len(taskQ) - 1 /\ Head(taskQ) \in TimerTasks
      /\ \A k \in 1..Len(taskQ) - 1 : taskQ'[k] = taskQ[k + 1]
  BY EmptySeq, LenProperties, HeadTailProperties DEF TypeOK
<1>2. 1 \in DOMAIN taskQ
  BY <1>1
<1>3. \A k \in DOMAIN taskQ' : k + 1 \in DOMAIN taskQ /\ taskQ'[k] = taskQ[k + 1]
  BY <1>1
<1>4. TaskIds = TaskIds' \cup {IdOf(Head(taskQ))}
  <2>1. ASSUME NEW k \in DOMAIN taskQ, k # 1
        PROVE  k - 1 \in DOMAIN taskQ' /\ taskQ'[k - 1] = taskQ[k]
    BY <1>1, <2>1
  <2>2. TaskIds \subseteq TaskIds' \cup {IdOf(Head(taskQ))}
    BY <1>1, <2>1 DEF TaskIds
  <2>3. TaskIds' \subseteq TaskIds
    BY <1>3 DEF TaskIds
  <2>4. IdOf(Head(taskQ)) \in TaskIds
    BY <1>1, <1>2 DEF TaskIds
  <2> QED BY <2>2, <2>3, <2>4
<1>5. Head(taskQ).op = "add" /\ IdOf(Head(taskQ)) \notin twice =>
          IdOf(Head(taskQ)) \notin Ids(InHand) \cup cancelled
  BY <1>1, <1>2 DEF AddedFirst
<1>6. ASSUME NEW k \in DOMAIN taskQ', taskQ'[k].op = "add", IdOf(taskQ'[k]) \notin twice
      PROVE  /\ IdOf(taskQ'[k]) \notin Ids(InHand) \cup cancelled
             /\ IdOf(taskQ'[k]) # IdOf(Head(taskQ))
             /\ \A j \in 1..k - 1 : IdOf(taskQ'[j]) # IdOf(taskQ'[k])
  <2>1. /\ IdOf(taskQ[k + 1]) \notin Ids(InHand) \cup cancelled
        /\ \A j \in 1..(k + 1) - 1 : IdOf(taskQ[j]) # IdOf(taskQ[k + 1])
    BY <1>3, <1>6 DEF AddedFirst
  <2>2. 1 \in 1..(k + 1) - 1
        /\ \A j \in 1..k - 1 : j + 1 \in 1..(k + 1) - 1 /\ j \in DOMAIN taskQ'
    BY <1>1
  <2> QED BY <1>1, <1>3, <2>1, <2>2
<1> QED BY <1>1, <1>4, <1>5, <1>6

\* The task at the head of the queue runs.
LEMMA CancelRuns ==
    ASSUME TypeOK, CancelInv, RunTask
    PROVE  CancelInv'
<1>1. /\ taskQ # <<>> /\ taskQ' = Tail(taskQ)
      /\ toRun = {} /\ toReset = {} /\ toRun' = {} /\ toReset' = {}
      /\ UNCHANGED <<foreign, given, twice>>
  BY DEF RunTask, handlerVars, idVars, TypeOK
<1> DEFINE head == Head(taskQ)
           id == IdOf(head)
<1>2. /\ head \in TimerTasks /\ TaskIds = TaskIds' \cup {id}
      /\ head.op = "add" /\ id \notin twice => id \notin Ids(InHand) \cup cancelled
  BY <1>1, HeadLeaves DEF CancelInv
<1>3. \A k \in DOMAIN taskQ' :
          taskQ'[k].op = "add" /\ IdOf(taskQ'[k]) \notin twice =>
              /\ IdOf(taskQ'[k]) \notin Ids(InHand) \cup cancelled
              /\ IdOf(taskQ'[k]) # id
              /\ \A j \in 1..k - 1 : IdOf(taskQ'[j]) # IdOf(taskQ'[k])
  BY <1>1, HeadLeaves DEF CancelInv
<1>4. InHand = timerSet /\ InHand' = timerSet'
  BY <1>1 DEF InHand
<1>5. \/ /\ head.op = "add" /\ head.timer.id = id /\ cancelled' = cancelled
         /\ timerSet' \subseteq timerSet \cup {head.timer}
      \/ /\ head.op = "cancel" /\ cancelled' = cancelled \cup {id}
         /\ timerSet' \subseteq timerSet
         /\ \/ \A t \in timerSet : t.id # id
            \/ \E t \in timerSet : t.id = id /\ timerSet' = timerSet \ {t}
  <2>1. CASE head.op = "add"
    <3>1. head.timer \in Timers /\ head.timer.id = id
      BY <1>2, <2>1 DEF TimerTasks, IdOf
    <3>2. AddTimerInLoop(head.timer) /\ cancelled' = cancelled
      BY <2>1 DEF RunTask
    <3> HIDE DEF head, id
    <3> QED BY <2>1, <3>1, <3>2, AddKeeps
  <2>2. CASE head.op = "cancel"
    <3>1. id \in Nat /\ head.id = id
      BY <1>2, <2>2 DEF TimerTasks, IdOf
    <3>2. Erase(id)
      BY <2>2, <3>1 DEF RunTask
    <3>3. cancelled' = cancelled \cup {id}
      BY <3>2 DEF Erase
    <3> HIDE DEF head, id
    <3> QED BY <2>2, <3>1, <3>2, <3>3, EraseKeeps
  <2> QED BY <1>2, <2>1, <2>2 DEF TimerTasks
<1> HIDE DEF head, id
<1>6. Ids(InHand') \subseteq Ids(InHand) \cup {id} /\ cancelled' \subseteq cancelled \cup {id}
  BY <1>4, <1>5 DEF Ids
<1>7. id \in Ids(timerSet') \cap cancelled' => id \in twice
  <2>1. CASE head.op = "add"
    BY <1>2, <1>5, <2>1
  <2>2. CASE head.op = "cancel"
    BY <1>5, <2>2 DEF CancelInv, Alone, Ids
  <2> QED BY <1>5, <2>1, <2>2
<1>8. CancelledGone'
  BY <1>1, <1>4, <1>6, <1>7 DEF CancelInv, CancelledGone, InHand
<1>9. Taken'
  <2>1. Known' \subseteq Known
    BY <1>2, <1>6 DEF Known
  <2> QED BY <1>1, <2>1 DEF CancelInv, Taken
<1>10. AddedFirst'
  BY <1>1, <1>3, <1>6 DEF AddedFirst
<1>11. Alone'
  <2>1. \A t, u \in timerSet' : t.id = u.id => t = u \/ t.id \in twice
    <3>1. CASE head.op = "add"
      <4>1. id \in twice \/ \A t \in timerSet : t.id # id
        BY <1>2, <1>4, <3>1 DEF Ids
      <4> QED BY <1>5, <3>1, <4>1 DEF CancelInv, Alone
    <3>2. CASE head.op = "cancel"
      BY <1>5, <3>2 DEF CancelInv, Alone
    <3> QED BY <1>5, <3>1, <3>2
  <2> QED BY <1>1, <2>1 DEF Alone, Ids
<1> QED BY <1>8, <1>9, <1>10, <1>11 DEF CancelInv

\* The loop's thread adds a timer: it has its id to itself, or the id has now been given
\* twice.
LEMMA CancelAdds ==
    ASSUME TypeOK, CancelInv, AddTimer
    PROVE  CancelInv'
<1>1. PICK delay \in Delays, interval \in Intervals :
          AddTimerInLoop(Timer(delay, interval, globalId))
  BY DEF AddTimer
<1> DEFINE new == Timer(delay, interval, globalId)
<1>2. new \in Timers /\ new.id = globalId
  BY NewTimer DEF TypeOK
<1>3. timerSet' \subseteq timerSet \cup {new}
  <2> HIDE DEF new
  <2> QED BY <1>1, <1>2, AddKeeps DEF new
<1> HIDE DEF new
<1>4. /\ UNCHANGED <<toRun, toReset, taskQ, cancelled, foreign>>
      /\ given' = given \cup {globalId}
      /\ twice' = IF globalId \in given THEN twice \cup {globalId} ELSE twice
  BY DEF AddTimer, GiveId, handlerVars
<1>5. twice \subseteq twice' /\ (globalId \in twice' \/ globalId \notin given)
  BY <1>4
<1>6. globalId \in twice' \/ globalId \notin Known \cup foreign
  BY <1>5 DEF CancelInv, Taken
<1>7. TaskIds' = TaskIds
  BY <1>4 DEF TaskIds
<1>8. Ids(InHand') \subseteq Ids(InHand) \cup {globalId}
  BY <1>2, <1>3, <1>4 DEF InHand, Ids
<1>9. CancelledGone'
  BY <1>4, <1>5, <1>6, <1>8 DEF CancelInv, CancelledGone, InHand, Known
<1>10. Taken'
  <2>1. Known' \subseteq Known \cup {globalId}
    BY <1>4, <1>7, <1>8 DEF Known
  <2> QED BY <1>4, <1>5, <1>6, <2>1 DEF CancelInv, Taken
<1>11. AddedFirst'
  <2>1. \A k \in DOMAIN taskQ : IdOf(taskQ[k]) # globalId \/ globalId \in twice'
    BY <1>6 DEF Known, TaskIds
  <2> QED BY <1>4, <1>5, <1>8, <2>1 DEF CancelInv, AddedFirst
<1>12. Alone'
  <2>1. \/ globalId \in twice'
        \/ \A t \in timerSet \cup toReset : t.id # globalId
    BY <1>6 DEF Known, InHand, Ids
  <2>2. \A t, u \in timerSet' : t.id = u.id => t = u \/ t.id \in twice'
    BY <1>2, <1>3, <1>5, <2>1 DEF CancelInv, Alone
  <2>3. Ids(timerSet') \cap Ids(toReset') \subseteq twice'
    BY <1>2, <1>3, <1>4, <1>5, <2>1 DEF CancelInv, Alone, Ids
  <2> QED BY <1>4, <1>5, <2>2, <2>3 DEF CancelInv, Alone
<1> QED BY <1>9, <1>10, <1>11, <1>12 DEF CancelInv

\* resetTime moves a timer from its list to the set.
LEMMA CancelResets ==
    ASSUME TypeOK, CancelInv, ResetNext
    PROVE  CancelInv'
<1> DEFINE t == Earliest(toReset)
           again == [t EXCEPT !.left = @ + t.interval]
<1>1. t \in toReset /\ toRun = {} /\ toRun' = {}
  BY EarliestIsThere DEF ResetNext, TypeOK
<1>2. again \in Timers /\ again.id = t.id
  BY <1>1, AgainTimer DEF TypeOK
<1>3. /\ toReset' = toReset \ {t}
      /\ UNCHANGED <<taskQ, cancelled, foreign, given, twice>>
      /\ timerSet' = timerSet \/ Insert(again)
  BY DEF ResetNext, idVars
<1> HIDE DEF again, t
<1>4. timerSet' \subseteq timerSet \cup {again}
  BY <1>2, <1>3, InsertKeeps
<1>5. Ids(InHand') \subseteq Ids(InHand)
  BY <1>1, <1>2, <1>3, <1>4 DEF InHand, Ids
<1>6. Alone'
  <2>1. t.id \in twice \/ \A u \in timerSet \cup (toReset \ {t}) : u.id # t.id
    BY <1>1 DEF CancelInv, Alone, Ids
  <2> QED BY <1>2, <1>3, <1>4, <2>1 DEF CancelInv, Alone, Ids
<1> QED BY <1>3, <1>5, <1>6, NothingNew DEF CancelInv, Taken

\* The clock leaves every timer where it is.
LEMMA CancelShifts ==
    ASSUME TypeOK, CancelInv, NEW ticks \in {-1, 1}, TimeOfDay(ticks)
    PROVE  CancelInv'
<1>1. UNCHANGED <<foreign, given, twice, cancelled>>
  BY DEF TimeOfDay, idVars
<1>2. Ids(InHand') = Ids(InHand)
  BY ShiftIds DEF InHand
<1>3. /\ DOMAIN taskQ' = DOMAIN taskQ
      /\ \A k \in DOMAIN taskQ :
            taskQ'[k].op = taskQ[k].op /\ IdOf(taskQ'[k]) = IdOf(taskQ[k])
  <2>1. \A k \in DOMAIN taskQ : taskQ[k] \in TimerTasks
    BY ElementOfSeq, LenProperties DEF TypeOK
  <2>2. \A k \in DOMAIN taskQ :
            \/ taskQ[k].op = "add" /\ taskQ[k].timer \in Timers
            \/ taskQ[k].op = "cancel"
    BY <2>1 DEF TimerTasks
  <2> QED BY <2>2, ShiftTasks, ShiftTimer DEF IdOf
<1>4. \A S \in SUBSET Timers : Ids({Shift(t, ticks) : t \in S}) = Ids(S)
  BY ShiftTimer DEF Ids
<1>5. Alone'
  <2>1. ASSUME NEW S \in SUBSET Timers,
               \A t, u \in S : t.id = u.id => t = u \/ t.id \in twice
        PROVE  \A t, u \in {Shift(v, ticks) : v \in S} : t.id = u.id => t = u \/ t.id \in twice
    BY <2>1, ShiftTimer
  <2>2. /\ timerSet' = {Shift(t, ticks) : t \in timerSet}
        /\ toReset' = {Shift(t, ticks) : t \in toReset}
        /\ timerSet \in SUBSET Timers /\ toReset \in SUBSET Timers
    BY DEF TimeOfDay, TypeOK
  <2>3. Ids(timerSet') = Ids(timerSet) /\ Ids(toReset') = Ids(toReset)
    BY <1>4, <2>2
  <2> QED BY <1>1, <2>1, <2>2, <2>3 DEF CancelInv, Alone
<1> QED BY <1>1, <1>2, <1>3, <1>5, NothingNew DEF CancelInv, Taken

\* Whatever happens, a cancelled timer stays away.
LEMMA CancelStep == TypeOK /\ CancelInv /\ [Next]_vars => CancelInv'
<1> SUFFICES ASSUME TypeOK, CancelInv, [Next]_vars PROVE CancelInv'
  OBVIOUS
<1> USE DEF idVars, handlerVars
<1>1. CASE AddTimer
  BY <1>1, CancelAdds
<1>2. CASE CancelTimer
  <2>1. PICK id \in Ids(Live) : Cancel(id)
    BY <1>2 DEF CancelTimer
  <2> DEFINE task == [op |-> "cancel", id |-> id]
  <2>2. task.op # "add" /\ IdOf(task) = id
    BY DEF IdOf
  <2>3. taskQ' = Append(taskQ, task) /\ UNCHANGED <<timerSet, cancelled>>
    BY <2>1 DEF Cancel
  <2>4. UNCHANGED <<toRun, toReset, foreign, given, twice>>
    BY <1>2 DEF CancelTimer
  <2>5. id \in Known
    BY DEF Known, TaskIds, Live, InQueue, InHand, Ids, IdOf
  <2>6. id \in given /\ (id \in foreign => id \in twice)
    BY <2>5 DEF CancelInv, Taken
  <2> HIDE DEF task
  <2> QED BY <2>2, <2>3, <2>4, <2>6, TaskAppended
<1>3. CASE ForeignReadId
  <2>1. /\ UNCHANGED <<timerSet, toRun, toReset, taskQ, cancelled>> /\ foreign' = {globalId}
        /\ given' = given \cup {globalId}
        /\ twice' = IF globalId \in given THEN twice \cup {globalId} ELSE twice
    BY <1>3 DEF ForeignReadId, GiveId
  <2>2. foreign' \cap Known \subseteq twice'
    BY <2>1 DEF CancelInv, Taken
  <2>3. Alone' /\ Ids(InHand') = Ids(InHand)
    BY <2>1 DEF CancelInv, Alone, InHand
  <2> QED BY <2>1, <2>2, <2>3, NothingNew
<1>4. CASE ForeignAdd
  <2>1. PICK id \in foreign, delay \in Delays, interval \in Intervals :
            taskQ' = Append(taskQ, [op |-> "add", timer |-> Timer(delay, interval, id)])
    BY <1>4 DEF ForeignAdd
  <2> DEFINE task == [op |-> "add", timer |-> Timer(delay, interval, id)]
  <2>2. task.op = "add" /\ IdOf(task) = id
    BY NewTimer DEF IdOf, TypeOK
  <2>3. UNCHANGED <<timerSet, toRun, toReset, cancelled, given, twice>> /\ foreign' = {}
    BY <1>4 DEF ForeignAdd
  <2>4. id \in given /\ (id \in twice \/ id \notin Known)
    BY DEF CancelInv, Taken
  <2>5. taskQ' = Append(taskQ, task)
    BY <2>1
  <2> HIDE DEF task
  <2> QED BY <2>2, <2>3, <2>4, <2>5, TaskAppended
<1>5. CASE RunTask
  BY <1>5, CancelRuns
<1>6. CASE HandleRead
  <2>1. /\ UNCHANGED <<taskQ, cancelled, foreign, given, twice>>
        /\ timerSet' = timerSet \ Expired /\ toRun' = Expired /\ toReset' = Expired
        /\ Expired \subseteq timerSet
    BY <1>6 DEF HandleRead, Expired, Remaining
  <2>2. Ids(InHand') \subseteq Ids(InHand)
    BY <2>1 DEF InHand, Ids
  <2>3. Alone'
    BY <2>1 DEF CancelInv, Alone, Ids
  <2> QED BY <2>1, <2>2, <2>3, NothingNew DEF CancelInv, Taken
<1>7. CASE StartTimer \/ CallbacksDone \/ ResetDone \/ Destroy
  <2>1. /\ UNCHANGED <<toReset, taskQ, cancelled, foreign, given, twice>>
        /\ timerSet' \subseteq timerSet /\ toRun' \subseteq toRun
    BY <1>7 DEF StartTimer, CallbacksDone, ResetDone, Destroy
  <2>2. Ids(InHand') \subseteq Ids(InHand) /\ Alone'
    BY <2>1 DEF InHand, Ids, CancelInv, Alone
  <2> QED BY <2>1, <2>2, NothingNew DEF CancelInv, Taken
<1>8. CASE ResetNext
  BY <1>8, CancelResets
<1>9. CASE Tick \/ SetClock
  BY <1>9, CancelShifts DEF Tick, SetClock
<1>10. CASE UNCHANGED vars
  <2>1. UNCHANGED <<timerSet, toRun, toReset, taskQ, cancelled, foreign, given, twice>>
    BY <1>10 DEF vars
  <2>2. Alone' /\ Ids(InHand') = Ids(InHand)
    BY <2>1 DEF CancelInv, Alone, InHand
  <2> QED BY <2>1, <2>2, NothingNew DEF CancelInv, Taken
<1> QED BY <1>1, <1>2, <1>3, <1>4, <1>5, <1>6, <1>7, <1>8, <1>9, <1>10 DEF Next, LoopThread

-----------------------------------------------------------------------------
(* The theorems *)

Inv == TypeOK /\ OnTime /\ StampPast /\ Accounted /\ Noted

\* The queue starts without timers.
LEMMA InitInv == Init => Inv /\ CancelInv
<1> SUFFICES ASSUME Init PROVE Inv /\ CancelInv
  OBVIOUS
<1>1. TypeOK
  <2>1. taskQ \in Seq(TimerTasks)
    BY EmptySeq DEF Init
  <2>2. 0 \in 0..MaxAdds /\ 0 \in 0..MaxSets
    BY TimerAssumption
  <2>3. fault \in BOOLEAN /\ fires \in Nat \cup {Off}
    BY DEF Init
  <2>4. stamp \in Int /\ globalId \in Nat /\ pc \in {"loop", "run", "reset", "gone"}
    BY DEF Init
  <2> QED BY <2>1, <2>2, <2>3, <2>4 DEF Init, TypeOK
<1>2. Live = {} /\ taskQ = <<>>
  BY DEF Init, Live, InQueue
<1>3. OnTime /\ StampPast /\ Accounted /\ Noted
  BY DEF Init, OnTime, StampPast, Accounted, Noted
<1>4. CancelInv
  BY <1>2 DEF Init, CancelInv, CancelledGone, Taken, AddedFirst, Alone, Known, TaskIds, InHand, Ids
<1> QED BY <1>1, <1>3, <1>4 DEF Inv

\* The invariant of the timers.
LEMMA Invariance == Spec => []Inv
<1>1. Init => Inv
  BY InitInv
<1>2. Inv /\ [Next]_vars => Inv'
  BY TypeStep, OnTimeStep, AccountStep DEF Inv
<1> QED BY <1>1, <1>2, PTL DEF Spec

\* The state of the timers has its type (timer.h:88-89).
THEOREM TypeCorrect == Spec => []TypeOK
<1>1. Inv => TypeOK
  BY DEF Inv
<1> QED BY <1>1, Invariance, PTL

\* No timer is started before the time of day that handleRead has read, and, unless the
\* clock is set, none that has expired by then is left in the set (timer.cpp:57-72,
\* 119-127).
THEOREM StartedOnTime == Spec => []OnTime
<1>1. Inv => OnTime
  BY DEF Inv
<1> QED BY <1>1, Invariance, PTL

\* No timer is lost, however its callback, the task queue, other threads and the clock
\* get in between (timer.cpp:85-110, 119-127, 151-160).
THEOREM NoTimerLost == Spec => []Accounted
<1>1. Inv => Accounted
  BY DEF Inv
<1> QED BY <1>1, Invariance, PTL

\* A cancelled timer never comes back, also when another thread takes an id at the same
\* time: only of timers that share an id one may stay (timer.cpp:151-196, timer.h:43-44).
THEOREM CancelledStaysGone == Spec => []CancelledGone
<1>1. Init => TypeOK /\ CancelInv
  BY InitInv DEF Inv
<1>2. TypeOK /\ CancelInv /\ [Next]_vars => (TypeOK /\ CancelInv)'
  BY TypeStep, CancelStep
<1>3. TypeOK /\ CancelInv => CancelledGone
  BY DEF CancelInv
<1> QED BY <1>1, <1>2, <1>3, PTL DEF Spec
=============================================================================
