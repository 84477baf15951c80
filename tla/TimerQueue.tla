----------------------------- MODULE TimerQueue -----------------------------
(***************************************************************************)
(* tcp/timer.cpp: the timers of one EventLoop, ordered by expiration, and  *)
(* the timerfd that is to fire for the first of them.  Timers are added by *)
(* the loop's thread, directly, or by another thread, through the task     *)
(* queue; a cancellation always goes through the task queue.               *)
(*                                                                         *)
(* There are two clocks: expirations are times of day (gettimeofday), the  *)
(* timerfd counts on CLOCK_MONOTONIC.  Both go on while handlers,          *)
(* callbacks and tasks wait or run, and the time of day may be set.  All   *)
(* times are kept relative to now, in ticks, a tick being the least delay  *)
(* that setTime arms for; so the clocks may run for ever.                  *)
(***************************************************************************)
EXTENDS Integers, Sequences, FiniteSets

CONSTANTS MaxAdds,      \* bound: calls of addTimer
          MaxSets,      \* bound: the clock is set, a tick forward or back
          MaxLate,      \* bound: ticks a handler takes; a timer is no later
          Delays,       \* delays with which timers are added
          Intervals     \* their intervals; 0 for a timer that does not repeat

ASSUME TimerAssumption ==
    /\ MaxAdds \in Nat /\ MaxSets \in Nat /\ MaxLate \in Nat
    /\ Delays \subseteq Nat \ {0} /\ Intervals \subseteq 0..MaxLate

VARIABLES timerSet,   \* m_timerSet
          fires,      \* ticks until the timerfd is readable, or Off
          pc,         \* "loop" (waiting or running tasks), inside handleRead "run"
                      \* the expired timers or "reset" the repeating ones, or "gone"
          stamp,      \* handleRead's nowTimeStamp
          toRun,      \* m_activeTimers not yet started
          toReset,    \* m_activeTimers not yet looked at by resetTime
          taskQ,      \* addTimerInLoop and cancelTimerInLoop tasks
          globalId,   \* Timer::globalId
          foreign,    \* what another thread inside globalId++ has read: {} or {id}
          given,      \* history: ids that timers have got
          twice,      \* history: those that two timers have got
          adds,       \* calls of addTimer so far
          sets,       \* how often the clock was set
          ended,      \* history: ids of timers that have run for the last time
          cancelled,  \* history: ids whose cancellation has run
          dropped,    \* history: ids of timers the set took for another one
          fault       \* did the assert in enqueue fail?

idVars == <<globalId, foreign, given, twice, adds>>
handlerVars == <<pc, stamp, toRun, toReset>>
vars == <<timerSet, fires, handlerVars, taskQ, idVars, sets, ended, cancelled, dropped,
          fault>>

Off == -1

\* `left` is m_when less the time of day.
Timer(left, interval, id) == [left |-> left, interval |-> interval, id |-> id]

InQueue == {taskQ[i].timer : i \in {j \in DOMAIN taskQ : taskQ[j].op = "add"}}

Live == timerSet \cup toRun \cup toReset \cup InQueue

Ids(S) == {t.id : t \in S}

Running == ~fault /\ pc # "gone"

-----------------------------------------------------------------------------
(* The set and the timerfd *)

Earliest(S) == CHOOSE t \in S : \A u \in S : t.left <= u.left

\* setTime never arms for less than a tick.
SetTime(left) == fires' = IF left < 1 THEN 1 ELSE left

\* Is `left` before m_timerSet.begin()->first?  On an empty set that reads the
\* number of nodes, 0, which no time of day is below.
BeforeBegin(left) == timerSet # {} /\ left < Earliest(timerSet).left

\* What enqueue returns: is the timerfd to be armed for the new timer?
EnqueueResets(left) == Cardinality(timerSet) = 1 \/ BeforeBegin(left)

\* mutant: the later of two timers of one expiration replaces the earlier one
InsertReplaces(t) ==
    /\ timerSet' = {u \in timerSet : u.left # t.left} \cup {t}
    /\ UNCHANGED dropped

\* enqueue's insert.  Two timers of the same expiration are the same to the set.
Insert(t) ==
    IF \E u \in timerSet : u.left = t.left
    THEN dropped' = dropped \cup {t.id} /\ UNCHANGED timerSet
    ELSE timerSet' = timerSet \cup {t} /\ UNCHANGED dropped

\* addTimerInLoop, with the assert of enqueue.
AddTimerInLoop(t) ==
    IF t.left <= 0 THEN fault' = TRUE /\ UNCHANGED <<timerSet, dropped, fires>>
    ELSE /\ Insert(t)
         /\ IF EnqueueResets(t.left) THEN SetTime(t.left) ELSE UNCHANGED fires
         /\ UNCHANGED fault

-----------------------------------------------------------------------------
(* Callers *)

GiveId(id) ==
    /\ given' = given \cup {id}
    /\ twice' = IF id \in given THEN twice \cup {id} ELSE twice

\* addTimer on the loop's thread, where user code runs: in tasks and callbacks.
AddTimer ==
    /\ Running
    /\ pc \in {"loop", "run"} /\ adds < MaxAdds
    /\ GiveId(globalId)
    /\ \E delay \in Delays, interval \in Intervals :
          AddTimerInLoop(Timer(delay, interval, globalId))
    /\ globalId' = globalId + 1
    /\ adds' = adds + 1
    /\ UNCHANGED <<handlerVars, taskQ, foreign, sets, ended, cancelled>>

\* addTimer on another thread: globalId++ is a read and a write without a lock, so that
\* timers which the loop's thread adds in between share their ids with others; the rest
\* is queued.
ForeignReadId ==
    /\ Running
    /\ foreign = {} /\ adds < MaxAdds
    /\ foreign' = {globalId}
    /\ GiveId(globalId)
    /\ adds' = adds + 1
    /\ UNCHANGED <<timerSet, fires, handlerVars, taskQ, globalId, sets, ended, cancelled,
                   dropped, fault>>

ForeignAdd ==
    /\ Running
    /\ \E id \in foreign, delay \in Delays, interval \in Intervals :
          /\ taskQ' = Append(taskQ, [op |-> "add", timer |-> Timer(delay, interval, id)])
          /\ globalId' = id + 1
    /\ foreign' = {}
    /\ UNCHANGED <<timerSet, fires, handlerVars, given, twice, adds, sets, ended, cancelled,
                   dropped, fault>>

\* cancel erases the first timer with the id.
Erase(id) ==
    /\ LET same == {t \in timerSet : t.id = id}
       IN  timerSet' = IF same = {} THEN timerSet ELSE timerSet \ {Earliest(same)}
    /\ cancelled' = cancelled \cup {id}

\* mutant: cancelTimer erases at once on the loop's thread
CancelNow(id) == Erase(id) /\ UNCHANGED taskQ

Cancel(id) ==
    /\ taskQ' = Append(taskQ, [op |-> "cancel", id |-> id])
    /\ UNCHANGED <<timerSet, cancelled>>

\* cancelTimer, on any thread, for a timer that addTimer has returned.
CancelTimer ==
    /\ Running
    /\ \E id \in Ids(Live) :
          /\ \A i \in DOMAIN taskQ : taskQ[i].op = "cancel" => taskQ[i].id # id
          /\ Cancel(id)
    /\ UNCHANGED <<fires, handlerVars, idVars, sets, ended, dropped, fault>>

RunTask ==
    /\ Running
    /\ pc = "loop" /\ taskQ # <<>>
    /\ taskQ' = Tail(taskQ)
    /\ LET task == Head(taskQ)
       IN  IF task.op = "add" THEN AddTimerInLoop(task.timer) /\ UNCHANGED cancelled
           ELSE Erase(task.id) /\ UNCHANGED <<fires, dropped, fault>>
    /\ UNCHANGED <<handlerVars, idVars, sets, ended>>

-----------------------------------------------------------------------------
(* handleRead *)

\* mutant: findExpired stops short of a timer that expires at nowTimeStamp
ExpiredBefore == {t \in timerSet : t.left < 0}

\* findExpired: a Timer that expires at nowTimeStamp is below the dummy.
Expired == {t \in timerSet : t.left <= 0}

Remaining == timerSet \ Expired

\* The timerfd is readable.  (The dummy Timer of findExpired takes an id that no
\* other timer has; it is left out, so that there are as many ids as timers.)
HandleRead ==
    /\ Running
    /\ pc = "loop"
    /\ fires = 0
    /\ fires' = Off
    /\ stamp' = 0
    /\ toRun' = Expired
    /\ toReset' = Expired
    /\ timerSet' = Remaining
    /\ pc' = "run"
    /\ UNCHANGED <<taskQ, idVars, sets, ended, cancelled, dropped, fault>>

\* The callback of the next expired timer; what it adds and cancels are actions
\* of their own while pc is "run".
StartTimer ==
    /\ Running
    /\ pc = "run" /\ toRun # {}
    /\ LET t == Earliest(toRun)
       IN  /\ toRun' = toRun \ {t}
           /\ ended' = IF t.interval = 0 THEN ended \cup {t.id} ELSE ended
    /\ UNCHANGED <<timerSet, fires, pc, stamp, toReset, taskQ, idVars, sets, cancelled,
                   dropped, fault>>

CallbacksDone ==
    /\ Running
    /\ pc = "run" /\ toRun = {}
    /\ pc' = "reset"
    /\ UNCHANGED <<timerSet, fires, stamp, toRun, toReset, taskQ, idVars, sets, ended,
                   cancelled, dropped, fault>>

\* resetTime: a repeating timer expires again an interval after it was due, and
\* enqueue asserts that this is still to come.
ResetNext ==
    /\ Running
    /\ pc = "reset" /\ toReset # {}
    /\ LET t == Earliest(toReset)
           again == [t EXCEPT !.left = @ + t.interval]
       IN  /\ toReset' = toReset \ {t}
           /\ IF t.interval = 0 THEN UNCHANGED <<timerSet, dropped, fault>>
              ELSE IF again.left <= 0 THEN fault' = TRUE /\ UNCHANGED <<timerSet, dropped>>
              ELSE Insert(again) /\ UNCHANGED fault
    /\ UNCHANGED <<fires, pc, stamp, toRun, taskQ, idVars, sets, ended, cancelled>>

\* mutant: the timerfd is left disarmed
ArmNextNot == UNCHANGED fires

ArmNext == IF timerSet = {} THEN UNCHANGED fires ELSE SetTime(Earliest(timerSet).left)

ResetDone ==
    /\ Running
    /\ pc = "reset" /\ toReset = {}
    /\ ArmNext
    /\ pc' = "loop"
    /\ stamp' = 0
    /\ UNCHANGED <<timerSet, toRun, toReset, taskQ, idVars, sets, ended, cancelled,
                   dropped, fault>>

\* ~TimerQueue, once loop() has returned; the tasks that are queued never run.
Destroy ==
    /\ Running
    /\ pc = "loop"
    /\ pc' = "gone"
    /\ timerSet' = {}
    /\ fires' = Off
    /\ UNCHANGED <<stamp, toRun, toReset, taskQ, idVars, sets, ended, cancelled, dropped,
                   fault>>

-----------------------------------------------------------------------------
(* The clocks *)

Shift(t, ticks) == [t EXCEPT !.left = IF @ - ticks < -MaxLate THEN -MaxLate ELSE @ - ticks]

ShiftTask(task, ticks) ==
    IF task.op = "add" THEN [task EXCEPT !.timer = Shift(@, ticks)] ELSE task

\* The time of day is `ticks` later than it was.
TimeOfDay(ticks) ==
    /\ timerSet' = {Shift(t, ticks) : t \in timerSet}
    /\ toRun' = {Shift(t, ticks) : t \in toRun}
    /\ toReset' = {Shift(t, ticks) : t \in toReset}
    /\ taskQ' = [i \in DOMAIN taskQ |-> ShiftTask(taskQ[i], ticks)]
    /\ stamp' = IF pc \in {"run", "reset"} THEN stamp - ticks ELSE stamp
    /\ stamp' >= -MaxLate
    /\ UNCHANGED <<pc, idVars, ended, cancelled, dropped, fault>>

Tick ==
    /\ Running
    /\ TimeOfDay(1)
    /\ fires' = IF fires > 0 THEN fires - 1 ELSE fires
    /\ UNCHANGED sets

SetClock ==
    /\ Running
    /\ sets < MaxSets
    /\ sets' = sets + 1
    /\ \E ticks \in {-1, 1} : TimeOfDay(ticks)
    /\ UNCHANGED fires

-----------------------------------------------------------------------------

Init ==
    /\ timerSet = {} /\ fires = Off
    /\ pc = "loop" /\ stamp = 0 /\ toRun = {} /\ toReset = {}
    /\ taskQ = <<>>
    /\ globalId = 0 /\ foreign = {} /\ given = {} /\ twice = {}
    /\ adds = 0 /\ sets = 0
    /\ ended = {} /\ cancelled = {} /\ dropped = {}
    /\ fault = FALSE

LoopThread == RunTask \/ HandleRead \/ StartTimer \/ CallbacksDone \/ ResetNext \/ ResetDone

Next ==
    \/ AddTimer \/ CancelTimer \/ ForeignReadId \/ ForeignAdd
    \/ LoopThread \/ Destroy
    \/ Tick \/ SetClock

Spec == Init /\ [][Next]_vars

\* Time passes and the loop's thread is scheduled; handleRead is not kept from
\* running by tasks, since a round of the loop handles the channels before it
\* runs the tasks.  Nobody has to add or cancel anything.
Fairness == WF_vars(Tick) /\ WF_vars(LoopThread) /\ WF_vars(HandleRead)

FairSpec == Spec /\ Fairness

-----------------------------------------------------------------------------
(* Properties *)

Timers == [left : {n \in Int : n >= -MaxLate}, interval : Intervals, id : Nat]
TimerTasks == [op : {"add"}, timer : Timers] \cup [op : {"cancel"}, id : Nat]

\* The state has its type; outside handleRead nothing is left to run or to reset
\* (timer.h:88-89).
TypeOK ==
    /\ timerSet \subseteq Timers
    /\ fires \in Nat \cup {Off}
    /\ pc \in {"loop", "run", "reset", "gone"}
    /\ stamp \in Int
    /\ toRun \subseteq toReset /\ toReset \subseteq Timers
    /\ pc \in {"loop", "gone"} => toReset = {} /\ stamp = 0
    /\ pc = "reset" => toRun = {}
    /\ taskQ \in Seq(TimerTasks)
    /\ globalId \in Nat /\ foreign \subseteq Nat
    /\ given \subseteq Nat /\ twice \subseteq Nat
    /\ adds \in 0..MaxAdds /\ sets \in 0..MaxSets
    /\ ended \subseteq Nat /\ cancelled \subseteq Nat /\ dropped \subseteq Nat
    /\ fault \in BOOLEAN

\* By the time of day handleRead has read, no timer is started before it expires,
\* whatever the clocks and the callbacks do meanwhile; and none that has expired is
\* left for later, unless the clock was set back and it was added since
\* (timer.cpp:57-72, 119-127).
OnTime ==
    pc = "run" => /\ \A t \in toRun : t.left <= stamp
                  /\ sets = 0 => \A t \in timerSet : t.left > stamp

\* A cancelled timer is gone for good, also when it repeats and is cancelled by its
\* own callback: the cancellation is queued behind resetTime (timer.cpp:151-196).  Only
\* a timer that shares its id with another one may stay (timer.h:43-44).
CancelledGone == cancelled \cap Ids(timerSet \cup toRun \cup toReset) \subseteq twice

\* A timer that was added is waiting, being run or put back, unless it has run for the
\* last time, was cancelled, or met another one of the same expiration, which is all
\* that the set compares (timer.cpp:85-110, 119-127, 151-160, timer.h:38-41).
Accounted ==
    Running => given \ foreign \subseteq Ids(Live) \cup ended \cup cancelled \cup dropped

\* With two timers or more in the set each of them runs in the end or is cancelled,
\* also when the clock is set (timer.cpp:85-93, 102-105, 151-172).  A single timer may
\* wait for ever: see Armed.  (Of timers that share an id the history cannot tell.)
Fires ==
    \A id \in 0..MaxAdds - 1 :
        (id \in Ids(timerSet) /\ Cardinality(timerSet) > 1)
            ~> (id \notin Ids(timerSet) \/ id \in twice \/ fault \/ pc = "gone")

\* With any timer in the set, the timerfd is armed: what the tests that add timers
\* and then enter the loop count on (test/testAcceptor.cpp:50-55).
Armed == pc = "loop" /\ timerSet # {} => fires # Off

\* The timerfd is armed for the first timer of the set, as the comment on resetTime
\* has it (timer.cpp:73) and test/testTImer.cpp needs: the second timer added to a
\* queue arms it for itself, however late it is (timer.cpp:102).
ArmedForFirst ==
    pc = "loop" /\ fires > 0 /\ sets = 0 /\ timerSet # {} =>
        fires <= 1 \/ fires <= Earliest(timerSet).left

\* A timer enters the set before it expires, as enqueue asserts (timer.cpp:98).
EnqueuedInTime == ~fault

\* An id, with which cancelTimer finds a timer, belongs to one timer (timer.h:43-44).
UniqueIds == \A t, u \in Live : t.id = u.id => t = u
=============================================================================
