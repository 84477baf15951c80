# budd: TLA+ specifications

budd is a reactor network library in C++ (one event loop per thread, epoll, an
eventfd to wake a loop, a timerfd for its timers) with a TCP server on top of it
and a small HTTP server on top of that. This directory specifies its concurrent
core, the life of its connections, its buffer and its HTTP exchange in TLA+, checks
the specifications with TLC and proves their safety properties, for all values of the
constants, with TLAPS. Line numbers in comments refer to the repository's sources.

## 1. The system

| component | state | operations | talks to |
|---|---|---|---|
| `EventLoop` (`tcp/eventLoop.*`) | `m_quit`, `m_callingTask`, the task queue `m_taskQ` under a mutex, `m_activeChannelList` | `loop`, `quit`, `runInLoop`, `queueInLoop`, `execTasks`, `updateChannel`, `removeChannel`, `runAt/After/Every` | its `Selector`, `TimerQueue`; every other thread, through `queueInLoop` and the eventfd |
| `Selector`, `Channel` (`tcp/selector.*`, `tcp/channel.*`) | map from descriptor to raw `Channel*`; one event mask per channel | `updateChannel`, `removeChannel`, `select`; `handleEvents`, `enableRead/Write`, `disableEvents` | epoll, the handlers of acceptor, connection, eventfd and timerfd |
| `EventLoopThread`, `EventLoopThreadPool` | `m_eventLoop` and a condition variable per thread; `m_loops`, `m_next` | `start`, `threadFunc`, `getNextLoop` | `TcpServer` |
| `TcpServer`, `Acceptor` | the map of connections by name, the listening socket | `start`, `newConnection`, `removeConection`, `removeConnectionInLoop`, `accept` | tasks to the io loops and back |
| `TcpConnection` | `m_state`, channel, socket, input and output `Buffer` | `connectEstablished`, `handleRead/Write/Close/Error`, `sendData`, `shutdown`, `connectDestroyed` | its io loop, the server's loop, user callbacks |
| `TimerQueue` (`tcp/timer.*`) | an ordered set of timers, the timerfd, `globalId` | `addTimer`, `cancelTimer`, `handleRead`, `findExpired`, `resetTime`, `setTime` | its loop's task queue |
| `ThreadPool` (`base/threadPool.*`) | queue of tasks, `m_stop`, mutex and condition | `enqueue`, the workers, the destructor | its clients |
| `Buffer` (`base/buffer.*`) | a vector, a reader and a writer index | `append`, `readFd`, `retrieve...`, `findCrlf` | connections, parser, responses |
| `HttpServer`, `HttpContext`, `HttpParser`, `HttpRequest`, `HttpResponse` | per connection: parser state, request, `m_parseFinished`; per server: five maps of handlers | `onMessage`, `parse`, `onRequest`, `clear` | `TcpConnection::sendData`, `shutdown`, user handlers |

How they interact. A server's thread accepts connections and deals them out to the
io loops in turn. Everything about a connection happens on its io loop, except its
entry in the server's map, which belongs to the server's loop; establishing,
removing and destroying a connection therefore are tasks that travel between loops.
A task queue is filled under a mutex by any thread and emptied by the loop's thread
after each round of events; a byte in the eventfd gets the loop out of `epoll_wait`.

What is hard about it, and makes each component correct:

- **interleavings**: the queue, the flag `m_callingTask` and the eventfd decide
  together whether a wakeup is needed. Correct: a loop never sleeps beside a
  function that was queued, and runs functions in order, each once.
- **stale pointers**: epoll results, the selector's map and bound callbacks hold raw
  pointers. Correct: no handler of a removed channel runs, no connection is freed
  while its channel can be reached, no descriptor is mistaken for its reuse.
- **one event mask**, which every call overwrites, for reading and writing. Correct:
  output that waits is watched for until it has gone or the peer has.
- **partial failure**: resets, short writes, errors of `readv` and `write`. Correct: the
  connection is destroyed in the end, the stream stays in order.
- **time**: the clock goes on between a computation and its use, and may be set, while
  the timerfd counts on another one. Correct: no timer early, none overlooked, none
  lost, none after it was cancelled.
- **a peer that does not read**: the accepted socket blocks. Correct, at least for a
  peer that reads on: all output gets out, in order, before the end of the stream.
- **notifications** outside the mutex. Correct: no worker left waiting beside work,
  the destructor returns, and only after all the work.
- **segments**: a request may come in pieces or with others. Correct: one answer per
  request, in order, nothing of one request in the next, and the client can tell where
  an answer ends.
- **shared maps**: the io threads look handlers up in maps without a lock, by an
  operation that inserts. Correct: a request finds its own handler.

## 2. The modules

| module | models | steps |
|---|---|---|
| `Mailbox` | what `queueInLoop` promises: functions run once each, in the order of the calls | submit, run |
| `EventLoop` | one loop, its poller and its callers | append under the mutex; write the eventfd; `TestQuit`, `Select`, one handler, the swap, one function |
| `ByteStream` | what `sendData` and `shutdown` promise: the bytes once, in order, and then the end | send, deliver, close, break |
| `TcpConnection` | one connection from `connectEstablished` to `connectDestroyed`, its blocking socket and its peer | one per handler or call, split at each `write`; user code may send and shut down in between |
| `EventLoopThreadPool` | `start` and `threadFunc` around the condition variable, `getNextLoop` | each lock, wait, publish, notify, unlock |
| `TcpServer` | extends the pool: many connections over its loops with reuse of descriptors | one per task or event; leaving the selector and closing the descriptor apart |
| `ConnectionLife` | what the server promises each connection: its course, its memory, its descriptor | accept, establish, end, leave; the peer closes |
| `TimerQueue` | one queue, its timerfd, its destructor and the two clocks | one per task, expiry and callback; ticks and settings of the clock at any time |
| `ThreadPool` | workers, clients, destructor | a block under the mutex; each notification |
| `Buffer` | the vector and its indices, with the bytes numbered | one per call |
| `HttpExchange` | what the HTTP server promises a client that asks one thing at a time | ask, answer |
| `HttpServer` | one connection's parser, context and answers | one per turn of the loop in `parse`, then the answer |
| `HttpParameters` | what one turn of the loop of `parseQueryParam` and `parseFormBody` computes, and what a text says | |
| `HttpRouting` | the io threads, parsing their texts and in the maps of handlers | register a handler, start; one turn of the parser's loop, and its last element; enter the map (search), leave it (insert, read) |
| `EventLoopProofs`, `TcpConnectionProofs`, `TcpServerProofs`, `TimerQueueProofs`, `ThreadPoolProofs`, `BufferProofs`, `HttpServerProofs`, `HttpRoutingProofs` | the theorems on the module each is named for; those on `EventLoopThreadPool` are in `TcpServerProofs`, those on `HttpParameters` in `HttpRoutingProofs` | |

Names follow the source: the variable `callingTask` is `m_callingTask`, the action
`ExecTasks` the head of `execTasks`, `state` of a connection `m_state`, and so on; the
comment at each variable says which member it is. Variables marked *history* exist
for the properties only. A definition whose comment says *mutant* is a plausible
wrong version of the one that follows it; no specification uses it, and each
property that a run checks has one that it rejects.

How the modules fit together. `EventLoop` implements `Mailbox` (checked as a property and
proved), and `TcpServer` uses loops as mailboxes: that is why it need not
model wakeups again. `TcpServer` extends `EventLoopThreadPool`: it listens once the pool has
started, `newConnection` takes what `getNextLoop` gives out, and an io loop runs once its
thread does. For each of its connections it implements `ConnectionLife` (checked and proved), whatever
tasks of which loops the steps are. It takes what happens on an established connection from
`TcpConnection`, which in turn sees of the server only the removal. `TcpConnection`
implements `ByteStream` for a disciplined user; it has only the input and output of its
buffers that it needs, and `Buffer` has the vector itself. `HttpServer` implements
`HttpExchange` for an orderly client and sees of the connection whether it still sends.
`HttpRouting` begins where a request has arrived, on each io thread; `HttpParameters`, which
it extends, says what each step of parsing its query or form does. A text is never changed while it is
parsed, so that the threads meet in the maps only.

Assertions are active in the default build (Debug), so one that fails ends the
program. The modules model that as a `fault`, after which nothing happens; the
properties then say which of them cannot be reached.

Undefined behaviour is a choice. A plain `bool` that other threads write (`m_quit`) is
seen in some later round; the end of an empty `std::set` reads as its number of nodes,
as the library has it; another thread in `globalId++` reads first and writes later, while the loop's thread goes through
it in one step, so that timers may share an id; the copy
of nearly 2^64 bytes after a failed `readv` ends the program or copies nothing; the
members that `HttpRequest` and `HttpContext` do not initialise hold anything; a map that one thread
enters to insert while another is in it answers anything, or ends the program, from then on. (`HttpRouting` has
no liveness, and a behaviour of it may stop anywhere: that is the program that has ended.) So does one
that `handleFunc` changes under a thread: in that module handlers may come late, as nothing in the code forbids it.

Two parameters of a run are variables that `Init` chooses and nothing changes, so that one
run covers both values: `disciplined` and `patient` of `TcpConnection`, `orderly` of
`HttpServer`.

## 3. The runs

`tlc -config X.cfg M`; the configurations use the modules directly, with model values
for threads, tasks and channels.

| configuration | bounds | shows |
|---|---|---|
| `EventLoop` | 2 threads, 3 functions, 2 channels | `NoLostWakeup`, `MailboxSpec` (queue order, once each), `TaskRuns`, `QuitStops` |
| `TcpConnection` | 2 chunks a send, 3 sends, 3 arrivals, 2 tasks, a kernel buffer of 1 chunk | `StreamSpec` (it is a `ByteStream`), watching, removal, the asserts on the state, no return to the selector, no stale write event, destruction and draining in the end |
| `TcpServer` | 3 io loops, 4 connections, 2 descriptors | the pool: published loops, round robin; pointers, descriptors, asserts, `LifeSpec` (each connection's course is that of `ConnectionLife`), forgetting |
| `TimerQueue` | 2 timers, delays 1 and 3, intervals 0 and 2, the clock set twice, handlers and lateness up to 3 ticks; time without bound | cancellation, punctuality, no timer lost, of two timers each runs |
| `ThreadPool` | 3 workers, 2 clients, 3 tasks | one place, no lost notification, drain, join |
| `Buffer` | 2 prepended, 4 cells, extra 3, 9 bytes | order, room, growth |
| `HttpServer` | 2 requests, body of 2 units | handlers, framing, one answer for a message, `ExchangeSpec` (it is an `HttpExchange`), every request answered |
| `HttpRouting` | 2 threads, 2 methods, 2 paths; texts of up to 3 characters | the function last registered and no other; races only after an unknown path or a late registration; parameters as written |
| `TcpConnection_remain_assert`, `EventLoopThreadPool_returns`, `TimerQueue_late`, `HttpServer_header` | small | the disagreements of section 5 |

Each module with a state machine of its own states `TypeOK` (`PoolTypeOK` in
`EventLoopThreadPool`). No configuration lists it: it is proved for every value of the constants
(section 4), holds in the runs too, and is to be added to a configuration after a change of its module,
before the proofs are. `InOrder` and `DispatchRegistered` of `EventLoop` are proved and in no
configuration either: `MailboxSpec` implies the first.

Why these bounds are enough to meet the interesting cases:

- Two threads and three functions are the least with two calls under way while a third
  function is run by `execTasks`; two channels can be active together and one of them removed.
- Chunks of size 2 and room for one give short writes, three sends a queue behind one; with
  two tasks a use of the connection can come before and after its end.
- Four connections over three loops go round the pool once and begin again, and two
  descriptors force reuse while another connection is open.
- Two timers can be expired together, or one in the set while the other is in the task
  queue or put back, and share an id; two settings of the clock take it forward and back. Three timers,
  with delays 1 and 2, were checked once for safety (10.6 million states) with the same result.
- Three workers with two clients: a notification can be consumed by the wrong worker.
- Nine bytes through room for two: `reserve` both moves and grows, a read fills vector
  and extra buffer, and moving overlaps what it moves.
- Two requests of every kind, in all cuts, show what the first leaves to the second.
- Two threads in the maps are what a race takes; two paths let one thread read a handler that
  is there while the other inserts. A text of three characters has room for two elements with one
  key, for one with a key and a value, and for a broken element before or behind a good one. Two
  elements with keys or values of their own take more: four characters over two letters were checked once for one
  thread (1.3 million states), with the same result, and `ParametersRight` has any text. One handler
  beside the empty function is enough to be registered, taken back and registered again; two, so that
  one replaces the other, were checked once with texts of one character (0.5 million states).
  The threads are interchangeable, and so are the paths (`RoutingSymmetry`).

Fairness, and why the code justifies it. A thread that is not blocked is scheduled:
weak fairness of the loop's thread, of a worker, of a caller between its append and
its write to the eventfd, of a notification that is due. No fairness for clients,
user calls or the setting of a clock. In `EventLoop` a loop blocked in `epoll_wait` is not
enabled, so fairness alone never wakes it. In `TcpServer` an io loop alternates between
events and tasks: the loop runs its tasks after every round, hence strong fairness of
`IoTask` and weak fairness of `IoEvent`; nothing is assumed of the start of the pool. In
`TcpConnection` the loop's actions are taken together, because one thread does them all;
user code returns; the kernel takes what it has room for; a *patient* peer, and only it,
reads on until it resets the connection. A `write` to another peer may last for ever. In
`TimerQueue` time passes, the loop's thread is scheduled, and `handleRead` is not kept from
running by tasks, since a round handles the channels first. In
`HttpServer` what was sent arrives and `onMessage` runs to its end.

Some runs stop: a loop that quit, a pool that was joined, clients that have sent
all they may. Deadlock is therefore not an error in them (`CHECK_DEADLOCK FALSE`), and
being stuck is excluded by the liveness properties instead.

What conditions the properties carry, because the code does not promise more:

- `NoLostWakeup`, `TaskRuns`: not for functions the owner queues before `loop()`. That call
  sees its own thread with `m_callingTask` down and writes no wakeup.
- `QuitStops`: `quit()` writes no wakeup either.
- `StreamSpec`, `PendingWatched`, `RemovedOnce`, `OutputDrains`, `PeerGoneDestroyed`: a disciplined user,
  who calls `sendData` once in a message callback and nowhere else. `sendDataInLoop` writes to
  the socket past output that waits; `connectEstablished` enables reading after a greeting that
  was sent in part; a send between `handleClose` and `connectDestroyed` has the channel watched again.
- `OutputDrains`, `PeerGoneDestroyed`: a patient peer, or one that resets the connection.
- `LoopsReal`, `AssertsHold`: a wait that returns unnotified may leave null in the pool, and a
  connection that is dealt to it ends the program.
- `OnTime`: the part on timers left for later, while the clock is not set.
- `Accounted`: but for a timer that met another one of the same microsecond.
- `CancelledGone`, `Fires`: a timer that has its id to itself. `cancel` erases the first timer with the id,
  and a history of ids cannot tell two of them apart.
- `Fires`: two timers or more (see `Armed` and `ArmedForFirst` below).
- `ExchangeSpec`, `AllAnswered`: an orderly client, that is one
  request at a time, GET or a POST with a form, head and body unbroken, and memory that is
  zero. `HandledOnce`, `MethodWritten`, `OneAnswer`, `Framed` hold of any client and any memory.
- `RoutedAsRegistered`: a map that no race has damaged; `RaceNeedsStranger` says when that can be. The map's entry for a
  key (absent, an empty function, a handler) and the history of registrations are two variables:
  look-ups write to the first only.

## 4. The proofs

`EventLoopProofs`, for any sets of threads, functions and channels:

- `TypeCorrect`, `WakeupNotLost`: `NoLostWakeup` speaks of a loop in `epoll_wait` only and
  is not inductive. The invariant is `Inv`: `TypeOK`, and wherever the loop
  is *not* about to look at the queue (`init`, `test`, `select`, `exec`) everything in
  `m_taskQ` is covered by a wakeup in the eventfd, a caller about to write one, or was
  queued before `loop()`. In `handle` it need not be: `execTasks` follows. In
  `exec` it holds because `m_callingTask` is up, so that a queueing function writes
  a wakeup, and because the swap has emptied the queue.
- `QueueOrder`: `queued = ran \o tempTaskQ \o taskQ`, step by step with lemmas on concatenation.
- `DispatchSafe`: a handler is called only for a channel in the selector's map, or the eventfd's. It rests on
  the fact that no handler removes a channel but its own.
- `Refinement`: each step of the loop is `Submit`, `Run` or a stutter of `Mailbox`.

`BufferProofs`, for any sizes with `Prepend <= Initial` (in the code 8 and 128 K):

- Lemmas say what `Write`, `EnsureWriteable`, `AppendTo`, `ReadInto` and `Retrieve` do to any
  buffer whose indices are in order: `Holds(b, first)`, the readable bytes are `first`,
  `first + 1`, ..., is kept, and the size grows only if the result is below
  `2 * readable + Prepend`.
- `TypeCorrect`, `ByteOrder`, `GrowthBounded`: the invariant is `Inv`: `TypeOK`, `Fifo`,
  `Bounded`, and that `peak` is no less than what is readable now, without which
  `Bounded` is not inductive.
- `RoomAlwaysMade`: the assert behind `reserve` holds for every request in every state
  that can be reached, since it holds for every buffer with indices in order.

`TcpServerProofs`, for any number of loops and connections and any set of descriptors:

- `PoolRefined`: whatever the server does, the pool sees steps of `EventLoopThreadPool`.
- `LoopsPublished`: the invariant adds to `LoopsReal` that `m_eventLoop` is set exactly from
  `Publish` on, and that a wait that has returned was notified, and so finds it set, or is
  in `unasked`.
- `DealtInTurn`: `RoundRobin` speaks of pairs of connections and is not inductive; `Dealt` says
  which place each of the last N connections got, counted back from `m_next`.
- `ReachableHeld`, `DescriptorsOwn`, `LifeAssertsHold`, `TypeCorrect`: one invariant, `Life`, follows
  a connection through its tasks. `Stages` says in which state a task that is queued
  will find its connection, and `Queues` that no task is queued twice, so that running one cannot
  spoil it for another; `Kept`, that from the accept to `connectDestroyed` either the map or the task
  that destroys holds the connection; `Selected`, that the selector of a loop has exactly the channels
  of its open connections, each under its own descriptor; `Owned`, that a connection has its
  descriptor until it closes it, which is after its channel has left the selector. It takes `PoolInv`,
  for a connection is dealt to a loop there is.
- `CourseRefined`: every step is a step of `ConnectionLife` for one connection (`AcceptStep`,
  `EstablishStep`, `EndStep`, `LeaveStep`, `PeerCloses`) or a stutter (`RestIsQuiet`). What makes that
  provable: the server's map has forgotten a connection before it is destroyed (`Erased`), and a channel is
  active only for a peer that has closed (`Reported`). From these and `Life` follows `HeldInCourse`, an
  equivalence: a connection is held by a map, a task or a handler exactly while it is accepted, established
  or ended. One direction is that no pointer dangles, the other that nothing is leaked. Since a step
  changes the stage of one connection only, memory and descriptor change in the step that its course says.

`TcpConnectionProofs`, for any size and number of sends, arrivals and tasks and any kernel buffer:

- `LifecycleHolds`, `StaysOut`, `WriteEventWanted`, whatever the user does: `Control`, which says what each
  stage excludes. The loop's thread is inside `write` only for a connection in state CONNECTED, so
  nobody closes it meanwhile; `EPOLLOUT` is asked for only while there is output; a connection is in the
  map, in one task that destroys it, or in neither, and then is closing or closed.
- `PendingIsWatched`, `RemovedOnlyOnce`, for a disciplined user: `Discipline`. Where such a user may send
  nothing waits, and once `handleClose` has run no event is asked for again.
- `StreamRefined`: `InOrder` says that what the kernel took, what waits in `m_outputBuffer` and what `write`
  was given are the chunks sent, in order; in `handleWrite` the last two overlap, because the buffer keeps
  what is being written. With it each step is a send, a delivery, the close or the break of a
  `ByteStream`, or a stutter.

`TimerQueueProofs`, for any numbers of timers and settings of the clock, any delays and any lateness
`MaxLate`, which no interval exceeds:

- `StartedOnTime`: `OnTime` speaks of the time while callbacks run; `StampPast` adds that the time
  `handleRead` has read is not ahead of the clock unless the clock was set since.
- `NoTimerLost`: `Noted` says that a timer that has run and does not repeat is noted as ended before
  `resetTime` drops it, and that one other thread at a time adds timers. That a set that is not
  empty has a first timer (`EarliestIsThere`) needs the bound on lateness, since expirations are counted
  from the present.
- `CancelledStaysGone`, also while another thread is in `globalId++`: what anybody knows is an id that was given, and an id
  which another thread has read and nobody else is unknown to all (`Taken`). So an id that was given
  once belongs to one timer, in one place of the set, `m_activeTimers` and the task queue (`Alone`,
  `AddedFirst`), and its cancellation, which is queued behind the task that adds it, finds it there. `Alone`
  is needed because `cancel` erases one timer only.

`ThreadPoolProofs`, for any finite set of workers and any clients and tasks:

- `TaskInOnePlace` counts tasks, and takes `Counted`: a running worker holds exactly one.
- `NoWorkerForgotten` is inductive with the types: a worker waits only after it saw the queue empty
  and the pool not stopped, under the mutex.
- `JoinDrains`: `Left` says that a worker that has returned leaves behind an empty queue of a stopped pool,
  which stays empty because `enqueue` refuses.

`HttpServerProofs`, for any number of requests and any length of bodies:

- `HandlersRunOnce`, `MethodIsWritten`, `AnswersFramed`, `OneAnswerEach`, `TypeCorrect`, of any client,
  however it is cut: `HandledOnce` counts, so the invariant has `OneToCome`: a request past its start line
  has been counted as started and not yet as handled. `Method` says the same of its method.
- `ExchangeRefined`: `Served` says where in its course an orderly client's request is. It is on its way
  (`Coming`), has so many lines left in the buffer and those that were read in the record
  (`Reading`), waits for its body (`Awaiting`), or is parsed to the end (`Complete`); and between two
  requests nothing of the earlier one is left (`AtRest`). The record in `Complete` is what the client asked
  for, and `HttpRequest::clear` turns it into that of `AtRest`; `m_hasBody`, which `clear` leaves, is down by
  then. So the answer is `Answer` of `HttpExchange` and everything between is a stutter. That the
  answers counted before are not changed by a new one (`CodesOfMore`) is proved from the least answer for
  which it would fail.

`HttpRoutingProofs`, for any threads, methods and paths, and texts of any length:

- `RoutedRight`, `RaceByStranger`: what a thread reads is the map's entry, and what it should read is in the
  history of registrations. `MapsKept` relates the two: the entry is what was registered last, or is
  absent where nothing, or an empty function, was. A look-up keeps that because it stores an
  empty function only under a key that is still absent when it stores; the search was a step
  earlier, so `Inside` says that nobody else is in a map that one thread inserts into, and nothing was registered in
  it since, unless it is damaged. `Inside` also says that a thread which inserts has been counted in
  `stirred`, which gives `RaceByStranger`.
- `ParametersRight`: that the loop's result is what the text says would take induction over the text. Here
  each turn of the loop is a step, and the induction is that over steps: `Parsed` says that the parameters so far
  are those of the elements before `start`, each of which had its "=" (`TurnKeeps`), and `LastKeeps`
  what the code makes of the rest. The lemmas under it are about texts: `Find` gives the first place,
  `NextElement` that between two `&` lies one element, `SaysOneMore` that a later element of the same
  key replaces an earlier one.

Assumed are the named `ASSUME`s of the modules only; TLC evaluates them in the runs.
None of the proofs bounds what a run bounds: the bounds are constants like the others.

What is only model-checked, and why:

- the liveness properties (`TaskRuns`, `QuitStops`, `PeerGoneDestroyed`, `OutputDrains`, `ClosedForgotten`,
  `Fires`, `TaskRun`, `Joins`, `AllAnswered`): the prover has neither fairness nor ENABLED;
- the disagreements of section 5, which are counterexamples.

## 5. Where the code disagrees with itself

Four runs end in a counterexample:

- `TcpConnection_remain_assert`: `write` to a connection that was reset returns -1 into a
  `size_t`; `sentN < 0` is never true and `assert(remain <= data.size())` fails
  (`tcpconnection.cpp:149-158`).
- `EventLoopThreadPool_returns`: the new thread may notify before `start` waits; the wait has
  no predicate, so `server.start()` never returns (`eventLoopThread.cpp:23`).
- `TimerQueue_late`: `assert(nowTimeStamp < timer.getExpiration())` (`timer.cpp:98`) fails
  when callbacks or the task queue take longer than an interval or a delay.
- `HttpServer_header`: "if occur some error or occur empty line, will return false" says the comment
  on `parseHeaderLine` (`httpParser.cpp:128`). A header that ends at its colon, or a `Content-Length`
  that is no number, throws instead (`httpParser.cpp:138`, `httpRequest.h:30`), and nothing catches it.

The modules state more properties that a line of the code claims and the code does
not keep. They are in no run; with the constants given, TLC finds them violated:

| property | in | claim | counterexample |
|---|---|---|---|
| `WriteWhileConnected` | `TcpConnection` | `assert(m_state == State::CONNECTED)`, `tcpconnection.cpp:74` | shutdown while output waits, then the write event |
| `RemovedOnce` without `disciplined` | `TcpConnection` | `assert(m_connectionMaps.count(...) > 0)`, `tcpserver.cpp:68` | a function sends between `handleClose` and `connectDestroyed`; the channel is watched again |
| `Armed` | `TimerQueue` | the tests add timers and enter the loop, `test/testAcceptor.cpp:50-55` | the first timer of an empty set: `begin()` is `end()` |
| `ArmedForFirst` | `TimerQueue` | `timer.cpp:73`, in Chinese: the timer for the next one of the queue is started | the second timer added arms the timerfd for itself, though the first is due before it |
| `UniqueIds` | `TimerQueue` | `//no need atomic`, `timer.h:43` | two threads in `globalId++` |

Also met while modelling, and not stated as properties: a POST with another body than a form is
answered by `100 Continue` for good, since nothing reads the body; a request that is cut
elsewhere than before its body is answered by 400 or 404; pipelined requests are merged; after
a 400 the rest of the request may still reach its handler, whose answer is dropped;
`setRequestInfo` writes the client's address to a copy; two timers of one microsecond are one.

## 6. What is not modelled

Of `HttpResponse::fillBuffer` only the status and the presence of a length are modelled, not the text
of the headers; `setFile` reads a file into a string within one call and `httpParameter` is a table, so
neither has behaviour that a model would add to. URLs, paths and header names are values, not texts;
only queries and forms are read character by character. `EventLoopThread`s, loops and servers are
never torn down in the code. The socket options and the address handling of `Acceptor`, logging and
the demonstration programs under `test/` are left out. In `TcpServer` the events of an established
connection other than its end are left to `TcpConnection`. In `TcpConnection` a `write` that blocks for
ever stops the loop, which the model shows; what that does to the other connections of the loop it
does not.

## 7. Plan

Done: the core (`Mailbox`, `EventLoop`), the connection over its byte stream, the server on
its pool of loops with the course of each connection, the thread pool, the timers under two clocks, the
buffer, the HTTP server as an exchange, its parameters and its maps; and the proofs of their safety
properties and refinements, all that the runs check and that the prover can reach.

Left:

1. The teardown of a server and its loops, once the code has one.
2. `globalId++` of one queue's loop thread and of several other threads at once, each of them in two steps;
   `CancelledGone` should hold as it is, for its proof does not count the threads.
3. Pipelined requests, once the code keeps them apart: `HttpExchange` for a client that does not wait.
