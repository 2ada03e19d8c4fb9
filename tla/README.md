# A verification of hulatang-io in TLA+

hulatang-io is a C++20 network library: event loops on threads of their own, timers, a task queue
per loop, TCP servers and clients over epoll (Linux) or completion ports (Windows), and the
beginnings of an HTTP client. This directory holds TLA+ modules that model its core, TLC
configurations that check them on small instances, and theorems that TLAPS proves for instances of
every size. Every definition is translated from the code; `PROJECT.json` names the lines each one
stands for.

1. [The system](#1-the-system)
2. [The modules](#2-the-modules)
3. [The runs](#3-the-runs)
4. [Fairness](#4-fairness)
5. [The proofs](#5-the-proofs)
6. [Findings and known failures](#6-findings-and-known-failures)
7. [What is not modelled](#7-what-is-not-modelled)
8. [The plan](#8-the-plan)

Parse a module with `tlasany M.tla`, check a run with `tlc -config X.cfg MCx`, check the proofs of a
module with `tlapm M.tla`, where `M` is one of the modules whose name ends in `Proofs`.

## 1. The system

All paths are under `src/hulatang/`.

| component | state it keeps | operations | what makes it correct |
|---|---|---|---|
| task queue of a loop, `io/CycleEventManager` | a lock-free queue, an atomic counter `size` | `createEvent` (any thread), `process`, `isIdle` (the loop) | each task is run once, in its thread's order; the counter never drifts from the queue; `process` never spins for a task that is not there |
| event loop, `io/EventLoop` | the status word, the managers of timers, tasks and descriptors | `run`, `stop`, `queueInLoop`, `runOnce` | no wakeup is lost between the look at the queue and the wait; a stop is obeyed; every task is started |
| loop thread, `io/EventLoopThread` | `loop_`, `status`, a mutex and a condition | `startLoop`, `stop`, the destructor, `threadFunc` | the published pointer names a living loop; stop and destructor return |
| pool, `io/EventLoopThreadPool` | `loops_`, `threads_`, `next_`, `status` | `start`, `stop`, `getNextLoop`, the destructor | what it hands out exists; its use of the threads is legal; the round robin is fair |
| timers, `io/TimerEventManager`, `TimerEventWatcher`, `InvokeTimer` | a `std::set` keyed by the timeout | `runAfter`, `runEvery`, `cancel`, `process` | the pass keeps a valid iterator while handlers change the set; what is due fires; repeats are counted |
| server and connections, `io/TCPServer`, `TCPConnection`, `Reactor` | the map of connections; per connection its state, channel, tie, buffers | accept, `newConnection`, `connectEstablished`, `handleEvent`, `removeConnection`, `connectDestroyed`, `shutdown`, `send` | epoll never holds a dead channel; callbacks come in order; what has ended is destroyed; bytes arrive once and in order |
| acceptor, `io/accept/PosixAcceptor`, `base/Socket` | the listening descriptor, the spare one, its channel | `bind`, `listen`, `handleRead`, `handleError`, the destructor | every connection that waits is accepted or dropped, at the limit of open files too |
| file descriptors, `base/File` | one number of the process's table of open files | open, swap, move, close | every number has one owner, and refers to that owner's file |
| client, `io/TCPClient`, `Connector` | the attempt's state, its channel, the retry delay; the connection | `connect`, the attempt and its outcomes, retry, `newConnection`, `disconnect` | one attempt at a time; it tries on; the channel changes hands without a gap |
| buffer, `base/Buffer.hpp` | a vector and two indices | append, prepend, retrieve, unwrite, shrink, ensureWritableBytes | it is a queue of bytes; it reads no byte nobody wrote; it does not grow without bound |
| poller, `io/async/*`, `io/Channel` | the table of channels by descriptor number, epoll or the completion port; a channel's flags and tie | add, update, cancel, process, wakeup | nothing is polled after its end, nothing enabled before it is added; table, epoll and the batch in hand agree although numbers are used again |
| overlapped operations, `io/Proactor`, `io/proactor/*` | the list of a channel's pending operations, the buffers they read and write | postRecv, postSend, postAccept, handleRead, handleWrite, process, addFree | a packet finds its operation, once; an operation is not freed while it is pending; bytes stay in order |
| HTTP client, `http/*` | the URL, the request; the bytes of the response so far | `URL::split`, `get`, `onMessage` and the parser of responses | the right host is asked for the right thing; however the bytes arrive the body is delivered once and whole |

**How they interact.** A loop belongs to one thread; everything else reaches it through its task
queue (`queueInLoop`), which is also how two loops talk: a server accepts on its base loop and posts
the rest of a connection's life to a loop of the pool, which posts the removal back, which posts
`connectDestroyed` forward. Inside a loop, control is a chain of callbacks: poller, channel, model
(`UnixReactor`, `WSProactor`), connection, user. Lifetimes hang on shared pointers captured by those
tasks, on the server's map and on the *tie*, by which a channel holds its own connection.

**What is hard.** (a) State without locks that two threads write in turn: `size` and the queue, the
status words of loop, thread and pool, `loop_`. (b) The look at the queue before a wait. (c) Hops
between loops, with level-triggered epoll reporting again what has not been dealt with yet.
(d) Handlers that change what is being iterated: timers during a pass, a connection destroyed by its
own event. (e) Timers that cannot be cancelled. (f) Kernel operations that hold on to memory, and
whose packets arrive after the end of what posted them. (g) Numbers of files and sockets that are used
again while something still goes by them, and the limit of how many there are. (h) Parsing again from the
start with every piece that arrives. `PROJECT.json`, `hazards`, has each with its line and the
properties that would catch it.

## 2. The modules

| module | models | builds on |
|---|---|---|
| `TaskExecutor` | abstract: what handing a task to a loop promises | |
| `CycleQueue` | `CycleEventManager`, down to the two steps of a post (enqueue, then `++size`) | implements `TaskExecutor` |
| `EventLoop` | `run`, `stop`, `queueInLoop`, `runOnce` with each read of `calculationBlocktime`, the wait and wakeup of both builds | conjoins its control with the steps of `CycleQueue` |
| `EventLoopProofs` | the theorems of `EventLoop`, of `CycleQueue`, its queue, and of `TimerSet`, its timers | `EventLoop`, `TimerSet` |
| `EventLoopThread` | owner and thread, one step per access to what they share | |
| `EventLoopThreadPool` | the pool over the base loop and `N` threads, and threads without a pool beside it | conjoins its calls with the steps of `EventLoopThread` |
| `EventLoopThreadPoolProofs` | the theorems of `EventLoopThreadPool` | `EventLoopThreadPool` |
| `TimerSet` | the timers, and the set as the tree has it: its order is that of insertion, not of the keys | |
| `FileDescriptor` | `base::FileDescriptor`: the numbers its objects have, and what the kernel's table says | parts of actions |
| `Acceptor` | bind, listen, accept, the spare descriptor one system call at a time, and the poller's table, registrations and batch of two loops | extends `FileDescriptor` |
| `AcceptorProofs` | the theorems of `Acceptor` and `FileDescriptor` | `Acceptor` |
| `ServerConnection` | accept to destruction over the loops of a pool, on Linux; who holds a reference | tasks as in `CycleQueue`: a FIFO per sender |
| `ServerConnectionProofs` | the theorems of `ServerConnection` | `ServerConnection` |
| `ClientConnection` | Connector and TCPClient on one loop, in both builds | turns of a loop as in `EventLoop` |
| `ClientConnectionProofs` | the theorems of `ClientConnection` | `ClientConnection` |
| `Sending` | `TCPConnection::send` to the peer's bytes, on both builds | |
| `SendingProofs` | the theorems of `Sending` | `Sending` |
| `Overlapped` | the overlapped operations of a Windows server, from `AcceptEx`, `WSARecv` and `WSASend` to the port, the handlers and the end of the connection | tasks and turns as in `ServerConnection` |
| `OverlappedProofs` | the theorems of `Overlapped` | `Overlapped` |
| `ByteQueue` | abstract: what a buffer is to its users | |
| `Buffer` | `BufferEndian`: vector, indices, the move and the growth, the byte order | implements `ByteQueue` |
| `BufferProofs` | the theorems of `Buffer`, and of `URL` and the request of `HttpClient` | `Buffer`, `HttpClient` |
| `URL` | `URL::split` | operators |
| `HttpClient` | `HttpClient`, its request, and the parser of `HttpResponse.cpp` | extends `URL` |
| `MC*` | the instance TLC checks of each | |

Actions and variables keep the names of the code where there is one (`createEvent` is split into
`Push` and `Count`, `process` into `BeginProcess`, `Take` and `Drop`). A definition whose name
has a suffix, `Count_Lost`, is a faulty variant of the definition before the underscore, kept to show
that a property would notice that fault; no specification uses it.

Points at which a model is less obvious than the code:

- **The concurrent queue** (moodycamel) is modelled from its use: one FIFO per producer thread, no
  order between producers, and an empty answer possible while an enqueue is under way. So `CycleQueue`
  numbers each thread's tasks and keeps only where its FIFO begins and ends.
- **Time** is a small counter in `TimerSet`, and in `EventLoop` no more than "set" and "due".
  A wait is `zero`, `next` or `max` long and ends by itself in the end.
- **`EventLoop` has both builds** in one specification: `backend` is chosen in `Init` and never
  changes. With epoll, `wakeup` does nothing; with IOCP it posts a completion. `Sending` and `ClientConnection`
  do the same.
- **`std::set` whose keys change**: `TimerSet` keeps the sequence the tree has, inserts by the search
  the tree would make, and allows every position a search in an unordered tree can come to.
- **References**: `Held` of `ServerConnection` lists who holds a connection: map, tie, queued tasks.
  When it turns false the connection and its channel are gone. Reports of epoll are repeated
  until the channel is disabled.
- **A handler that goes on**: `handling` of `ServerConnection` keeps how a handler that has called `handleClose`
  continues: it returns, does the write that was reported with the read, or has the -1 of a read or write that
  failed. Each of these is a step of its own, with the other loops between.
- **`failed`** of the connection modules records the assertion, `epoll_ctl` error or dead pointer that
  ends the process; nothing happens afterwards. Properties say when it may and may not be reached.
- **One event of a client**: with epoll `handleEvent` goes on from the read to the write. `ClientConnection` keeps the two
  apart (`phase` "write"): the peer may reset the connection between them, also after a read that found the end and has
  called `handleClose`, so that the write that fails calls it again.
- **Empty sends.** A call of `send` in `Sending` passes two bytes or none (`Messages`). With IOCP one that finds the buffer
  empty enables writing and posts nothing (`WSProactor::updatePost` returns); `hushed` remembers that, since no later send
  is posted then.
- **Memory** in `Buffer` holds `Garbage` where the vector left its bytes uninitialised (`NoInit`), and
  in `Sending` the kernel reads `Freed`, for any of the bytes, once an append has moved them.
- **Numbers.** `FileDescriptor` keeps apart what an object believes (`impl`) and what the kernel's table has
  (`files`); a file that is opened gets the lowest number there is, as POSIX says. `Others` are files
  the rest of the process opens and closes at any time, between any two system calls of the acceptor. `scarce` is
  the limit of the system, at which every call that opens a file fails with `ENFILE` although the process has numbers
  left; other processes reach and leave it at any time.
- **Ends that are reported twice.** `Acceptor` counts how often `handleClose` has called `removeConnection` (`reports`), how
  often its task has looked for the connection in the server's map (`erases`), and how often `connectDestroyed` has run
  (`destroys`). A connection on the pool is reported until it is cancelled, and one event may report it twice: at
  the end of the stream, and at the write after it. The second removal fails an assertion; without assertions epoll is asked about
  a channel it does not know.
- **`Overlapped`**: what a handler has still to do is a sequence of steps, its loop's `agenda`. The kernel
  may complete operations and queue packets between any two of them; the loop's other events and tasks
  wait until the agenda is empty. `heap` has the operations that were not deleted, `kernel` those the kernel
  works on. `Accepts` stands for the 32 operations an acceptor keeps posted.
- **Addresses of operations.** An operation in `Overlapped` has an identity, and is created once. `process` compares
  addresses, and memory is used again: so a packet whose operation was deleted may be taken for any operation that is
  listed where it is looked for (`Stale`). That is `failed = "mistaken"`: the wrong operation is taken out, its handler runs,
  with bytes that nobody has read if it is a reader's, and the model follows the process no further.
- **Byte order** in `Buffer` is a constant: `"native"`, the class `Buffer`, or `"other"`. Reading an integer
  reverses what was written reversed.
- **`URL`**: a string is a sequence of tokens, and the positions that `find` and `rfind` return are compared
  as the code compares them, `npos` being -1 so that `npos + 1` is 0. `Names` are the tokens that are neither
  delimiters nor digits. `WellFormed` says which parts a URL can be put together from so that its form
  (`http/URL.cpp:78`) leaves no doubt what they are: a protocol without a colon, a host that is a name or an
  address in brackets, a port of digits, a path that begins with a slash, and in no part a delimiter
  that would end it.
- **`HttpClient`**: a token stands for a byte, so a piece may end anywhere. `HttpClient::onMessage` takes
  a `base::Buf` where `TCPClient` now hands out a `base::Buffer *`: the class lags behind the
  `io` library, and is modelled as it is written, its parser as it is.

## 3. The runs

| run | instance | properties | what it shows |
|---|---|---|---|
| `MCCycleQueue` | 2 posting threads and the loop's own, 2 tasks each | `ImplementsTaskExecutor` | each task is run once, in order, and in the end |
| `MCEventLoop` | 1 thread and the loop, 2 tasks each, both may stop; a timer; I/O at any time; both builds | `WakeupNotLost`, `StopNotSleptThrough`, `Accounting`, `NoTaskForgotten`, `StopObeyed` | the queue's counter and items never drift apart under the loop, which does not sleep through what it is told, and obeys |
| `MCEventLoopThreadPool` | base loop, 2 threads of the pool, 1 without a pool that stops itself | `PublishedLoopAlive`, `DestructorFindsStopped`, `SpinReturns`, `StopEndsRunningLoop` | pointers, joins and spins of the threads are safe under the pool's calls and an owner's own |
| `MCTimerSet` | 3 timers of runAfter, 1 of runEvery with 2 repeats, 3 delays, 5 instants | `IteratorValid`, `PassFiresDue` | a pass survives what its handlers do to the set, and leaves nothing out that the tree's order lets it see |
| `MCServerConnection` | 2 connections over 2 loops, each shut down by its user and sent on by both loops; peers end or reset | `PolledAlive`, `FailureTakesARace`, `CallbackOrder`, `ClosedIsDestructed` | lifetimes hold over all hops between the loops; a failure takes one of the races that are known |
| `MCClientConnection` | 2 calls each of connect and disconnect, every outcome, 3 attempts, a foreign task; the peer ends or resets; both builds | `PolledAlive`, `OneAttempt`, `FailureTakesARace`, `TriesOn`, `ClosedIsDestructed` | attempts do not overlap, go on, and hand their channel over |
| `MCAcceptor` | 6 numbers, of which 4 are the loops' and the acceptor's; 2 connections, 2 files of other threads; a table of 2 slots that has to grow; an end is reported up to twice; the limit of the system | `DescriptorsMatch`, `TableMatchesEpoll`, `SpareTakesARace`, `WaitingIsServed` | numbers, table, epoll and batch agree, unless an end is reported twice; the limit of open files is survived, and who waits is served, unless another thread or the system takes the spare |
| `MCOverlapped` | 3 connections over 2 socket numbers, 1 accept operation, reads of up to 2 bytes; one is shut down, one sends 3 bytes, is answered and ends or resets | `PendingIsFound`, `StalePacketTakesPool`, `ReadsInOrder`, `SentIsRead` | operations, packets and the channels they belong to are not mixed up, and bytes are read in order and in the end |
| `MCSending` | 2 threads, 2 sends each of 2 bytes or none; reset and close at any time; both builds | `StreamIntact`, `AllArrives`, `StallTakesEmptySend` | bytes go out once, in order, and in the end, unless an empty send has stopped them |
| `MCBuffer` | a buffer of 1 + 2 cells, 2 values, calls of up to 2 bytes, the other byte order | `CapacityBounded`, `RoomIsMade`, `ImplementsByteQueue` | a vector and two indices are a queue of bytes, of bounded size |
| `MCHttpClient` | 162 URLs; 72 responses, cut in every way | `RequestAsksForUrl`, `BodyIntact`, `ArrivedIsDelivered` | what is asked for is what the user named; the body is delivered once and whole |
| `StopLost` | 1 thread | refutes `StopReturns` | a stop can be overwritten by the start |

**Why the bounds are enough to be interesting.**
Two posting threads are what it takes for one to be between enqueue and count while another posts and
the loop drains; two tasks each make a FIFO of which one end moves while the other does. One outside
thread suffices in `EventLoop`, where the races are between the loop's reads and one other's writes;
`MCCycleQueue` has the races between posters. The pool needs two threads for a stop to be half done;
the thread beside it is there since the pool's threads do not stop themselves. Three timers are needed for
one to be inserted between two others during a pass, and a repeating one to move among them. In
`ServerConnection` one loop of the pool besides the base loop shows every hop there is, and of two connections
each loop has one; both are sent on and shut down by their users, so that every end meets every other. `MaxReports` limits how often epoll's repeated report is queued again: two is one
more than the code expects. In `Acceptor` two numbers for two connections and two files reach the limit from
either side, drop a connection, and use the number of a connection again while other events of the batch are
still to be handled; with two slots the table grows, from a length the numbers have already passed. In `Overlapped` a third
connection takes the number of one that has gone, whose cancelled packets are still in the port; three
bytes at two a read make one read that fills the buffer, with the extra read after it, and one that does
not. `Buffer` has one cell in front and two behind, so that calls of two bytes fit, move or grow. The HTTP
bodies have up to three bytes, in up to two chunks with up to two trailer lines, and hold line breaks and
digits; the URLs have delimiters in the parts where they mean nothing.

The bounds that are not in the code are `MaxPosts`, `stoppers` of `EventLoop`, `MaxNow`, `Late`, `MaxReports`, `MaxStarts`,
`MaxDisconnects`, `MaxOthers`, `MaxAttempts`, `MaxSends`, `Bytes`, `Sends`, `MaxLen` and `MaxReadable`; each is
named as a bound where it is declared. `CHECK_DEADLOCK FALSE` stands where everyone may be done: all tasks
posted, the loop stopped, the objects destroyed, or the process ended. `TimerSet` and `Buffer` are
checked for deadlock.

Each module defines its `TypeOK`, which holds on the instances above; that of `CycleQueue`, where a counter below
zero is a real possibility, is a theorem, and those of the others are parts of the inductive invariants where
a proof needs them.

## 4. Fairness

No specification assumes that anyone calls, posts, connects, closes or sends. What is assumed:

- A thread inside a call goes on (`WF` of `Count`, `Wakeup`, `Returns`, ...): the scheduler runs every
  thread, and there is no lock to starve on apart from the condition variable of `startLoop`.
- A loop goes round (`WF` of `LoopStep`, `RunTask`, `Poll`, `GoesOn`): its handlers return, and its wait is
  bounded, by `MaximumBlockingTime` if by nothing else (`EventLoop.cpp:135-151`).
- A wait ends when its time is up even if events keep coming (`SF` of `Timeout`): with IOCP the wait
  goes on after each event with the time that is left, so the step is enabled again and again and not
  continuously.
- A retry timer gets its turn (`SF` of `FireRetry`), and a thread that has enqueued a task counts it, so
  that a turn of the loop finds all of them in the end (`SF` of `AllCounted`).
- In `Sending` the peer reads and the kernel completes what was posted, while the connection lasts.
- In `Overlapped` the kernel ends every operation that can end (`WF` of `KernelNext`: data or an end of the peer is
  there, or the socket was closed) and each loop takes its next step (`WF` of `LoopNext`). That a loop gets
  to its completion port in the end is part of this, and not of the code when its handlers keep posting.
- In `Acceptor` the loops run (`WF` of `LoopNext`); no peer and no other thread has to do anything.
- A call of the pool, or of the owner of a thread without one, is carried on with (`WF` of `PoolReturns`,
  `AloneReturns`), and threads run (`WF` of `RunThread`).

`TimerSet`, `Buffer` and `HttpClient` state safety only and assume nothing.

## 5. The proofs

TLC checks the instances above; TLAPS proves the following for every value of the constants, from the
assumptions the modules declare.

**`EventLoopProofs`**, from `ThreadsAssumption` (finitely many threads, the loop's among them) and
`MaxPostsAssumption`. First the queue, `CycleQueue`, which the loop has under the name `Q`. Neither the counter's type nor its relation to the queue is inductive alone: that
`Drop` leaves `size` a natural number takes `todo <= size`, and `todo <= size` survives `Drop` only since
both are lowered, and `Count` since it only raises. The inductive invariant is
`IInv == TypeOK /\ Accounting /\ SnapshotBacked`. `Accounting` speaks of cardinalities, so the proof rests on
lemmas that the queue is finite and that a `Push` adds one element to it (`PushAddsOne`) and a `Take`
removes one (`TakeRemovesOne`).

- `TypeCorrect`, `AccountingCorrect`, `SnapshotCorrect`: the three parts.
- `SpinCorrect`: the loop `while (!queue->try_dequeue(event))` is only entered with an item in the queue.
  If it were empty, `Accounting` would make `size` at most 0 with nothing in hand, and `todo <= size`.
- `IdleCorrect`: when `isIdle()` is true, what is queued is owed to threads that have still to count, and
  so to wake the loop. This is the fact that the sleep of `EventLoop` rests on.
- `ExecutorSafety`: initial states and steps of `CycleQueue` map to those of `TaskExecutor`.

Then the loop, which needs no assumption for it:

- `LoopAccounting` and `LoopFindsItem`: accounting and spin are under the loop as above. The lemma `LoopUsesQueue` carries
  them over: the loop's actions conjoin those of the queue.
- `WakeupCorrect` and `StopWakesCorrect`: with IOCP the loop does not wait through a counted task, or a stop, without
  a wakeup that is posted or owed. Neither is inductive as it stands: the loop decides in three reads of the
  counter, and the last matters. `TaskOwesWakeup` says what must hold from the last look on: before the bound is
  computed a counted task has its wakeup, and while the loop waits, one beyond those its own handlers have
  counted since. `StopOwesWakeup` is the same for the status, from `runOnce` on, through the timers that
  `calculationBlocktime` fires. `PostsInHandlers` (the loop's thread is inside `createEvent` only in a handler) shows
  that the loop's own posts, which wake nobody, fall outside of that window.

Then the timers, from `TimerAssumption`, for any timers, delays and instants. `TimerSet` has the set as a sequence, in the tree's
order, and what goes wrong with it goes wrong by timers of `runEvery`, whose keys change. So there are two halves: what
holds whatever the order, and what holds until the first timer of `runEvery` is made. The
inductive invariant is `TimerIInv`, type, `IteratorValid` and `OnePlace`, and, without `runEvery`, `Sorted` and `LeftBehind`.

- `IteratorCorrect`: the pass keeps an iterator across handlers that create and cancel timers. Only the pass itself
  takes an element out, and the iterator is then at the next one.
- `OnceCorrect`: a timer of `runAfter` fires once at the most, in an unordered set too. `OnePlace` says that a timer
  is in the set once, or in the loop's queue of tasks, or in the hands of the pass, and in no two of these.
- `PassCorrect`: a pass ends at the first timer that is not due, so in a sorted set it leaves nothing due behind
  it. A handler may insert in front of the iterator while the pass runs: `LeftBehind` says that such a timer was not due
  before the pass's own time. One that was made with no delay is due at just that time, and is left to the next pass.
  The lemmas on `Emplaced` say that an insertion by the tree's search keeps a sorted set sorted, and each timer
  in it once.

**`EventLoopThreadPoolProofs`**, from no assumption: for any number of threads in the pool and beside it.

The pool's actions conjoin those of `EventLoopThread`, or leave its variables alone; so the invariant of both theorems is one of
that module's steps.

- `PublishedCorrect`: `loop_`, where it is set, names a loop that exists. `Follows` ties `loop_` to how far
  `threadFunc` has come.
- `DestructorCorrect`: the destructor finds `Stopped` after a join, so that it does not call `stop` again, of
  every thread that does not stop itself. `Tied` goes with the owner from call to call: where the thread can be
  at each, and what the two status words then hold. The owner's `Stopping` is stored while the loop runs and
  nobody else stops it, so the thread's `Stopped` comes after it.

**`BufferProofs`**, from `BufferAssumption`. `NoGarbageRead` is an invariant over the cells of the vector
between two moving indices; it is inductive together with the order of the indices, the bound of what
is readable, the typing of the cells and the bound of the capacity (`IInv`). Per call, a lemma says
which cells change; the step is proved per action.

- `IndicesCorrect`: reader and writer index stay in order and inside the vector.
- `CapacityCorrect`: the vector never exceeds what callers leave in it plus what they write at once,
  plus the room in front: without the move to the front it would grow for ever.
- `ReadCorrect`: no byte that nobody wrote is readable.
- `RoomCorrect`: in every reachable state and for every length, `ensureWritableBytes` ends with the
  room it was asked for, and its assertions hold.
- `BufferIsByteQueue`: the buffer implements `ByteQueue`. It is a step simulation: `Shows(bytes)` says that the
  cells between the indices hold a sequence, and a lemma per kind of change (behind, in front, dropped from
  the front, cut from the end, moved, grown) says what sequence they show afterwards; `StepQueue` maps each
  action to the change of the queue, or to none.

Then the URLs and the request, from `UrlAssumption`: what the user may ask for is well-formed. TLC evaluates the assumption
for the 162 URLs of the run.

- `SplitCorrect`: for every well-formed URL, of parts of any length, `split` of the text gives back the parts, wherever else
  the delimiters occur in them; unless the host has a colon of its own and there is no port
  (`HidesPort`). Then the theorem says what the code does instead: the host is *never* found (`HostIsFound` in section 6 is
  one such trace). The argument goes the way `split` goes. `SplitFirst`, `SplitLast` and `CutAround`: in `a`, a character,
  `b`, where the character is not in `a` (or not in `b`), `find` (or `find_last_of`) returns the length of `a`, and
  `substr` gives `a` and `b`. `ProtocolFound` uses that for the first colon, `HostFound` for the first delimiter behind the host,
  `HostCutIs` for the last colon of the host and the port, `TailFound` for `#` and `?`.
- `RequestCorrect`: the client connects to the host of that URL and asks for its path. `HttpIInv` says that the address and the request
  are those of the text the user gave, from `get` to the connection.

**`ServerConnectionProofs`**, from `ServerAssumption`: for any connections, any number of loops, and builds with
and without assertions.

- `PolledCorrect`, `CallbacksCorrect`, `FailureCorrect`: the three invariants of the run. None of them is
  inductive. What they rest on is where the tasks of a connection can be: `TasksOf` says of each kind of task
  between which two loops it travels, in which states of the connection, and that `add` goes before
  `established` in the queue from the base loop, each of them once; `StateOf` ties the state to the map, the tie, the
  flags of the channel and the registration; `HandlingOf` says in which state a handler that goes on after
  `handleClose` finds its connection: over on the base loop, still `kConnected` on a loop of the pool. `Removal` is the lemma that most steps come to: a
  task leaves a queue, and what was said of the tasks of that and of every other connection is still true.
- `FailureTakesARace` is stated for both builds. Without assertions there is one way more for epoll to be asked about a
  channel it does not know: a connection on the pool that was removed twice is destroyed twice.

**`ClientConnectionProofs`**, from `ClientAssumption`: for both builds and any number of calls, attempts and foreign
tasks.

- `PolledCorrect`, `OneAttemptCorrect`, `FailureCorrect`. `Linked` says whose the channel and the socket are in each state of the
  attempt, `Alive` what is left of a connection and who has asked for its end, `Starts` that a client that was told
  once to connect is on its way once: its task is queued, or its retry is due, or its attempt is under way. `Turns` is
  the argument for epoll: what a handler has queued is run in the same turn unless another thread has a task in
  its place, so that no event comes between the handler and the `connectDestroyed` it has queued. The write that follows a read in
  one event comes before that turn: there a reset in between is enough for a failure, and the property says so.

**`AcceptorProofs`**, from `DescriptorAssumption` and `AcceptorAssumption` (the objects can be told apart, and the limit leaves
room for the four numbers of loops and acceptor): for any limit of open files, any initial size of
tables and of the array of events, any connections and any files of other threads.

- `DescriptorsCorrect`: it takes `LowestIsUnused`, that a set of numbers that is not empty has a least one, so that what the kernel
  gives to a file was not in use (`OpensGives`, `ClosesTakes`); that the spare has no number at all while the error callback has it
  closed (`Calls`); and that a connection has a number just between accept and the end of its channel (`Staged`).
- `TableCorrect`: `Registered` says which channels each epoll has, from the stage of each connection;
  `AddEnters` and `CancelRemoves` that a table is changed in one slot, also when it grows (`ResizedHasRoom`).
  That the slot was free, which `add` asserts, is what keeps the channel that had the number before from being lost.
  What is asked of epoll and of the server's map at the end of a connection has an invariant of its own, `CInv`
  (`CountInvariance`): a connection is cancelled no more often than it was looked for in the map, and that no more often than its end
  was reported; before the first report nothing was counted, and what is gone was carried out as often as it was reported. So
  the second of anything takes a second report.
- `SpareCorrect`: `RoomIsLeft` says that while the spare is closed a number is unused, or is the one of the
  connection about to be dropped, as long as no other thread has opened a file; and the system's limit is remembered as a theft is.

**`OverlappedProofs`**, from `OverlappedAssumption` (the listener and `None` are no connection and no number; at least one accept
operation and room for one byte): for any connections, bytes, numbers and users, on the base loop and on the pool.

- `FoundCorrect`, `AbortTakesPool`, `ReadsCorrect`. The argument follows an operation. It is with the kernel (`InKernel`), in a packet
  (`InPort`), or in a step that a handler has still to do (`ToDo`), and it is in two of these at no time:
  `Returned` says that it is in neither of the first two, and is what the steps `recv`, `send` and `accept` need of the operation they
  post. Around that: `Named`, no two sockets have one number and a slot names the connection that has it; `Listed`, a list holds the channel's
  own operations, each once, until the channel is cancelled; `Freed`, what a task of `addFree` will delete is not written any more.
- For `AbortTakesPool` the order of packets counts (`Ordered`): a packet that accepts a connection gives it the
  number of its operation's socket, and no packet behind it on the base loop has that number as its key. So on the base loop
  a packet that is not passed over finds its operation in the list (`FoundOnBase`), and no address is compared in vain: the theorem
  excludes the abort and the mistaken packet alike. The other two hold until a packet is mistaken, which so takes the pool.
- For `ReadsCorrect`, `Answers` says that a packet's bytes follow those in the buffer, and that nothing else of the connection was
  handed out: while a packet of the read is on its way no extra read can run.
- Most steps are one connection's or one loop's and leave the rest alone; `Alike`, `Kept` and `Does` say what that means, and `Around`
  draws the conclusion once. `EndsStep` and `TakesStep` do it for what the kernel ends and what `process` takes.

**`SendingProofs`**, from `SendingAssumption` (the loop's thread is one of those that send; what the kernel reads where
bytes are gone is no byte of a call): for any threads and any number of calls, in both builds.

- `StreamCorrect`: `Got` says that the peer has the beginning of what reached the buffer, `Rest` that what is left of the buffer, behind what
  the kernel has sent ahead, is what follows. With IOCP the two fit together only while one operation is pending (`Posted`): a second one would
  start at the front of the buffer again. `writing` sees to that, as long as it is on while something is pending.
- `StallCorrect`: with IOCP `writing` without a pending operation takes an empty send, on a connection that lasts. An append that finds writing
  disabled posts what it appended, and a completion posts the rest or disables writing; a refusal takes a reset.
- `TypeCorrect`: with `Counted`, that no call reaches the buffer before it was made.

**Only model-checked**: every liveness property (TLAPS has no `ENABLED` here, so `WF` and `SF` cannot be
used), and with it the liveness half of each refinement; `BodyIntact` and `ArrivedIsDelivered` of `HttpClient`, whose parser goes
down the lines of a head and the chunks of a body by recursion: what it computes for every response takes an induction over data,
which the prover cannot do.

## 6. Findings and known failures

One run ends in a counterexample, on purpose:

- `StopLost`: `EventLoop::run` stores `Starting` and `Running` without looking. A `stop` that comes between
  `threadFunc`'s publication of the loop and those stores is overwritten; `EventLoopThread::stop` then
  joins a thread that never ends (`io/EventLoop.cpp:48`).

The modules state further things one would expect and that TLC refutes, at their end, under "what the code
says of itself and does not keep". To see a trace, name the definition as the only property of the
module's configuration, as an INVARIANT, or as a PROPERTY if it is temporal.

| definition | module | what happens |
|---|---|---|
| `StopUsesLiveLoop` | `EventLoopThread` | `stop` reads `loop_` and calls `loop_->stop()`, which goes on using the loop after its store; the thread may have destroyed it |
| `StartLoopReturnsAlways` | `EventLoopThread` | a loop that stops at once clears `loop_` before `startLoop` has looked: the wait is for ever |
| `DestructorReturns` | `EventLoopThread` | a loop that stopped itself leaves a destructor that spins for a `Running` that is over |
| `RunAfterOnTime` | `TimerSet` | a repeating timer changes its key in the set, and others wait behind it |
| `RunEveryGoesOn` | `TimerSet` | the set is keyed by the timeout alone: a timer with the same timeout as another is dropped |
| `EraseFindsConnection` | `ServerConnection` | the end of a connection on a pool thread is reported by epoll again before the two hops of its removal are over; it is removed again and `assert(n == 1)` fails (`io/TCPServer.cpp:65`) |
| `DestroyedOnce` | `ServerConnection`, `Asserts = FALSE` | the same in a build without assertions |
| `EventFindsHandler` | `ServerConnection` | an event between the registration of a channel and the task that gives it handlers |
| `HandlerKeepsConnection` | `ServerConnection` | on the base loop a connection may be gone while `handleEvent` still uses its channel |
| `ShutdownFindsConnection` | `ServerConnection` | `shutdown` captures a bare `this` |
| `SendFindsConnection` | `ServerConnection` | so does `send` on another loop |
| `LateSendIsIgnored` | `ServerConnection` | a send of another loop that is overtaken by `connectDestroyed`: `epollCtl` aborts, as in `SendAfterCloseIsIgnored` |
| `ErrorIsSurvived` | `ServerConnection` | after a `readv` or a `write` that fails the handler goes on with a size of -1 |
| `RefusalIsHandled` | `ClientConnection` | epoll: a connect that fails late is a hangup, and the Connector has no close callback; IOCP: a `ConnectEx` that fails at once calls `handleError` while `connect` is still at work on the channel, which is gone or not there yet |
| `StartFindsDisconnected` | `ClientConnection` | a second `connect` finds an attempt under way |
| `RemoveFindsConnection` | `ClientConnection` | an event is reported before the queued `connectDestroyed` has run |
| `EndIsRemovedOnce` | `Acceptor` | as `EraseFindsConnection`; and one event may report an end twice, on the base loop too: the read finds the end, a reset comes, and the write fails (`io/Reactor.cpp:28`). Without assertions the second `connectDestroyed` asks epoll about a channel it does not know |
| `SystemLimitIsServed` | `Acceptor` | the error callback acts on `EMFILE` and not on `ENFILE`: at the limit of the system the connection that waits is reported for ever and never served (`io/accept/PosixAcceptor.cpp:27`) |
| `SlotsAlive` | `Acceptor` | the destructor of an acceptor leaves its channel in the table |
| `SpareIsKept` | `Acceptor` | another thread opens a file while the spare is given up: it is not got back, an assertion or a -1 |
| `BindFailureIsTold` | `Acceptor` | a bind that fails is logged; the server listens on a port nobody knows |
| `ListenFailureIsNoticed` | `Acceptor` | a listen that fails sets no condition; epoll reports a hangup, and the acceptor has no handler for it |
| `ShortageIsSurvived` | `Acceptor` | `ENOBUFS` and `ENOMEM` in accept abort |
| `KernelMemoryAlive` | `Overlapped` | the end of a channel frees operations the kernel still works on |
| `NothingLeaks` | `Overlapped` | it frees only the last of a list |
| `FirstReadMayFail` | `Overlapped` | the first read is posted by the constructor of a model that its channel does not have yet |
| `ReplyMayFail` | `Overlapped` | a reply that fails destroys the connection whose handler goes on |
| `LatePacketHarmless` | `Overlapped` | on a loop of the pool a packet of a closed socket meets the next channel of its number, which does not know the operation |
| `PacketMeetsItsOwn` | `Overlapped` | if that channel has an operation in the memory of the deleted one, the packet is taken for its: a read that is pending is taken out, and bytes nobody has read are handed on |
| `AppendsNetworkOrder` | `Buffer`, `Endian = "native"` | "Append int64_t using network endian": `Buffer` is the class of the machine's order |
| `AppendsReadable` | `Buffer` | `append` of another buffer copies from the beginning of its vector, not from its first readable byte |
| `PendingStays` | `Sending` | an append moves the bytes of a pending `WSASend` |
| `EmptySendIsHarmless` | `Sending` | with IOCP an empty send enables writing with nothing to post: no later send is ever posted (`io/proactor/WSProactor.cpp:122`) |
| `WriteErrorIsHandled` | `Sending` | after a failed `write` the buffer is asked to retrieve -1 bytes |
| `SendAfterCloseIsIgnored` | `Sending` | a send after `connectDestroyed` enables a channel that epoll does not know, and `epollCtl` aborts |
| `QueryIsSent` | `HttpClient` | `get` leaves the query out of the request |
| `HostIsFound` | `HttpClient` | an IPv6 address without a port loses its last group to the port |
| `LastChunkEnds` | `HttpClient` | a chunked response without trailer is never delivered: the parser asks for one line more |
| `ParserSurvives` | `HttpClient` | a first piece that ends inside the head: `{data, nullptr}` |

Some properties of the passing runs are stated around these: `FailureTakesARace`, `SpareTakesARace`, `TableMatchesEpoll`,
`StallTakesEmptySend` and `StalePacketTakesPool` say what it takes for the failure to happen, and so that there is no *other* way to it.
`PendingIsFound` and `ReadsInOrder` leave out what follows a mistaken packet, `AllArrives` what follows an empty send that
enables writing, `WaitingIsServed` a system that stays at its limit.

**Preconditions of the models.** `getNextLoop` and the pool's `stop` are called while the pool runs. A
server's connections begin after `TCPServer::start`. The client model and the run of the server's
are the build with assertions (`Asserts`).
In `Sending` the senders keep the connection and the bytes until their task has run; in `ServerConnection` another
loop's user keeps the connection until `send` returns, and no user sends in the callback that tells of the end, which
would enable a channel that `Channel::cancel` then asserts to be disabled (`io/Channel.cpp:33`). The callers of a buffer leave at
most `MaxReadable` bytes in it. A timer's handler creates and cancels timers and does nothing else
to the set. An HTTP server answers as RFC 7230 says. Other threads open and close files of their own and
no number of anybody else.

## 7. What is not modelled

- `io/IdleEventManager`: nothing can register an idle watcher, so its list is always empty.
- `file/`, `io/ProactorChannel`, `io/extend`: not part of the build.
- Addresses, logging, exceptions, streams: wrappers of system calls and formatting.
- Of `base/File`: reading, writing and seeking, which nothing in the library calls; the details of the
  Windows sockets (`base/platform/win32/File.cpp`), where a bind that fails closes the socket and keeps the object.
  The case of a descriptor 0 in the poller's table, whose growth doubles the index (`resize(i * 2)`), takes
  a process that has closed its standard input.
- `Connector::stop` and `TCPClient::stop`, which nothing in the library calls.
- Two writes of one connection pending at once on Windows; `Sending` has one, as `WSProactor` means it.
- What a process does after a packet was taken for another operation's (`Overlapped`, `mistaken`).
- Sends on a cancelled connection with IOCP.
- Of `Buffer`: the moved-from object of the move constructor; `peekInt16`, `peekInt32` and `peekInt64`, which do not
  compile where they are used.
- In `HttpClient`: the names of statuses and versions. A response whose first line has a number in its
  second word without being a status line is taken for a failure.
- Fairness between tasks and I/O: with a blocking time of zero the IOCP loop does not look at its I/O.

## 8. The plan

Modelled first: the task queue and the loop, since everything else is built on them; then threads, pool
and timers; then the two lives of a connection; then buffer, sending and HTTP; then the acceptor with the
poller's table, the overlapped operations and URLs, and sends and resets in the connections. What is left:

1. **`Overlapped` and `Sending` together**: two writes pending, and the buffer they share.

Proofs: what the parser of `HttpClient` makes of a response of any length, for which the induction is missing.
