----------------------------- MODULE CycleQueue -----------------------------
(***************************************************************************)
(* CycleEventManager: the queue of tasks other threads, and the loop       *)
(* itself, hand to an event loop, and the loop's drain of it.              *)
(*                                                                         *)
(* The manager keeps two pieces of state that no lock joins: a lock-free   *)
(* queue and an atomic counter `size`.  createEvent first enqueues and     *)
(* then counts; process takes a snapshot of the counter, dequeues that     *)
(* many tasks, spinning when the queue answers that it is empty, and       *)
(* un-counts each one after its handler returned.  So the counter lags     *)
(* behind the queue on the way in and on the way out.                      *)
(*                                                                         *)
(* The queue (moodycamel::ConcurrentQueue) keeps one FIFO per producer     *)
(* thread and promises no order between producers: the tasks of t are      *)
(* numbered from 1, t's FIFO holds those from head[t] + 1 to tail[t], and  *)
(* a dequeue takes the oldest of any of them.                              *)
(***************************************************************************)
EXTENDS Integers, FiniteSets

CONSTANTS
    Threads,  \* the threads that post tasks, the loop's own among them
    Loop,     \* the thread that runs the event loop
    NoThread, \* no task is being handled
    MaxPosts  \* bound: how many tasks each thread posts

ASSUME ThreadsAssumption ==
    /\ IsFiniteSet(Threads)
    /\ Loop \in Threads
    /\ NoThread \notin Threads

ASSUME MaxPostsAssumption == MaxPosts \in Nat

VARIABLES
    tail,     \* tail[t]: how many tasks t has enqueued
    head,     \* head[t]: how many of them have been dequeued
    size,     \* CycleEventManager::size
    counting, \* the threads between their enqueue and their ++size
    todo,     \* process: the iterations left of its `for`, 0 outside it
    current   \* the thread whose task event.handle() is running, or NoThread

vars == <<tail, head, size, counting, todo, current>>

Init ==
    /\ tail = [t \in Threads |-> 0]
    /\ head = [t \in Threads |-> 0]
    /\ size = 0
    /\ counting = {}
    /\ todo = 0
    /\ current = NoThread

Queue ==
    {q \in Threads \X (1 .. MaxPosts) : head[q[1]] < q[2] /\ q[2] <= tail[q[1]]}

Handling == IF current = NoThread THEN 0 ELSE 1

isIdle == size = 0

\* The loop's thread posts from a task, or from a callback outside process().
MayPost(t) ==
    /\ t \notin counting
    /\ t = Loop => (todo = 0 \/ current # NoThread)

\* createEvent: the enqueue.
Push(t) ==
    /\ MayPost(t)
    /\ tail[t] < MaxPosts
    /\ tail' = [tail EXCEPT ![t] = @ + 1]
    /\ counting' = counting \cup {t}
    /\ UNCHANGED <<head, size, todo, current>>

\* Mutant: the counter is not raised (an early return before ++size).
Count_Lost(t) ==
    /\ t \in counting
    /\ counting' = counting \ {t}
    /\ UNCHANGED <<tail, head, size, todo, current>>

\* createEvent: ++size.
Count(t) ==
    /\ t \in counting
    /\ counting' = counting \ {t}
    /\ size' = size + 1
    /\ UNCHANGED <<tail, head, todo, current>>

\* process: the snapshot of the counter.  With nothing counted it is a no-op.
BeginProcess ==
    /\ todo = 0
    /\ Loop \notin counting
    /\ ~isIdle
    /\ todo' = size
    /\ UNCHANGED <<tail, head, size, counting, current>>

\* process: the try_dequeue that succeeds; until then the loop spins.
Take(t) ==
    /\ todo > 0
    /\ current = NoThread
    /\ head[t] < tail[t]
    /\ head' = [head EXCEPT ![t] = @ + 1]
    /\ current' = t
    /\ UNCHANGED <<tail, size, counting, todo>>

\* process: event.handle() returns, --size, the next iteration.
Drop ==
    /\ current # NoThread
    /\ Loop \notin counting
    /\ current' = NoThread
    /\ size' = size - 1
    /\ todo' = todo - 1
    /\ UNCHANGED <<tail, head, counting>>

TakeSome == \E t \in Threads : Take(t)

Next ==
    \/ \E t \in Threads : Push(t) \/ Count(t)
    \/ BeginProcess
    \/ TakeSome
    \/ Drop

\* The loop keeps calling process, its spin sees an item that is there, and a
\* thread inside createEvent reaches its ++size.
Fairness ==
    /\ WF_vars(BeginProcess)
    /\ WF_vars(TakeSome)
    /\ WF_vars(Drop)
    /\ \A t \in Threads : WF_vars(Count(t))

Spec == Init /\ [][Next]_vars /\ Fairness

-----------------------------------------------------------------------------
\* Every variable stays in its type: no FIFO is dequeued past its end and the
\* counter never falls below zero, which isIdle() would read as "not idle".
TypeOK ==
    /\ tail \in [Threads -> 0 .. MaxPosts]
    /\ head \in [Threads -> 0 .. MaxPosts]
    /\ \A t \in Threads : head[t] <= tail[t]
    /\ size \in Nat
    /\ counting \in SUBSET Threads
    /\ todo \in Nat
    /\ current \in Threads \cup {NoThread}

\* The counter and the queue never drift apart: what is counted, plus the
\* posts that still have to count, is what is queued plus the task in hand.
Accounting ==
    size + Cardinality(counting) = Cardinality(Queue) + Handling

\* The counter covers what process() has promised itself to dequeue, however
\* many posts and dequeues overtake each other.
SnapshotBacked ==
    /\ todo <= size
    /\ current # NoThread => todo > 0

\* What the properties below follow from.
IInv == TypeOK /\ Accounting /\ SnapshotBacked

\* The spin of process(), `while (!queue->try_dequeue(event)) {}`, is only
\* ever entered when an item is there: it waits for no other thread.
SpinFindsItem ==
    (todo > 0 /\ current = NoThread) => \E t \in Threads : head[t] < tail[t]

\* isIdle() may be true while tasks are queued, but then at most as many as
\* there are threads that have still to count theirs, and to wake the loop:
\* the loop that goes to sleep on it leaves nothing behind for good.
IdleStrandsNothing ==
    isIdle => Cardinality(Queue) + Handling <= Cardinality(counting)

\* Handing a task to the loop means what TaskExecutor says it means: once
\* each, in its thread's order, one at a time, and none waits for ever.
Executor == INSTANCE TaskExecutor WITH
    submitted <- tail, started <- head, executing <- current

ImplementsTaskExecutor == Executor!Spec
=============================================================================
