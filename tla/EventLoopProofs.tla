--------------------------- MODULE EventLoopProofs ---------------------------
(***************************************************************************)
(* What TLAPS proves of EventLoop, of its queue and of its timers, for any *)
(* set of threads and any number of posts, any timers and delays.          *)
(*                                                                         *)
(* Of the queue: its counter and its items stay in step, the spin of       *)
(* process() never waits for a missing item, and the queue implements the  *)
(* safety of TaskExecutor.  Of the loop: it uses the queue as CycleQueue   *)
(* says, so that the same is true under it, and with a backend whose       *)
(* wakeup posts a completion it sleeps through neither a task nor a stop.  *)
(*                                                                         *)
(* The two arguments about the sleep have the same shape.  Once the loop   *)
(* has looked, whatever another thread brings leaves a wakeup that is owed *)
(* or posted; and nothing takes a wakeup away but the wait it ends.        *)
(*                                                                         *)
(* Of the timers, which are TimerSet's and share no state with the rest    *)
(* here: a pass keeps its iterator, a timer of runAfter fires once at the  *)
(* most, and the set is in order, so that a pass finds what is due, until  *)
(* there is a timer of runEvery.                                           *)
(***************************************************************************)
EXTENDS EventLoop, TimerSet, FiniteSetTheorems, SequenceTheorems, NaturalsInduction,
        WellFoundedInduction, TLAPS

(* The queue: CycleQueue, whatever posts to it and drains it. *)

\* Both modules count with the same Cardinality.
LEMMA SameCardinality == \A S : Q!Cardinality(S) = Cardinality(S)
  BY DEF Q!Cardinality, Cardinality

\* The queue and the set of threads that have still to count are finite, so
\* their cardinalities are numbers.
LEMMA QueueFinite ==
    ASSUME Q!TypeOK
    PROVE  /\ IsFiniteSet(Q!Queue)
           /\ IsFiniteSet(counting)
           /\ Cardinality(Q!Queue) \in Nat
           /\ Cardinality(counting) \in Nat
<1>1. IsFiniteSet(1 .. MaxPosts)
  BY FS_Interval, MaxPostsAssumption
<1>2. IsFiniteSet(Threads \X (1 .. MaxPosts))
  BY <1>1, FS_Product, ThreadsAssumption
<1>3. IsFiniteSet(Q!Queue)
  BY <1>2, FS_Subset DEF Q!Queue
<1>4. IsFiniteSet(counting)
  BY FS_Subset, ThreadsAssumption DEF Q!TypeOK
<1> QED
  BY <1>3, <1>4, FS_CardinalityType

\* An enqueue adds one item to the queue, whichever thread's FIFO it joins.
LEMMA PushAddsOne ==
    ASSUME Q!TypeOK, NEW t \in Threads, Q!Push(t)
    PROVE  /\ Cardinality(Q!Queue') = Cardinality(Q!Queue) + 1
           /\ Cardinality(counting') = Cardinality(counting) + 1
<1> DEFINE item == <<t, tail[t] + 1>>
<1>1. tail[t] + 1 \in 1 .. MaxPosts /\ head[t] <= tail[t]
  BY MaxPostsAssumption DEF Q!TypeOK, Q!Push
<1>2. Q!Queue' = Q!Queue \cup {item}
  <2>1. ASSUME NEW u \in Threads, NEW n \in 1 .. MaxPosts
        PROVE  <<u, n>> \in Q!Queue' <=> (<<u, n>> \in Q!Queue \/ <<u, n>> = item)
    BY <1>1, MaxPostsAssumption DEF Q!TypeOK, Q!Push, Q!Queue
  <2>2. item \in Threads \X (1 .. MaxPosts)
    BY <1>1
  <2> HIDE DEF item
  <2>3. /\ Q!Queue \subseteq Threads \X (1 .. MaxPosts)
        /\ Q!Queue' \subseteq Threads \X (1 .. MaxPosts)
    BY DEF Q!Queue
  <2>4. ASSUME NEW q \in Threads \X (1 .. MaxPosts)
        PROVE  q \in Q!Queue' <=> (q \in Q!Queue \/ q = item)
    <3>1. PICK u \in Threads, n \in 1 .. MaxPosts : q = <<u, n>>
      OBVIOUS
    <3> QED
      BY <3>1, <2>1
  <2> QED
    BY <2>2, <2>3, <2>4
<1>3. item \notin Q!Queue
  BY DEF Q!TypeOK, Q!Queue
<1>4. t \notin counting /\ counting' = counting \cup {t}
  BY DEF Q!Push, Q!MayPost
<1> HIDE DEF item
<1> QED
  BY <1>2, <1>3, <1>4, QueueFinite, FS_AddElement

\* A dequeue removes one item, whichever thread's FIFO it comes from.
LEMMA TakeRemovesOne ==
    ASSUME Q!TypeOK, NEW t \in Threads, Q!Take(t)
    PROVE  Cardinality(Q!Queue') = Cardinality(Q!Queue) - 1
<1> DEFINE item == <<t, head[t] + 1>>
<1>1. head[t] + 1 \in 1 .. MaxPosts /\ head[t] < tail[t]
  BY MaxPostsAssumption DEF Q!TypeOK, Q!Take
<1>2. Q!Queue' = Q!Queue \ {item}
  <2>1. ASSUME NEW u \in Threads, NEW n \in 1 .. MaxPosts
        PROVE  <<u, n>> \in Q!Queue' <=> (<<u, n>> \in Q!Queue /\ <<u, n>> # item)
    BY <1>1, MaxPostsAssumption DEF Q!TypeOK, Q!Take, Q!Queue
  <2> HIDE DEF item
  <2>2. /\ Q!Queue \subseteq Threads \X (1 .. MaxPosts)
        /\ Q!Queue' \subseteq Threads \X (1 .. MaxPosts)
    BY DEF Q!Queue
  <2>3. ASSUME NEW q \in Threads \X (1 .. MaxPosts)
        PROVE  q \in Q!Queue' <=> (q \in Q!Queue /\ q # item)
    <3>1. PICK u \in Threads, n \in 1 .. MaxPosts : q = <<u, n>>
      OBVIOUS
    <3> QED
      BY <3>1, <2>1
  <2> QED
    BY <2>2, <2>3
<1>3. item \in Q!Queue
  BY <1>1, MaxPostsAssumption DEF Q!TypeOK, Q!Queue
<1> HIDE DEF item
<1> QED
  BY <1>2, <1>3, QueueFinite, FS_RemoveElement

\* What is counted is there: the accounting and the snapshot leave the spin
\* something to find.
LEMMA SpinLemma ==
    ASSUME Q!IInv, todo > 0, current = NoThread
    PROVE  \E t \in Threads : head[t] < tail[t]
<1>1. Cardinality(Q!Queue) >= 1
  BY QueueFinite, SameCardinality DEF Q!IInv, Q!TypeOK, Q!Accounting, Q!SnapshotBacked, Q!Handling
<1>2. PICK q \in Q!Queue : TRUE
  BY <1>1, FS_EmptySet
<1>3. q[1] \in Threads /\ q[2] \in 1 .. MaxPosts
      /\ head[q[1]] < q[2] /\ q[2] <= tail[q[1]]
  BY <1>2 DEF Q!Queue
<1> QED
  BY <1>3, MaxPostsAssumption DEF Q!IInv, Q!TypeOK

\* With nothing counted, what is queued is what threads have still to count.
LEMMA IdleLemma == Q!IInv => Q!IdleStrandsNothing
  BY QueueFinite, SameCardinality
     DEF Q!IInv, Q!IdleStrandsNothing, Q!Accounting, Q!isIdle, Q!Handling, Q!TypeOK

LEMMA QueueInit == Q!Init => Q!IInv
<1> SUFFICES ASSUME Q!Init PROVE Q!IInv
  OBVIOUS
<1>1. Q!TypeOK
  BY MaxPostsAssumption DEF Q!Init, Q!TypeOK
<1>2. Q!Queue = {}
  BY MaxPostsAssumption DEF Q!Init, Q!Queue
<1>3. Q!Accounting
  BY <1>2, FS_EmptySet, SameCardinality DEF Q!Init, Q!Accounting, Q!Handling
<1> QED
  BY <1>1, <1>3 DEF Q!Init, Q!IInv, Q!SnapshotBacked

\* Every step preserves the invariant.  The counter is compared with the
\* queue, never with a single task: the loop may dequeue an item its thread
\* has not counted yet, in place of one that is counted.
LEMMA QueueStep == Q!IInv /\ [Q!Next]_(Q!vars) => Q!IInv'
<1> SUFFICES ASSUME Q!IInv, [Q!Next]_(Q!vars) PROVE Q!IInv'
  OBVIOUS
<1> USE DEF Q!IInv
<1>1. ASSUME NEW t \in Threads, Q!Push(t) PROVE Q!IInv'
  <2>1. Q!TypeOK'
    BY <1>1, MaxPostsAssumption DEF Q!TypeOK, Q!Push
  <2>2. Q!Accounting'
    <3>1. /\ Cardinality(Q!Queue') = Cardinality(Q!Queue) + 1
          /\ Cardinality(counting') = Cardinality(counting) + 1
      BY <1>1, PushAddsOne
    <3>2. size' = size /\ Q!Handling' = Q!Handling
      BY <1>1 DEF Q!Push, Q!Handling
    <3> QED
      BY <3>1, <3>2, QueueFinite, SameCardinality DEF Q!Accounting, Q!Handling, Q!TypeOK
  <2>3. Q!SnapshotBacked'
    BY <1>1 DEF Q!SnapshotBacked, Q!Push
  <2> QED
    BY <2>1, <2>2, <2>3
<1>2. ASSUME NEW t \in Threads, Q!Count(t) PROVE Q!IInv'
  <2>1. Q!TypeOK'
    BY <1>2 DEF Q!TypeOK, Q!Count
  <2>2. Q!Queue' = Q!Queue
    BY <1>2 DEF Q!Queue, Q!Count
  <2>3. Cardinality(counting') = Cardinality(counting) - 1
    BY <1>2, QueueFinite, FS_RemoveElement DEF Q!Count
  <2>4. Q!Accounting'
    BY <1>2, <2>2, <2>3, QueueFinite, SameCardinality
       DEF Q!Accounting, Q!Handling, Q!Count, Q!TypeOK
  <2>5. Q!SnapshotBacked'
    BY <1>2 DEF Q!SnapshotBacked, Q!Count, Q!TypeOK
  <2> QED
    BY <2>1, <2>4, <2>5
<1>3. CASE Q!BeginProcess
  <2>1. Q!TypeOK'
    BY <1>3 DEF Q!TypeOK, Q!BeginProcess
  <2>2. Q!Accounting'
    BY <1>3 DEF Q!Accounting, Q!Handling, Q!Queue, Q!BeginProcess
  <2>3. Q!SnapshotBacked'
    BY <1>3 DEF Q!SnapshotBacked, Q!BeginProcess, Q!TypeOK
  <2> QED
    BY <2>1, <2>2, <2>3
<1>4. ASSUME NEW t \in Threads, Q!Take(t) PROVE Q!IInv'
  <2>1. Q!TypeOK'
    BY <1>4, MaxPostsAssumption DEF Q!TypeOK, Q!Take
  <2>2. current' # NoThread /\ current = NoThread
    BY <1>4, ThreadsAssumption DEF Q!Take
  <2>3. Q!Accounting'
    <3>1. Cardinality(Q!Queue') = Cardinality(Q!Queue) - 1
      BY <1>4, TakeRemovesOne
    <3>2. size' = size /\ counting' = counting /\ Q!Handling' = Q!Handling + 1
      BY <1>4, <2>2 DEF Q!Take, Q!Handling
    <3> QED
      BY <3>1, <3>2, QueueFinite, SameCardinality DEF Q!Accounting, Q!Handling, Q!TypeOK
  <2>4. Q!SnapshotBacked'
    BY <1>4 DEF Q!SnapshotBacked, Q!Take
  <2> QED
    BY <2>1, <2>3, <2>4
<1>5. CASE Q!Drop
  <2>1. size >= 1 /\ todo >= 1
    BY <1>5 DEF Q!Drop, Q!SnapshotBacked, Q!TypeOK
  <2>2. Q!TypeOK'
    BY <1>5, <2>1 DEF Q!TypeOK, Q!Drop
  <2>3. Q!Queue' = Q!Queue /\ counting' = counting
    BY <1>5 DEF Q!Queue, Q!Drop
  <2>4. Q!Accounting'
    BY <1>5, <2>3, QueueFinite, SameCardinality DEF Q!Accounting, Q!Handling, Q!Drop, Q!TypeOK
  <2>5. Q!SnapshotBacked'
    BY <1>5, <2>1 DEF Q!SnapshotBacked, Q!Drop, Q!TypeOK
  <2> QED
    BY <2>2, <2>4, <2>5
<1>6. CASE UNCHANGED Q!vars
  BY <1>6 DEF Q!vars, Q!TypeOK, Q!Accounting, Q!SnapshotBacked, Q!Handling, Q!Queue
<1> QED
  BY <1>1, <1>2, <1>3, <1>4, <1>5, <1>6 DEF Q!Next, Q!TakeSome

\* The queue is used by its own steps only.
UsesQueue == Q!Init /\ [][Q!Next]_(Q!vars)

LEMMA QueueInvariance == UsesQueue => []Q!IInv
  BY QueueInit, QueueStep, PTL DEF UsesQueue

LEMMA QueueSpec == Q!Spec => UsesQueue
  BY PTL DEF Q!Spec, UsesQueue

\* No FIFO is dequeued past its end, and the counter is never negative.
THEOREM TypeCorrect == Q!Spec => []Q!TypeOK
  BY QueueInvariance, QueueSpec, PTL DEF Q!IInv

\* The counter and the queue never drift apart, whatever the interleaving of
\* createEvent on any number of threads and process on the loop's.
THEOREM AccountingCorrect == Q!Spec => []Q!Accounting
  BY QueueInvariance, QueueSpec, PTL DEF Q!IInv

\* process() never promises itself more than is counted.
THEOREM SnapshotCorrect == Q!Spec => []Q!SnapshotBacked
  BY QueueInvariance, QueueSpec, PTL DEF Q!IInv

\* The spin of process() is entered only when there is an item to find.
THEOREM SpinCorrect == Q!Spec => []Q!SpinFindsItem
<1>1. Q!IInv => Q!SpinFindsItem
  BY SpinLemma DEF Q!SpinFindsItem
<1> QED
  BY <1>1, QueueInvariance, QueueSpec, PTL

\* A loop that reads isIdle() = true leaves behind at most the tasks whose
\* posters have still to count them.
THEOREM IdleCorrect == Q!Spec => []Q!IdleStrandsNothing
  BY IdleLemma, QueueInvariance, QueueSpec, PTL

\* CycleQueue implements the safety of TaskExecutor: an enqueue submits, a
\* dequeue starts, the end of an iteration finishes, and the counting steps
\* change nothing that a caller is promised.
THEOREM ExecutorSafety == Q!Spec => Q!Executor!Safety
<1>1. Q!Init => Q!Executor!Init
  BY DEF Q!Init, Q!Executor!Init
<1>2. [Q!Next]_(Q!vars) => [Q!Executor!Next]_(Q!Executor!vars)
  <2> SUFFICES ASSUME [Q!Next]_(Q!vars) PROVE [Q!Executor!Next]_(Q!Executor!vars)
    OBVIOUS
  <2>1. ASSUME NEW t \in Threads, Q!Push(t) PROVE Q!Executor!Submit(t)
    BY <2>1 DEF Q!Push, Q!Executor!Submit
  <2>2. ASSUME NEW t \in Threads, Q!Take(t) PROVE Q!Executor!Start(t)
    BY <2>2 DEF Q!Take, Q!Executor!Start
  <2>3. CASE Q!Drop
    BY <2>3 DEF Q!Drop, Q!Executor!Finish, Q!Executor!Next
  <2>4. ASSUME NEW t \in Threads, Q!Count(t) PROVE UNCHANGED Q!Executor!vars
    BY <2>4 DEF Q!Count, Q!Executor!vars
  <2>5. CASE Q!BeginProcess
    BY <2>5 DEF Q!BeginProcess, Q!Executor!vars
  <2>6. CASE UNCHANGED Q!vars
    BY <2>6 DEF Q!vars, Q!Executor!vars
  <2> QED
    BY <2>1, <2>2, <2>3, <2>4, <2>5, <2>6
       DEF Q!Next, Q!TakeSome, Q!Executor!Next, Q!Executor!StartSome
<1> QED
  BY <1>1, <1>2, PTL DEF Q!Spec, Q!Executor!Safety

-----------------------------------------------------------------------------
(* The loop. *)

\* EventLoop: queueInLoop, runOnce and the tasks' own posts make the steps
\* CycleQueue has, so that what is proved of the queue holds under the loop.
LEMMA LoopUsesQueue == Spec => UsesQueue
<1>1. Init => Q!Init
  BY DEF Init
<1>2. [Next]_vars => [Q!Next]_(Q!vars)
  <2> USE DEF Q!Next, Q!vars, queueVars
  <2>1. ASSUME NEW t \in Threads, Post(t) PROVE Q!Next
    BY <2>1 DEF Post
  <2>2. ASSUME NEW t \in Threads, CountPost(t) PROVE Q!Next
    BY <2>2 DEF CountPost
  <2>3. ASSUME NEW t \in Threads, Wakeup(t) \/ Stop(t) PROVE UNCHANGED Q!vars
    BY <2>3 DEF Wakeup, Stop
  <2>4. RunStarting \/ SetTimer \/ Timeout \/ Event => UNCHANGED Q!vars
    BY DEF RunStarting, SetTimer, Timeout, Event
  <2>5. RunRunning \/ RunOnce \/ RunStopped \/ IdleBlocks \/ FireOverdue \/ NoneOverdue
        \/ RecheckQueue \/ BoundBlock \/ EventHandled \/ WaitOn \/ Woken \/ FireTimer
        \/ TimerHandled \/ TimersDone \/ NoCycle => UNCHANGED Q!vars
    BY DEF RunRunning, RunOnce, RunStopped, IdleBlocks, FireOverdue, NoneOverdue,
       RecheckQueue, BoundBlock, EventHandled, WaitOn, Woken, FireTimer, TimerHandled,
       TimersDone, NoCycle
  <2>6. BeginCycle \/ TakeTask \/ TaskHandled => Q!Next
    BY DEF BeginCycle, TakeTask, TaskHandled
  <2>7. UNCHANGED vars => UNCHANGED Q!vars
    BY DEF vars
  <2> QED BY <2>1, <2>2, <2>3, <2>4, <2>5, <2>6, <2>7 DEF Next, LoopStep
<1> QED BY <1>1, <1>2, PTL DEF Spec, UsesQueue

\* EventLoop: whatever the loop does between two steps of its queue, and whoever
\* posts, the counter keeps up with what is queued.
THEOREM LoopAccounting == Spec => []Accounting
<1>1. Q!IInv => Accounting
  BY DEF Q!IInv, Accounting
<1> QED BY <1>1, LoopUsesQueue, QueueInvariance, PTL

\* EventLoop: the loop never spins in process() on an empty queue.
THEOREM LoopFindsItem == Spec => []Q!SpinFindsItem
<1>1. Q!IInv => Q!SpinFindsItem
  BY SpinLemma DEF Q!SpinFindsItem
<1> QED BY <1>1, LoopUsesQueue, QueueInvariance, PTL

-----------------------------------------------------------------------------
Numbers == size \in Int /\ own \in Int /\ wake \in Nat

\* TimerEventManager::process is called from runOnce or calculationBlocktime.
TimersReturn == after \in {"recheck", "choose"}

\* The loop's thread posts only where it runs code of its user, and leaves that
\* only when its post is counted.
PostsInHandlers == Loop \in counting => InHandler

\* A wakeup was posted, or a thread is about to post it.
WakeupComes == wake > 0 \/ waking # {}

\* WakeupNotLost, from the last look at the queue on.
TaskOwesWakeup ==
    /\ backend = "iocp"
    /\ \/ lpc = "bound" /\ size > 0
       \/ lpc \in {"poll", "io"} /\ block # "zero" /\ size > own
    => WakeupComes

\* The loop is on its way to a wait, or in it, and does not look at its status.
BoundToWait ==
    \/ lpc \in {"blocktime", "recheck", "bound", "poll", "io"}
    \/ lpc \in {"fire", "fired"} /\ after = "recheck"

\* StopNotSleptThrough, from the last look at the status on.
StopOwesWakeup ==
    backend = "iocp" /\ BoundToWait /\ status = "Stopping" =>
        WakeupComes \/ Loop \in stoppers

\* The inductive invariant.
IInv == Numbers /\ TimersReturn /\ PostsInHandlers /\ TaskOwesWakeup /\ StopOwesWakeup

LEMMA InitIInv == Init => IInv
  BY DEF Init, Q!Init, IInv, Numbers, TimersReturn, PostsInHandlers, TaskOwesWakeup, BoundToWait,
     StopOwesWakeup

\* What any thread does.
LEMMA ThreadSteps ==
    ASSUME IInv, NEW t \in Threads, Post(t) \/ CountPost(t) \/ Wakeup(t) \/ Stop(t)
    PROVE  IInv'
<1> USE DEF IInv, Numbers, TimersReturn, PostsInHandlers, TaskOwesWakeup, WakeupComes, BoundToWait,
        StopOwesWakeup, InHandler, queueVars, loopVars
<1>1. CASE Post(t)
  BY <1>1 DEF Post, Q!Push
<1>2. CASE CountPost(t) /\ t = Loop
  <2>1. /\ Loop \in counting /\ counting' = counting \ {Loop} /\ size' = size + 1
        /\ own' = IF lpc = "io" THEN own + 1 ELSE own
        /\ UNCHANGED <<current, status, lpc, after, block, waking, wake, stoppers, backend>>
    BY <1>2 DEF CountPost, Q!Count
  <2>2. InHandler
    BY <2>1
  <2> QED BY <2>1, <2>2
<1>3. CASE CountPost(t) /\ t # Loop
  <2>1. /\ counting' = counting \ {t} /\ size' = size + 1 /\ own' = own
        /\ waking' = waking \cup {t}
        /\ UNCHANGED <<current, status, lpc, after, block, wake, stoppers, backend>>
    BY <1>3 DEF CountPost, Q!Count
  <2> QED BY <2>1
<1>4. CASE Wakeup(t)
  BY <1>4 DEF Wakeup
<1>5. CASE Stop(t)
  BY <1>5 DEF Stop
<1> QED BY <1>1, <1>2, <1>3, <1>4, <1>5

\* What the loop's thread does in calculationBlocktime and in the wait.
LEMMA WaitSteps ==
    ASSUME IInv, IdleBlocks \/ FireOverdue \/ NoneOverdue \/ RecheckQueue \/ BoundBlock
                 \/ Timeout \/ Event \/ EventHandled \/ WaitOn \/ Woken
    PROVE  IInv'
<1> USE DEF IInv, Numbers, TimersReturn, PostsInHandlers, TaskOwesWakeup, WakeupComes, BoundToWait,
        StopOwesWakeup, InHandler, queueVars, Goto, LoopFree, EnterPoll, LeavePoll,
        isIdle, Q!isIdle
<1>1. CASE IdleBlocks
  BY <1>1 DEF IdleBlocks
<1>2. CASE FireOverdue
  BY <1>2 DEF FireOverdue
<1>3. CASE NoneOverdue
  BY <1>3 DEF NoneOverdue
<1>4. CASE RecheckQueue
  BY <1>4 DEF RecheckQueue
<1>5. CASE BoundBlock
  BY <1>5 DEF BoundBlock
<1>6. CASE Timeout
  BY <1>6 DEF Timeout
<1>7. CASE Event
  BY <1>7 DEF Event
<1>8. CASE EventHandled
  BY <1>8 DEF EventHandled
<1>9. CASE WaitOn
  BY <1>9 DEF WaitOn
<1>10. CASE Woken
  BY <1>10 DEF Woken
<1> QED BY <1>1, <1>2, <1>3, <1>4, <1>5, <1>6, <1>7, <1>8, <1>9, <1>10

\* What it does in run, with its timers and in the cycle.
LEMMA RunSteps ==
    ASSUME IInv, RunStarting \/ RunRunning \/ RunOnce \/ RunStopped \/ SetTimer
                 \/ FireTimer \/ TimerHandled \/ TimersDone
                 \/ NoCycle \/ BeginCycle \/ TakeTask \/ TaskHandled
    PROVE  IInv'
<1> USE DEF IInv, Numbers, TimersReturn, PostsInHandlers, TaskOwesWakeup, WakeupComes, BoundToWait,
        StopOwesWakeup, InHandler, queueVars, loopVars, Goto, LoopFree
<1>1. CASE RunStarting \/ RunRunning \/ RunStopped
  BY <1>1 DEF RunStarting, RunRunning, RunStopped
<1>2. CASE RunOnce
  BY <1>2 DEF RunOnce
<1>3. CASE SetTimer
  BY <1>3 DEF SetTimer
<1>4. CASE FireTimer \/ TimerHandled
  BY <1>4 DEF FireTimer, TimerHandled
<1>5. CASE TimersDone
  BY <1>5 DEF TimersDone
<1>6. CASE NoCycle
  BY <1>6 DEF NoCycle
<1>7. CASE BeginCycle
  BY <1>7 DEF BeginCycle, Q!BeginProcess
<1>8. CASE TakeTask
  BY <1>8 DEF TakeTask, Q!TakeSome, Q!Take
<1>9. CASE TaskHandled
  BY <1>9 DEF TaskHandled, Q!Drop
<1> QED BY <1>1, <1>2, <1>3, <1>4, <1>5, <1>6, <1>7, <1>8, <1>9

LEMMA StepIInv == IInv /\ [Next]_vars => IInv'
<1> SUFFICES ASSUME IInv, [Next]_vars PROVE IInv'
  OBVIOUS
<1>1. CASE UNCHANGED vars
  BY <1>1 DEF vars, queueVars, loopVars, IInv, Numbers, TimersReturn, PostsInHandlers, TaskOwesWakeup,
     WakeupComes, BoundToWait, StopOwesWakeup, InHandler
<1> QED BY <1>1, ThreadSteps, WaitSteps, RunSteps DEF Next, LoopStep

LEMMA Invariance == Spec => []IInv
  BY InitIInv, StepIInv, PTL DEF Spec

\* EventLoop, with IOCP: a task another thread has counted never finds the loop
\* asleep without a wakeup that is there or about to be posted, however the reads
\* of calculationBlocktime fall between the posts.
THEOREM WakeupCorrect == Spec => []WakeupNotLost
<1>1. IInv => WakeupNotLost
  BY DEF IInv, TaskOwesWakeup, WakeupComes, WakeupNotLost, Asleep
<1> QED BY <1>1, Invariance, PTL

\* EventLoop, with IOCP: nor does a stop of another thread.
THEOREM StopWakesCorrect == Spec => []StopNotSleptThrough
<1>1. IInv => StopNotSleptThrough
  BY DEF IInv, StopOwesWakeup, BoundToWait, WakeupComes, StopNotSleptThrough, Asleep
<1> QED BY <1>1, Invariance, PTL

-----------------------------------------------------------------------------
(* The timers: TimerSet, for any timers, delays and times. *)

\* Later timers are behind earlier ones, and no two have the same time.
Sorted(s, due) == \A i, j \in 1 .. Len(s) : i < j => due[s[i]] < due[s[j]]

\* A timer is in one place: waiting in the queue of tasks, once in the set, or in
\* its handler; and one of runAfter that has fired is nowhere.
OnePlace ==
    /\ \A i, j \in 1 .. Len(timerSet) : timerSet[i] = timerSet[j] => i = j
    /\ posted \cap InSet = {}
    /\ pc = "handler" => firing \in created \ (posted \cup InSet)
    /\ \A t \in Timers \ created : fired[t] = 0
    /\ \A t \in Once : fired[t] = 0 \/ (fired[t] = 1 /\ t \notin posted \cup InSet)

\* What a pass has left behind it was not due before this instant.
LeftBehind ==
    pc # "out" =>
        \A t \in InSet : (it = End \/ timeout[t] < timeout[it]) => now <= timeout[t]

\* The inductive invariant.  The order of the set, and with it what a pass does,
\* is lost when a timer changes its time in the set, as those of runEvery do.
TimerIInv ==
    /\ TimerTypeOK
    /\ IteratorValid
    /\ OnePlace
    /\ created \cap Every = {} => Sorted(timerSet, timeout) /\ LeftBehind

\* A sequence behind another one.
LEMMA Joined ==
    ASSUME NEW S, NEW s \in Seq(S), NEW t \in Seq(S)
    PROVE  /\ s \o t \in Seq(S) /\ Len(s \o t) = Len(s) + Len(t)
           /\ Len(s) \in Nat /\ Len(t) \in Nat
           /\ \A j \in 1 .. Len(s) : (s \o t)[j] = s[j]
           /\ \A j \in 1 .. Len(t) : (s \o t)[Len(s) + j] = t[j]
<1>1. Len(s) \in Nat /\ Len(t) \in Nat
  BY LenProperties
<1>2. /\ s \o t \in Seq(S) /\ Len(s \o t) = Len(s) + Len(t)
      /\ \A i \in 1 .. Len(s) + Len(t) :
            (s \o t)[i] = IF i <= Len(s) THEN s[i] ELSE t[i - Len(s)]
  BY ConcatProperties
<1>3. ASSUME NEW j \in 1 .. Len(t) PROVE (s \o t)[Len(s) + j] = t[j]
  <2>1. Len(s) + j \in 1 .. Len(s) + Len(t) /\ ~(Len(s) + j <= Len(s)) /\ Len(s) + j - Len(s) = j
    BY <1>1
  <2> QED BY <1>2, <2>1
<1>4. \A j \in 1 .. Len(s) : j \in 1 .. Len(s) + Len(t) /\ j <= Len(s)
  BY <1>1
<1> QED BY <1>1, <1>2, <1>3, <1>4

\* The first n elements and the others.
LEMMA Parted ==
    ASSUME NEW S, NEW s \in Seq(S), NEW n \in 0 .. Len(s)
    PROVE  /\ SubSeq(s, 1, n) \in Seq(S) /\ Len(SubSeq(s, 1, n)) = n
           /\ \A j \in 1 .. n : SubSeq(s, 1, n)[j] = s[j]
           /\ SubSeq(s, n + 1, Len(s)) \in Seq(S) /\ Len(SubSeq(s, n + 1, Len(s))) = Len(s) - n
           /\ \A j \in 1 .. Len(s) - n : SubSeq(s, n + 1, Len(s))[j] = s[n + j]
<1> DEFINE l == Len(s)
<1>1. l \in Nat /\ \A i \in 1 .. l : s[i] \in S
  BY LenProperties, ElementOfSeq
<1> HIDE DEF l
<1>2. /\ SubSeq(s, 1, n) \in Seq(S) /\ Len(SubSeq(s, 1, n)) = IF 1 <= n THEN n - 1 + 1 ELSE 0
      /\ \A i \in 1 .. n - 1 + 1 : SubSeq(s, 1, n)[i] = s[1 + i - 1]
  <2>1. \A i \in 1 .. n : s[i] \in S
    BY <1>1 DEF l
  <2> QED BY <1>1, <2>1, SubSeqProperties DEF l
<1>3. /\ SubSeq(s, n + 1, l) \in Seq(S)
      /\ Len(SubSeq(s, n + 1, l)) = IF n + 1 <= l THEN l - (n + 1) + 1 ELSE 0
      /\ \A i \in 1 .. l - (n + 1) + 1 : SubSeq(s, n + 1, l)[i] = s[n + 1 + i - 1]
  <2>1. \A i \in n + 1 .. l : s[i] \in S
    BY <1>1 DEF l
  <2>2. n + 1 \in Int
    BY <1>1 DEF l
  <2> QED BY <1>1, <2>1, <2>2, SubSeqProperties
<1>4. n \in 0 .. l
  BY DEF l
<1>5. ASSUME NEW j \in 1 .. n PROVE SubSeq(s, 1, n)[j] = s[j]
  <2>1. j \in 1 .. n - 1 + 1 /\ 1 + j - 1 = j
    BY <1>1, <1>4
  <2> QED BY <1>2, <2>1
<1>6. ASSUME NEW j \in 1 .. l - n PROVE SubSeq(s, n + 1, l)[j] = s[n + j]
  <2>1. j \in 1 .. l - (n + 1) + 1 /\ n + 1 + j - 1 = n + j
    BY <1>1, <1>4
  <2> QED BY <1>3, <2>1
<1>7. Len(SubSeq(s, 1, n)) = n /\ Len(SubSeq(s, n + 1, l)) = l - n
  BY <1>1, <1>2, <1>3, <1>4
<1> QED BY <1>2, <1>3, <1>5, <1>6, <1>7 DEF l

\* r is s with t at place p.
With(r, s, p, t) ==
    /\ Len(r) = Len(s) + 1
    /\ \A i \in 1 .. p - 1 : r[i] = s[i]
    /\ r[p] = t
    /\ \A i \in p .. Len(s) : r[i + 1] = s[i]

\* What an insertion and a removal make of a sequence, place by place.
LEMMA Inserted ==
    ASSUME NEW S, NEW s \in Seq(S), NEW e \in S, NEW p \in 1 .. Len(s) + 1
    PROVE  InsertAt(s, p, e) \in Seq(S) /\ With(InsertAt(s, p, e), s, p, e)
<1>1. Len(s) \in Nat
  BY LenProperties
<1> DEFINE n == p - 1
           front == SubSeq(s, 1, n)
           back == SubSeq(s, n + 1, Len(s))
           first == front \o <<e>>
<1>2. n \in 0 .. Len(s) /\ n + 1 = p
  BY <1>1
<1>3. InsertAt(s, p, e) = first \o back
  BY <1>2 DEF InsertAt
<1> HIDE DEF n
<1>4. /\ front \in Seq(S) /\ Len(front) = n
      /\ \A j \in 1 .. n : front[j] = s[j]
      /\ back \in Seq(S) /\ Len(back) = Len(s) - n
      /\ \A j \in 1 .. Len(s) - n : back[j] = s[n + j]
  BY <1>2, Parted
<1>5. <<e>> \in Seq(S) /\ Len(<<e>>) = 1 /\ <<e>>[1] = e
  OBVIOUS
<1> HIDE DEF front, back
<1>6. /\ first \in Seq(S) /\ Len(first) = n + 1
      /\ \A j \in 1 .. n : first[j] = s[j]
      /\ first[n + 1] = e
  <2>1. /\ first \in Seq(S) /\ Len(first) = Len(front) + Len(<<e>>)
        /\ \A j \in 1 .. Len(front) : first[j] = front[j]
        /\ \A j \in 1 .. Len(<<e>>) : first[Len(front) + j] = <<e>>[j]
    BY <1>4, <1>5, Joined
  <2>2. 1 \in 1 .. Len(<<e>>)
    BY <1>5
  <2> QED BY <2>1, <2>2, <1>4, <1>5
<1> HIDE DEF first
<1>7. /\ first \o back \in Seq(S) /\ Len(first \o back) = Len(first) + Len(back)
      /\ \A j \in 1 .. Len(first) : (first \o back)[j] = first[j]
      /\ \A j \in 1 .. Len(back) : (first \o back)[Len(first) + j] = back[j]
  <2>1. first \in Seq(S) /\ back \in Seq(S)
    BY <1>4, <1>6
  <2> QED BY ONLY <2>1, Joined
<1>8. \A i \in 1 .. p - 1 : (first \o back)[i] = s[i]
  BY <1>2, <1>6, <1>7
<1>9. (first \o back)[p] = e
  BY <1>2, <1>6, <1>7
<1>10. ASSUME NEW i \in p .. Len(s) PROVE (first \o back)[i + 1] = s[i]
  <2>1. i - n \in 1 .. Len(back) /\ n + (i - n) = i /\ Len(first) + (i - n) = i + 1
    BY <1>1, <1>2, <1>4, <1>6
  <2>2. (first \o back)[Len(first) + (i - n)] = back[i - n] /\ back[i - n] = s[n + (i - n)]
    BY <1>4, <1>7, <2>1
  <2> QED BY <2>1, <2>2
<1>11. Len(first \o back) = Len(s) + 1
  BY <1>1, <1>2, <1>4, <1>6, <1>7
<1>12. With(first \o back, s, p, e)
  BY <1>8, <1>9, <1>10, <1>11 DEF With
<1> QED BY <1>3, <1>7, <1>12

LEMMA Removed ==
    ASSUME NEW S, NEW s \in Seq(S), NEW p \in 1 .. Len(s)
    PROVE  /\ RemoveAt(s, p) \in Seq(S)
           /\ Len(RemoveAt(s, p)) = Len(s) - 1
           /\ \A i \in 1 .. p - 1 : RemoveAt(s, p)[i] = s[i]
           /\ \A i \in p + 1 .. Len(s) : RemoveAt(s, p)[i - 1] = s[i]
<1>1. Len(s) \in Nat
  BY LenProperties
<1> DEFINE front == SubSeq(s, 1, p - 1)
           back == SubSeq(s, p + 1, Len(s))
<1>2. p - 1 \in 0 .. Len(s) /\ p \in 0 .. Len(s) /\ p \in Nat
  BY <1>1
<1>3. /\ front \in Seq(S) /\ Len(front) = p - 1
      /\ \A j \in 1 .. p - 1 : front[j] = s[j]
  BY <1>2, Parted
<1>4. /\ back \in Seq(S) /\ Len(back) = Len(s) - p
      /\ \A j \in 1 .. Len(s) - p : back[j] = s[p + j]
  BY <1>2, Parted
<1>5. RemoveAt(s, p) = front \o back
  BY DEF RemoveAt
<1> HIDE DEF front, back
<1>6. /\ front \o back \in Seq(S) /\ Len(front \o back) = Len(front) + Len(back)
      /\ \A j \in 1 .. Len(front) : (front \o back)[j] = front[j]
      /\ \A j \in 1 .. Len(back) : (front \o back)[Len(front) + j] = back[j]
  <2>1. front \in Seq(S) /\ back \in Seq(S)
    BY <1>3, <1>4
  <2> QED BY ONLY <2>1, Joined
<1>7. Len(front \o back) = Len(s) - 1
  BY <1>1, <1>2, <1>3, <1>4, <1>6
<1>8. \A i \in 1 .. p - 1 : (front \o back)[i] = s[i]
  BY <1>2, <1>3, <1>6
<1>9. ASSUME NEW i \in p + 1 .. Len(s) PROVE (front \o back)[i - 1] = s[i]
  <2>1. i - p \in 1 .. Len(back) /\ p + (i - p) = i /\ Len(front) + (i - p) = i - 1
    BY <1>1, <1>2, <1>3, <1>4
  <2>2. (front \o back)[Len(front) + (i - p)] = back[i - p] /\ back[i - p] = s[p + (i - p)]
    BY <1>4, <1>6, <2>1
  <2> QED BY <2>1, <2>2
<1> QED BY <1>5, <1>6, <1>7, <1>8, <1>9

\* A set of numbers that is not empty has a least one, and it is Min.
LEMMA LeastOf ==
    ASSUME NEW S \in SUBSET Nat, S # {}
    PROVE  Min(S) \in S /\ \A n \in S : Min(S) <= n
<1> DEFINE Lt == {ss \in Nat \X Nat : ss[1] < ss[2]}
<1>1. IsWellFoundedOn(Lt, Nat)
  BY NatLessThanWellFounded DEF OpToRel
<1>2. PICK n \in S : \A m \in S : ~(<<m, n>> \in Lt)
  BY <1>1, WFMin
<1>3. \A m \in S : n <= m
  <2> TAKE m \in S
  <2>1. ~(m < n)
    BY <1>2
  <2> QED BY <2>1
<1> QED BY <1>3 DEF Min

\* The iterator's place is found.
LEMMA Placed ==
    ASSUME NEW S, timerSet \in Seq(S), NEW t \in InSet
    PROVE  Place(t) \in 1 .. Len(timerSet) /\ timerSet[Place(t)] = t
<1> DEFINE places == {i \in 1 .. Len(timerSet) : timerSet[i] = t}
<1>1. places \in SUBSET Nat /\ places # {}
  BY LenProperties DEF InSet
<1>2. Place(t) = Min(places)
  BY <1>1 DEF Place, SelectInSeq
<1> HIDE DEF places
<1>3. Place(t) \in places
  BY <1>1, <1>2, LeastOf
<1> QED BY <1>3 DEF places

\* The place for key k: what is before it is earlier, what is behind it is later.
Between(s, p, k) ==
    /\ p > 1 => timeout[s[p - 1]] <= k /\ timeout[s[p - 1]] # k
    /\ p <= Len(s) => k < timeout[s[p]]

\* What emplace makes of a set: the same set, or one with the timer behind those
\* that are earlier and before those that are later.
LEMMA EmplacedAt ==
    ASSUME NEW S, NEW s \in Seq(S), NEW t \in S, NEW k, NEW r \in Emplaced(s, t, k)
    PROVE  /\ r \in Seq(S)
           /\ r = s \/ \E p \in 1 .. Len(s) + 1 : Between(s, p, k) /\ With(r, s, p, t)
<1>1. PICK p \in Gaps(s, k) : r = IF p > 1 /\ timeout[s[p - 1]] = k THEN s ELSE InsertAt(s, p, t)
  BY DEF Emplaced
<1>2. /\ p \in 1 .. Len(s) + 1
      /\ p > 1 => timeout[s[p - 1]] <= k
      /\ p <= Len(s) => k < timeout[s[p]]
  BY DEF Gaps
<1>3. CASE p > 1 /\ timeout[s[p - 1]] = k
  BY <1>1, <1>3
<1>4. CASE ~(p > 1 /\ timeout[s[p - 1]] = k)
  <2>1. r = InsertAt(s, p, t)
    BY <1>1, <1>4
  <2>2. r \in Seq(S) /\ With(r, s, p, t)
    BY <2>1, <1>2, Inserted
  <2>3. Between(s, p, k)
    BY <1>2, <1>4 DEF Between
  <2> QED BY <1>2, <2>2, <2>3
<1> QED BY <1>3, <1>4

\* Where the elements of a sequence with one more are from.
LEMMA OneMore ==
    ASSUME NEW n \in Nat, NEW p \in 1 .. n + 1, NEW j \in 1 .. n + 1
    PROVE  \/ j \in 1 .. p - 1 /\ j \in 1 .. n
           \/ j = p
           \/ j - 1 \in p .. n /\ j - 1 \in 1 .. n /\ (j - 1) + 1 = j
OBVIOUS

\* The timer that is added is in the set or is not, and all others stay.
LEMMA Added ==
    ASSUME NEW S, timerSet \in Seq(S), NEW t \in S, NEW k, timerSet' \in Emplaced(timerSet, t, k)
    PROVE  /\ timerSet' \in Seq(S)
           /\ InSet \subseteq InSet' /\ InSet' \subseteq InSet \cup {t}
<1>1. Len(timerSet) \in Nat /\ DOMAIN timerSet = 1 .. Len(timerSet)
  BY LenProperties
<1>2. timerSet' \in Seq(S)
  BY EmplacedAt
<1>3. CASE timerSet' = timerSet
  BY <1>3 DEF InSet
<1>4. ASSUME timerSet' # timerSet
      PROVE  InSet \subseteq InSet' /\ InSet' \subseteq InSet \cup {t}
  <2>1. PICK p \in 1 .. Len(timerSet) + 1 : With(timerSet', timerSet, p, t)
    BY <1>4, EmplacedAt
  <2> USE DEF With
  <2>2. DOMAIN timerSet' = 1 .. Len(timerSet) + 1
    BY <1>1, <1>2, <2>1, LenProperties
  <2>3. ASSUME NEW i \in 1 .. Len(timerSet) PROVE timerSet[i] \in InSet'
    <3>1. CASE i < p
      <4>1. i \in 1 .. p - 1 /\ i \in DOMAIN timerSet'
        BY <1>1, <2>2, <3>1
      <4> QED BY <4>1, <2>1 DEF InSet
    <3>2. CASE ~(i < p)
      <4>1. i \in p .. Len(timerSet) /\ i + 1 \in DOMAIN timerSet'
        BY <1>1, <2>2, <3>2
      <4> QED BY <4>1, <2>1 DEF InSet
    <3> QED BY <3>1, <3>2
  <2>4. ASSUME NEW j \in 1 .. Len(timerSet) + 1 PROVE timerSet'[j] \in InSet \cup {t}
    <3>1. \/ j \in 1 .. p - 1 /\ j \in 1 .. Len(timerSet)
          \/ j = p
          \/ j - 1 \in p .. Len(timerSet) /\ j - 1 \in 1 .. Len(timerSet) /\ (j - 1) + 1 = j
      BY <1>1, OneMore
    <3>2. CASE j \in 1 .. p - 1 /\ j \in 1 .. Len(timerSet)
      BY <3>2, <1>1, <2>1 DEF InSet
    <3>3. CASE j = p
      BY <3>3, <2>1
    <3>4. CASE j - 1 \in p .. Len(timerSet) /\ j - 1 \in 1 .. Len(timerSet) /\ (j - 1) + 1 = j
      <4>1. timerSet'[(j - 1) + 1] = timerSet[j - 1]
        BY <3>4, <2>1
      <4> QED BY <4>1, <3>4, <1>1 DEF InSet
    <3> QED BY <3>1, <3>2, <3>3, <3>4
  <2>5. InSet \subseteq InSet'
    BY <1>1, <2>3 DEF InSet
  <2>6. InSet' \subseteq InSet \cup {t}
    BY <2>2, <2>4 DEF InSet
  <2> QED BY <2>5, <2>6
<1> QED BY <1>2, <1>3, <1>4

\* Nor does a timer that was not in the set come into it twice.
LEMMA AddedOnce ==
    ASSUME NEW S, timerSet \in Seq(S), NEW t \in S, NEW k, timerSet' \in Emplaced(timerSet, t, k),
           t \notin InSet,
           \A i, j \in 1 .. Len(timerSet) : timerSet[i] = timerSet[j] => i = j
    PROVE  \A i, j \in 1 .. Len(timerSet') : timerSet'[i] = timerSet'[j] => i = j
<1>1. Len(timerSet) \in Nat /\ \A i \in 1 .. Len(timerSet) : timerSet[i] # t
  BY LenProperties DEF InSet
<1>2. CASE timerSet' = timerSet
  BY <1>2
<1>3. ASSUME timerSet' # timerSet, NEW i \in 1 .. Len(timerSet'), NEW j \in 1 .. Len(timerSet'),
             timerSet'[i] = timerSet'[j]
      PROVE  i = j
  <2>1. PICK p \in 1 .. Len(timerSet) + 1 : With(timerSet', timerSet, p, t)
    BY <1>3, EmplacedAt
  <2> USE DEF With
  <2> DEFINE Old(n, m) ==
        /\ m \in 1 .. Len(timerSet) /\ timerSet'[n] = timerSet[m]
        /\ \/ n < p /\ m = n
           \/ p < n /\ n = m + 1
  <2>2. ASSUME NEW n \in 1 .. Len(timerSet) + 1 PROVE n = p \/ Old(n, n) \/ Old(n, n - 1)
    <3>1. \/ n \in 1 .. p - 1 /\ n \in 1 .. Len(timerSet)
          \/ n = p
          \/ n - 1 \in p .. Len(timerSet) /\ n - 1 \in 1 .. Len(timerSet) /\ (n - 1) + 1 = n
      BY <1>1, OneMore
    <3>2. CASE n \in 1 .. p - 1 /\ n \in 1 .. Len(timerSet)
      BY <3>2, <2>1
    <3>3. CASE n - 1 \in p .. Len(timerSet) /\ n - 1 \in 1 .. Len(timerSet) /\ (n - 1) + 1 = n
      <4>1. timerSet'[(n - 1) + 1] = timerSet[n - 1]
        BY <3>3, <2>1
      <4>2. p < n
        BY <3>3, <1>1
      <4> QED BY <4>1, <4>2, <3>3
    <3> QED BY <3>1, <3>2, <3>3
  <2>3. i \in 1 .. Len(timerSet) + 1 /\ j \in 1 .. Len(timerSet) + 1
    BY <2>1
  <2>4. (i = p \/ \E m \in {i, i - 1} : Old(i, m)) /\ (j = p \/ \E m \in {j, j - 1} : Old(j, m))
    BY <2>2, <2>3
  <2>5. CASE i = p
    <3>1. timerSet'[j] = t
      BY <2>5, <2>1, <1>3
    <3>2. j = p
      BY <3>1, <2>4, <1>1
    <3> QED BY <2>5, <3>2
  <2>6. CASE j = p
    <3>1. timerSet'[i] = t
      BY <2>6, <2>1, <1>3
    <3>2. i = p
      BY <3>1, <2>4, <1>1
    <3> QED BY <2>6, <3>2
  <2>7. CASE i # p /\ j # p
    <3>1. PICK m \in {i, i - 1} : Old(i, m)
      BY <2>4, <2>7
    <3>2. PICK n \in {j, j - 1} : Old(j, n)
      BY <2>4, <2>7
    <3>3. m \in 1 .. Len(timerSet) /\ n \in 1 .. Len(timerSet) /\ timerSet[m] = timerSet[n]
      BY <3>1, <3>2, <1>3
    <3>4. m = n
      BY <3>3
    <3> QED BY <3>1, <3>2, <3>4, <1>1, <2>3
  <2> QED BY <2>5, <2>6, <2>7
<1> QED BY <1>2, <1>3

\* A set that is in order stays in order: due is the timers' time when the timer is in.
LEMMA AddedInOrder ==
    ASSUME timerSet \in Seq(Timers), NEW t \in Timers, NEW k \in Nat,
           timerSet' \in Emplaced(timerSet, t, k),
           timeout \in [Timers -> Nat], Sorted(timerSet, timeout),
           NEW due, due[t] = k, \A u \in InSet : due[u] = timeout[u]
    PROVE  Sorted(timerSet', due)
<1>1. /\ Len(timerSet) \in Nat
      /\ \A i \in 1 .. Len(timerSet) :
            timerSet[i] \in Timers /\ due[timerSet[i]] = timeout[timerSet[i]] /\ timeout[timerSet[i]] \in Nat
  <2>1. Len(timerSet) \in Nat /\ DOMAIN timerSet = 1 .. Len(timerSet)
    BY LenProperties
  <2>2. \A i \in 1 .. Len(timerSet) : timerSet[i] \in Timers /\ timerSet[i] \in InSet
    BY <2>1, ElementOfSeq DEF InSet
  <2> QED BY <2>1, <2>2
<1>2. CASE timerSet' = timerSet
  BY <1>1, <1>2 DEF Sorted
<1>3. ASSUME timerSet' # timerSet, NEW i \in 1 .. Len(timerSet'), NEW j \in 1 .. Len(timerSet'), i < j
      PROVE  due[timerSet'[i]] < due[timerSet'[j]]
  <2>1. PICK p \in 1 .. Len(timerSet) + 1 :
            Between(timerSet, p, k) /\ With(timerSet', timerSet, p, t)
    BY <1>3, EmplacedAt
  <2> USE DEF With, Between
  <2> DEFINE n == Len(timerSet)
             key == [m \in 1 .. n |-> timeout[timerSet[m]]]
             new == [m \in 1 .. n + 1 |-> due[timerSet'[m]]]
  <2>2. n \in Nat /\ p \in 1 .. n + 1 /\ key \in [1 .. n -> Nat]
    BY <1>1
  <2>3. \A m, l \in 1 .. n : m < l => key[m] < key[l]
    BY DEF Sorted
  <2>4. \A m \in 1 .. p - 1 : new[m] = key[m]
    <3>1. \A m \in 1 .. p - 1 : m \in 1 .. n /\ m \in 1 .. n + 1
      BY <2>2
    <3> QED BY <3>1, <1>1, <2>1
  <2>5. new[p] = k
    BY <2>1
  <2>6. \A m \in p .. n : new[m + 1] = key[m]
    <3>1. \A m \in p .. n : m \in 1 .. n /\ m + 1 \in 1 .. n + 1
      BY <2>2
    <3> QED BY <3>1, <1>1, <2>1
  <2>7. (p > 1 => key[p - 1] < k) /\ (p <= n => k < key[p])
    <3>1. CASE p > 1
      <4>1. p - 1 \in 1 .. n
        BY <3>1, <2>2
      <4> QED BY <4>1, <3>1, <2>1, <1>1
    <3>2. CASE ~(p > 1)
      BY <3>2, <2>1
    <3> QED BY <3>1, <3>2, <2>1
  <2>8. i \in 1 .. n + 1 /\ j \in 1 .. n + 1
    BY <2>1
  <2> HIDE DEF n, key, new
  <2>9. new[i] < new[j]
    <3>1. CASE j < p
      <4>1. i \in 1 .. p - 1 /\ j \in 1 .. p - 1 /\ i \in 1 .. n /\ j \in 1 .. n
        BY <3>1, <2>2, <2>8, <1>3
      <4> QED BY <4>1, <2>3, <2>4, <1>3
    <3>2. CASE j = p
      <4>1. i \in 1 .. p - 1 /\ i \in 1 .. n /\ p - 1 \in 1 .. n /\ p > 1
        BY <3>2, <2>2, <2>8, <1>3
      <4>2. new[i] = key[i] /\ new[j] = k /\ key[p - 1] < k
        BY <4>1, <3>2, <2>4, <2>5, <2>7
      <4>3. i = p - 1 \/ key[i] < key[p - 1]
        BY <4>1, <2>3
      <4> QED BY <4>1, <4>2, <4>3, <2>2
    <3>3. CASE i = p
      <4>1. j - 1 \in p .. n /\ (j - 1) + 1 = j /\ p \in 1 .. n /\ j - 1 \in 1 .. n
        BY <3>3, <2>2, <2>8, <1>3
      <4>2. new[(j - 1) + 1] = key[j - 1]
        BY <4>1, <2>6
      <4>3. new[j] = key[j - 1] /\ new[i] = k /\ k < key[p]
        BY <4>1, <4>2, <3>3, <2>5, <2>7
      <4>4. p = j - 1 \/ key[p] < key[j - 1]
        BY <4>1, <2>3
      <4> QED BY <4>1, <4>3, <4>4, <2>2
    <3>4. CASE i < p /\ p < j
      <4>1. /\ i \in 1 .. p - 1 /\ i \in 1 .. n /\ j - 1 \in p .. n /\ j - 1 \in 1 .. n /\ i < j - 1
            /\ (j - 1) + 1 = j
        BY <3>4, <2>2, <2>8
      <4>2. new[(j - 1) + 1] = key[j - 1]
        BY <4>1, <2>6
      <4>3. new[i] = key[i] /\ new[j] = key[j - 1]
        BY <4>1, <4>2, <2>4
      <4> QED BY <4>1, <4>3, <2>3
    <3>5. CASE p < i
      <4>1. /\ i - 1 \in p .. n /\ i - 1 \in 1 .. n /\ j - 1 \in p .. n /\ j - 1 \in 1 .. n
            /\ i - 1 < j - 1 /\ (j - 1) + 1 = j /\ (i - 1) + 1 = i
        BY <3>5, <2>2, <2>8, <1>3
      <4>2. new[(j - 1) + 1] = key[j - 1] /\ new[(i - 1) + 1] = key[i - 1]
        BY <4>1, <2>6
      <4> QED BY <4>1, <4>2, <2>3
    <3> QED BY <3>1, <3>2, <3>3, <3>4, <3>5, <2>8, <1>3
  <2> QED BY <2>8, <2>9 DEF new
<1> QED BY <1>2, <1>3 DEF Sorted

\* The timers of the set are created, and End is no timer.
LEMMA SetTypes ==
    ASSUME TimerTypeOK
    PROVE  /\ timerSet \in Seq(Timers) /\ InSet \subseteq created /\ InSet \subseteq Timers
           /\ End \notin Timers
           /\ \A t \in Timers : timeout[t] \in Nat
<1>1. created \subseteq Timers /\ timerSet \in Seq(created) /\ timeout \in [Timers -> Nat]
  BY DEF TimerTypeOK
<1>2. timerSet \in Seq(Timers)
  BY <1>1, SeqMonotonic
<1>3. InSet \subseteq created
  BY <1>1, LenProperties, ElementOfSeq DEF InSet
<1> QED BY <1>1, <1>2, <1>3, TimerAssumption DEF Timers

LEMMA TimerInitIInv == TimerInit => TimerIInv
<1> SUFFICES ASSUME TimerInit PROVE TimerIInv
  OBVIOUS
<1>1. timerSet = <<>> /\ Len(timerSet) = 0 /\ created = {} /\ timerSet \in Seq(created) /\ InSet = {}
  BY DEF TimerInit, InSet
<1>2. TimerTypeOK
  BY <1>1, TimerAssumption DEF TimerInit, TimerTypeOK, Timers, Infinite
<1>3. IteratorValid /\ LeftBehind
  BY DEF TimerInit, IteratorValid, LeftBehind
<1>4. OnePlace
  BY <1>1 DEF TimerInit, OnePlace, Timers
<1>5. Sorted(timerSet, timeout)
  BY <1>1 DEF Sorted
<1> QED BY <1>2, <1>3, <1>4, <1>5 DEF TimerIInv

\* What a timer is given when it is made.
LEMMA Constructed ==
    ASSUME TimerIInv, NEW t \in Timers, NEW delay \in Nat, Construct(t, delay)
    PROVE  /\ t \notin created /\ t \notin InSet /\ t \notin posted /\ now + delay \in Nat
           /\ created' = created \cup {t} /\ created' \subseteq Timers
           /\ timeout' \in [Timers -> Nat] /\ timeout'[t] = now + delay
           /\ \A u \in created : timeout'[u] = timeout[u]
           /\ fired[t] = 0
<1>1. /\ timeout \in [Timers -> Nat] /\ now \in Nat /\ created \subseteq Timers /\ posted \subseteq created
      /\ InSet \subseteq created
  BY SetTypes, TimerAssumption DEF TimerIInv, TimerTypeOK
<1>2. t \notin created /\ created' = created \cup {t} /\ timeout' = [timeout EXCEPT ![t] = now + delay]
  BY DEF Construct
<1>3. fired[t] = 0
  BY <1>2 DEF TimerIInv, OnePlace
<1> QED BY <1>1, <1>2, <1>3

\* create, by the loop's thread.
LEMMA CreateStep ==
    ASSUME TimerIInv, NEW t \in Timers, NEW delay \in Nat, Create(t, delay)
    PROVE  TimerIInv'
<1>1. /\ t \notin created /\ t \notin InSet /\ t \notin posted /\ now + delay \in Nat
      /\ created' = created \cup {t} /\ created' \subseteq Timers
      /\ timeout' \in [Timers -> Nat] /\ timeout'[t] = now + delay
      /\ \A u \in created : timeout'[u] = timeout[u]
      /\ fired[t] = 0
  BY Constructed DEF Create
<1>2. /\ pc # "scan" /\ timerSet' \in Emplaced(timerSet, t, now + delay)
      /\ UNCHANGED <<repeat, posted, now, it, pc, firing, fired>>
  BY DEF Create
<1>3. /\ timerSet \in Seq(created) /\ timerSet \in Seq(Timers) /\ InSet \subseteq created
      /\ InSet \subseteq Timers /\ timeout \in [Timers -> Nat] /\ posted \subseteq created
      /\ End \notin Timers /\ now \in Nat
  BY SetTypes, TimerAssumption DEF TimerIInv, TimerTypeOK
<1>4. timerSet' \in Seq(created') /\ InSet \subseteq InSet' /\ InSet' \subseteq InSet \cup {t}
  <2>1. timerSet \in Seq(created') /\ t \in created'
    BY <1>1, <1>3, SeqMonotonic
  <2> QED BY <2>1, <1>2, Added
<1>5. TimerTypeOK'
  BY <1>1, <1>2, <1>3, <1>4 DEF TimerIInv, TimerTypeOK
<1>6. IteratorValid'
  BY <1>2, <1>4 DEF TimerIInv, IteratorValid
<1>7. OnePlace'
  <2>1. \A i, j \in 1 .. Len(timerSet') : timerSet'[i] = timerSet'[j] => i = j
    BY <1>1, <1>2, <1>3, AddedOnce DEF TimerIInv, OnePlace
  <2>2. posted' \cap InSet' = {}
    BY <1>1, <1>2, <1>4 DEF TimerIInv, OnePlace
  <2>3. (pc = "handler" => firing \in created \ (posted \cup InSet))'
    BY <1>1, <1>2, <1>4 DEF TimerIInv, OnePlace
  <2>4. \A u \in Timers \ created' : fired'[u] = 0
    BY <1>1, <1>2 DEF TimerIInv, OnePlace
  <2>5. \A u \in Once : fired'[u] = 0 \/ (fired'[u] = 1 /\ u \notin posted' \cup InSet')
    BY <1>1, <1>2, <1>4 DEF TimerIInv, OnePlace
  <2> QED BY <2>1, <2>2, <2>3, <2>4, <2>5 DEF OnePlace
<1>8. ASSUME created' \cap Every = {} PROVE Sorted(timerSet, timeout)' /\ LeftBehind'
  <2>1. Sorted(timerSet, timeout) /\ LeftBehind
    BY <1>1, <1>8 DEF TimerIInv
  <2>2. Sorted(timerSet', timeout')
    BY <2>1, <1>1, <1>2, <1>3, AddedInOrder
  <2>3. ASSUME pc' # "out", NEW u \in InSet', it' = End \/ timeout'[u] < timeout'[it']
        PROVE  now' <= timeout'[u]
    <3>1. CASE u = t
      BY <3>1, <1>1, <1>2, <1>3
    <3>2. CASE u # t
      <4>1. u \in InSet /\ timeout'[u] = timeout[u]
        BY <3>2, <1>1, <1>3, <1>4
      <4>2. it = End \/ timeout'[it] = timeout[it]
        BY <1>1, <1>3 DEF TimerIInv, IteratorValid
      <4> QED BY <4>1, <4>2, <2>1, <2>3, <1>2 DEF LeftBehind
    <3> QED BY <3>1, <3>2
  <2> QED BY <2>2, <2>3 DEF LeftBehind
<1> QED BY <1>5, <1>6, <1>7, <1>8 DEF TimerIInv

\* create, by another thread.
LEMMA CreateRemoteStep ==
    ASSUME TimerIInv, NEW t \in Timers, NEW delay \in Nat, CreateRemote(t, delay)
    PROVE  TimerIInv'
<1>1. /\ t \notin created /\ t \notin InSet /\ t \notin posted /\ now + delay \in Nat
      /\ created' = created \cup {t} /\ created' \subseteq Timers
      /\ timeout' \in [Timers -> Nat] /\ timeout'[t] = now + delay
      /\ \A u \in created : timeout'[u] = timeout[u]
      /\ fired[t] = 0
  BY Constructed DEF CreateRemote
<1>2. /\ posted' = posted \cup {t}
      /\ UNCHANGED <<timerSet, repeat, now, it, pc, firing, fired>>
  BY DEF CreateRemote
<1>3. /\ timerSet \in Seq(created) /\ InSet \subseteq created /\ posted \subseteq created
      /\ InSet' = InSet /\ End \notin Timers /\ Len(timerSet) \in Nat
      /\ \A i \in 1 .. Len(timerSet) : timerSet[i] \in created
  BY <1>2, SetTypes, LenProperties, ElementOfSeq DEF TimerIInv, TimerTypeOK, InSet
<1>4. TimerTypeOK'
  <2>1. timerSet' \in Seq(created')
    BY <1>1, <1>2, <1>3, SeqMonotonic
  <2> QED BY <2>1, <1>1, <1>2, <1>3 DEF TimerIInv, TimerTypeOK
<1>5. IteratorValid'
  BY <1>2, <1>3 DEF TimerIInv, IteratorValid
<1>6. OnePlace'
  BY <1>1, <1>2, <1>3 DEF TimerIInv, OnePlace
<1>7. ASSUME created' \cap Every = {} PROVE Sorted(timerSet, timeout)' /\ LeftBehind'
  <2>1. Sorted(timerSet, timeout) /\ LeftBehind
    BY <1>1, <1>7 DEF TimerIInv
  <2>2. Sorted(timerSet', timeout')
    BY <2>1, <1>1, <1>2, <1>3 DEF Sorted
  <2>3. it = End \/ (it \in InSet /\ timeout'[it] = timeout[it])
    BY <1>1, <1>3 DEF TimerIInv, IteratorValid
  <2>4. LeftBehind'
    BY <2>1, <2>3, <1>1, <1>2, <1>3 DEF LeftBehind
  <2> QED BY <2>2, <2>4
<1> QED BY <1>4, <1>5, <1>6, <1>7 DEF TimerIInv

\* The task of create.
LEMMA AddPostedStep ==
    ASSUME TimerIInv, NEW t \in Timers, AddPosted(t)
    PROVE  TimerIInv'
<1>1. /\ pc = "out" /\ t \in posted /\ posted' = posted \ {t}
      /\ timerSet' \in Emplaced(timerSet, t, timeout[t])
      /\ UNCHANGED <<timeout, repeat, created, now, it, pc, firing, fired>>
  BY DEF AddPosted
<1>2. /\ timerSet \in Seq(created) /\ timerSet \in Seq(Timers) /\ InSet \subseteq created
      /\ timeout \in [Timers -> Nat] /\ posted \subseteq created /\ t \notin InSet /\ t \in created
      /\ timeout[t] \in Nat
  BY <1>1, SetTypes DEF TimerIInv, TimerTypeOK, OnePlace
<1>3. timerSet' \in Seq(created) /\ InSet \subseteq InSet' /\ InSet' \subseteq InSet \cup {t}
  BY <1>1, <1>2, Added
<1>4. TimerTypeOK'
  BY <1>1, <1>2, <1>3 DEF TimerIInv, TimerTypeOK
<1>5. IteratorValid'
  BY <1>1, <1>3 DEF TimerIInv, IteratorValid
<1>6. OnePlace'
  <2>1. \A i, j \in 1 .. Len(timerSet') : timerSet'[i] = timerSet'[j] => i = j
    BY <1>1, <1>2, AddedOnce DEF TimerIInv, OnePlace
  <2>2. posted' \cap InSet' = {}
    BY <1>1, <1>3 DEF TimerIInv, OnePlace
  <2>3. \A u \in Once : fired'[u] = 0 \/ (fired'[u] = 1 /\ u \notin posted' \cup InSet')
    BY <1>1, <1>3 DEF TimerIInv, OnePlace
  <2>4. \A u \in Timers \ created' : fired'[u] = 0
    BY <1>1 DEF TimerIInv, OnePlace
  <2> QED BY <2>1, <2>2, <2>3, <2>4, <1>1 DEF OnePlace
<1>7. ASSUME created' \cap Every = {} PROVE Sorted(timerSet, timeout)' /\ LeftBehind'
  <2>1. Sorted(timerSet, timeout)
    BY <1>1, <1>7 DEF TimerIInv
  <2>2. Sorted(timerSet', timeout)
    BY <2>1, <1>1, <1>2, AddedInOrder
  <2> QED BY <2>2, <1>1 DEF LeftBehind
<1> QED BY <1>4, <1>5, <1>6, <1>7 DEF TimerIInv

\* What the erasure of the iterator's timer makes of the set.
LEMMA Erased ==
    ASSUME TimerIInv, it \in InSet, NEW p \in 1 .. Len(timerSet), timerSet[p] = it,
           timerSet' = RemoveAt(timerSet, p)
    PROVE  /\ timerSet' \in Seq(created) /\ Len(timerSet') = Len(timerSet) - 1
           /\ \A j \in 1 .. Len(timerSet') :
                /\ j < p => j \in 1 .. Len(timerSet) /\ timerSet'[j] = timerSet[j]
                /\ ~(j < p) => j + 1 \in p + 1 .. Len(timerSet) /\ j + 1 \in 1 .. Len(timerSet)
                                 /\ timerSet'[j] = timerSet[j + 1]
           /\ \A i \in 1 .. Len(timerSet) : i # p => timerSet[i] \in InSet'
           /\ InSet' = InSet \ {it}
<1>1. /\ timerSet \in Seq(created) /\ Len(timerSet) \in Nat /\ DOMAIN timerSet = 1 .. Len(timerSet)
      /\ \A i, j \in 1 .. Len(timerSet) : timerSet[i] = timerSet[j] => i = j
  BY LenProperties DEF TimerIInv, TimerTypeOK, OnePlace
<1>2. /\ timerSet' \in Seq(created) /\ Len(timerSet') = Len(timerSet) - 1
      /\ \A i \in 1 .. p - 1 : timerSet'[i] = timerSet[i]
      /\ \A i \in p + 1 .. Len(timerSet) : timerSet'[i - 1] = timerSet[i]
  <2> DEFINE r == RemoveAt(timerSet, p)
  <2>1. /\ r \in Seq(created) /\ Len(r) = Len(timerSet) - 1
        /\ \A i \in 1 .. p - 1 : r[i] = timerSet[i]
        /\ \A i \in p + 1 .. Len(timerSet) : r[i - 1] = timerSet[i]
    BY <1>1, Removed
  <2>2. timerSet' = r
    OBVIOUS
  <2> HIDE DEF r
  <2> QED BY ONLY <2>1, <2>2
<1>3. DOMAIN timerSet' = 1 .. Len(timerSet) - 1
  BY <1>2, LenProperties
<1>4. ASSUME NEW j \in 1 .. Len(timerSet')
      PROVE  /\ j < p => j \in 1 .. Len(timerSet) /\ timerSet'[j] = timerSet[j]
             /\ ~(j < p) => j + 1 \in p + 1 .. Len(timerSet) /\ j + 1 \in 1 .. Len(timerSet)
                              /\ timerSet'[j] = timerSet[j + 1]
  <2>1. CASE j < p
    <3>1. j \in 1 .. p - 1 /\ j \in 1 .. Len(timerSet)
      BY <1>1, <2>1
    <3> QED BY <3>1, <2>1, <1>2
  <2>2. CASE ~(j < p)
    <3>1. j + 1 \in p + 1 .. Len(timerSet) /\ j + 1 \in 1 .. Len(timerSet) /\ (j + 1) - 1 = j
      BY <1>1, <1>2, <2>2
    <3>2. timerSet'[(j + 1) - 1] = timerSet[j + 1]
      BY <3>1, <1>2
    <3> QED BY <3>1, <3>2, <2>2
  <2> QED BY <2>1, <2>2
<1>5. ASSUME NEW i \in 1 .. Len(timerSet), i # p PROVE timerSet[i] \in InSet'
  <2>1. CASE i < p
    <3>1. i \in 1 .. p - 1 /\ i \in DOMAIN timerSet'
      BY <1>1, <1>3, <2>1
    <3> QED BY <3>1, <1>2 DEF InSet
  <2>2. CASE ~(i < p)
    <3>1. i \in p + 1 .. Len(timerSet) /\ i - 1 \in DOMAIN timerSet'
      BY <1>1, <1>3, <1>5, <2>2
    <3> QED BY <3>1, <1>2 DEF InSet
  <2> QED BY <2>1, <2>2
<1>6. InSet' \subseteq InSet \ {it}
  <2> SUFFICES ASSUME NEW j \in 1 .. Len(timerSet') PROVE timerSet'[j] \in InSet \ {it}
    BY <1>2, <1>3 DEF InSet
  <2>1. PICK i \in 1 .. Len(timerSet) : i # p /\ timerSet'[j] = timerSet[i]
    <3>1. CASE j < p
      BY <3>1, <1>4
    <3>2. CASE ~(j < p)
      <4>1. j + 1 # p
        BY <1>1, <3>2, <1>2
      <4> QED BY <4>1, <3>2, <1>4
    <3> QED BY <3>1, <3>2
  <2> QED BY <2>1, <1>1 DEF InSet
<1>7. InSet \ {it} \subseteq InSet'
  <2> SUFFICES ASSUME NEW i \in 1 .. Len(timerSet), timerSet[i] # it PROVE timerSet[i] \in InSet'
    BY <1>1 DEF InSet
  <2> QED BY <1>5
<1> QED BY <1>2, <1>4, <1>5, <1>6, <1>7

\* process: a timer that is due.
LEMMA FireStep == ASSUME TimerIInv, Fire PROVE TimerIInv'
<1>1. /\ pc = "scan" /\ it # End /\ timeout[it] <= now
      /\ timerSet' = RemoveAt(timerSet, Place(it)) /\ it' = Successor(Place(it))
      /\ firing' = it /\ fired' = [fired EXCEPT ![it] = @ + 1] /\ pc' = "handler"
      /\ UNCHANGED <<timeout, repeat, created, posted, now>>
  BY DEF Fire
<1>2. it \in InSet
  BY <1>1 DEF TimerIInv, IteratorValid
<1>3. /\ timerSet \in Seq(created) /\ created \subseteq Timers /\ InSet \subseteq created
      /\ End \notin Timers /\ fired \in [Timers -> Nat] /\ it \in Timers
      /\ \A t \in Timers : timeout[t] \in Nat
  BY <1>2, SetTypes DEF TimerIInv, TimerTypeOK
<1>4. PICK p \in 1 .. Len(timerSet) : p = Place(it) /\ timerSet[p] = it
  BY <1>2, <1>3, Placed
<1>5. /\ timerSet' \in Seq(created) /\ Len(timerSet') = Len(timerSet) - 1
      /\ \A j \in 1 .. Len(timerSet') :
            /\ j < p => j \in 1 .. Len(timerSet) /\ timerSet'[j] = timerSet[j]
            /\ ~(j < p) => j + 1 \in p + 1 .. Len(timerSet) /\ j + 1 \in 1 .. Len(timerSet)
                             /\ timerSet'[j] = timerSet[j + 1]
      /\ \A i \in 1 .. Len(timerSet) : i # p => timerSet[i] \in InSet'
      /\ InSet' = InSet \ {it}
  BY <1>1, <1>2, <1>4, Erased
<1>6. Len(timerSet) \in Nat /\ DOMAIN timerSet = 1 .. Len(timerSet)
  BY <1>3, LenProperties
<1>7. \/ p = Len(timerSet) /\ it' = End
      \/ p + 1 \in 1 .. Len(timerSet) /\ it' = timerSet[p + 1] /\ it' \in InSet' /\ it' \in Timers
  <2>1. CASE p = Len(timerSet)
    BY <2>1, <1>1, <1>4 DEF Successor
  <2>2. CASE p # Len(timerSet)
    <3>1. p + 1 \in 1 .. Len(timerSet) /\ p + 1 # p /\ it' = timerSet[p + 1]
      BY <2>2, <1>1, <1>4, <1>6 DEF Successor
    <3>2. it' \in InSet'
      BY <3>1, <1>5
    <3> QED BY <3>1, <3>2, <1>3, <1>5
  <2> QED BY <2>1, <2>2
<1>8. TimerTypeOK'
  <2>1. fired' \in [Timers -> Nat]
    BY <1>1, <1>3
  <2>2. it' \in Timers \cup {End} /\ firing' \in Timers \cup {End}
    BY <1>1, <1>3, <1>7
  <2> QED BY <2>1, <2>2, <1>1, <1>5 DEF TimerIInv, TimerTypeOK
<1>9. IteratorValid'
  BY <1>7 DEF IteratorValid
<1>10. OnePlace'
  <2>1. ASSUME NEW i \in 1 .. Len(timerSet'), NEW j \in 1 .. Len(timerSet'), timerSet'[i] = timerSet'[j]
        PROVE  i = j
    <3>1. i \in Nat /\ j \in Nat /\ p \in Nat
      BY <1>6
    <3>2. \A m, n \in 1 .. Len(timerSet) : timerSet[m] = timerSet[n] => m = n
      BY DEF TimerIInv, OnePlace
    <3>3. CASE i < p /\ j < p
      BY <3>2, <3>3, <2>1, <1>5
    <3>4. CASE i < p /\ ~(j < p)
      <4>1. i = j + 1
        BY <3>2, <3>4, <2>1, <1>5
      <4> QED BY <4>1, <3>4, <3>1
    <3>5. CASE ~(i < p) /\ j < p
      <4>1. i + 1 = j
        BY <3>2, <3>5, <2>1, <1>5
      <4> QED BY <4>1, <3>5, <3>1
    <3>6. CASE ~(i < p) /\ ~(j < p)
      <4>1. i + 1 = j + 1
        BY <3>2, <3>6, <2>1, <1>5
      <4> QED BY <4>1, <3>1
    <3> QED BY <3>3, <3>4, <3>5, <3>6
  <2>2. posted' \cap InSet' = {} /\ it \notin posted
    BY <1>1, <1>2, <1>5 DEF TimerIInv, OnePlace
  <2>3. firing' \in created' \ (posted' \cup InSet')
    BY <2>2, <1>1, <1>2, <1>3, <1>5
  <2>4. \A t \in Timers \ created' : fired'[t] = 0
    BY <1>1, <1>2, <1>3 DEF TimerIInv, OnePlace
  <2>5. \A t \in Once : fired'[t] = 0 \/ (fired'[t] = 1 /\ t \notin posted' \cup InSet')
    <3> TAKE t \in Once
    <3>1. CASE t = it
      <4>1. fired[it] = 0
        BY <3>1, <1>2 DEF TimerIInv, OnePlace
      <4>2. fired'[it] = 1
        BY <4>1, <1>1, <1>3
      <4> QED BY <4>2, <3>1, <2>2, <1>1, <1>5
    <3>2. CASE t # it
      BY <3>2, <1>1, <1>3, <1>5 DEF TimerIInv, OnePlace, Timers
    <3> QED BY <3>1, <3>2
  <2> QED BY <2>1, <2>2, <2>3, <2>4, <2>5 DEF OnePlace
<1>11. ASSUME created' \cap Every = {} PROVE Sorted(timerSet, timeout)' /\ LeftBehind'
  <2>1. Sorted(timerSet, timeout) /\ LeftBehind
    BY <1>1, <1>11 DEF TimerIInv
  <2>2. ASSUME NEW i \in 1 .. Len(timerSet'), NEW j \in 1 .. Len(timerSet'), i < j
        PROVE  timeout[timerSet'[i]] < timeout[timerSet'[j]]
    <3>1. i \in Nat /\ j \in Nat /\ p \in Nat
      BY <1>6
    <3>2. CASE j < p
      BY <3>1, <3>2, <2>1, <2>2, <1>5 DEF Sorted
    <3>3. CASE i < p /\ ~(j < p)
      <4>1. i < j + 1
        BY <3>1, <2>2
      <4> QED BY <4>1, <3>3, <2>1, <1>5 DEF Sorted
    <3>4. CASE ~(i < p)
      <4>1. i + 1 < j + 1 /\ ~(j < p)
        BY <3>1, <3>4, <2>2
      <4> QED BY <4>1, <3>4, <2>1, <1>5 DEF Sorted
    <3> QED BY <3>1, <3>2, <3>3, <3>4, <2>2
  <2>3. Sorted(timerSet, timeout)'
    BY <2>2, <1>1 DEF Sorted
  <2>4. ASSUME NEW u \in InSet', it' = End \/ timeout[u] < timeout[it'] PROVE now <= timeout[u]
    <3>1. PICK i \in 1 .. Len(timerSet) : timerSet[i] = u /\ i # p
      BY <1>4, <1>5, <1>6 DEF InSet
    <3>2. i \in Nat /\ p \in Nat /\ i <= Len(timerSet) /\ timeout[u] \in Nat
      BY <1>3, <1>5, <1>6
    <3>3. CASE i < p
      <4>1. timeout[u] < timeout[it]
        BY <3>1, <3>3, <2>1, <1>4 DEF Sorted
      <4> QED BY <4>1, <2>1, <2>4, <1>1, <1>5 DEF LeftBehind
    <3>4. CASE p < i
      <4>1. p + 1 \in 1 .. Len(timerSet) /\ it' = timerSet[p + 1] /\ it' \in Timers
        <5>1. p < Len(timerSet)
          BY ONLY <3>2, <3>4, <1>6
        <5>2. ASSUME p = Len(timerSet) PROVE FALSE
          BY ONLY <5>1, <5>2, <1>6
        <5> QED BY <5>2, <1>7
      <4>2. timeout[u] < timeout[it'] /\ timeout[it'] \in Nat
        BY <4>1, <2>4, <1>3
      <4>3. i = p + 1 \/ p + 1 < i
        BY <3>2, <3>4
      <4>4. it' = u \/ timeout[it'] < timeout[u]
        BY <4>1, <4>3, <3>1, <2>1 DEF Sorted
      <4> QED BY <4>2, <4>4, <3>2
    <3> QED BY <3>1, <3>2, <3>3, <3>4
  <2>5. LeftBehind'
    BY <2>4, <1>1 DEF LeftBehind
  <2> QED BY <2>3, <2>5
<1> QED BY <1>8, <1>9, <1>10, <1>11 DEF TimerIInv

\* begin().
LEMMA BeginStep == ASSUME TimerIInv, BeginProcess PROVE TimerIInv'
<1>1. /\ pc = "out" /\ pc' = "scan" /\ it' = IF timerSet = <<>> THEN End ELSE Head(timerSet)
      /\ UNCHANGED <<timerSet, timeout, repeat, created, posted, now, firing, fired>>
  BY DEF BeginProcess
<1>2. /\ timerSet \in Seq(created) /\ InSet \subseteq Timers /\ Len(timerSet) \in Nat
      /\ DOMAIN timerSet = 1 .. Len(timerSet) /\ InSet' = InSet
      /\ \A t \in Timers : timeout[t] \in Nat
      /\ End \notin Timers
  BY <1>1, SetTypes, LenProperties DEF TimerIInv, TimerTypeOK, InSet
<1>3. \/ timerSet = <<>> /\ it' = End /\ InSet = {}
      \/ 1 \in 1 .. Len(timerSet) /\ it' = timerSet[1] /\ it' \in InSet
  <2>1. CASE timerSet = <<>>
    BY <2>1, <1>1 DEF InSet
  <2>2. CASE timerSet # <<>>
    <3>1. Len(timerSet) \in Nat \ {0}
      BY <2>2, <1>2, EmptySeq
    <3>2. 1 \in 1 .. Len(timerSet)
      BY <3>1
    <3> QED BY <3>2, <2>2, <1>1, <1>2 DEF InSet
  <2> QED BY <2>1, <2>2
<1>4. TimerTypeOK'
  BY <1>1, <1>2, <1>3 DEF TimerIInv, TimerTypeOK
<1>5. IteratorValid'
  BY <1>2, <1>3 DEF IteratorValid
<1>6. OnePlace'
  BY <1>1, <1>2 DEF TimerIInv, OnePlace
<1>7. ASSUME created' \cap Every = {} PROVE Sorted(timerSet, timeout)' /\ LeftBehind'
  <2>1. Sorted(timerSet, timeout)
    BY <1>1, <1>7 DEF TimerIInv
  <2>2. ASSUME NEW u \in InSet, it' = End \/ timeout[u] < timeout[it'] PROVE FALSE
    <3>1. 1 \in 1 .. Len(timerSet) /\ it' = timerSet[1] /\ it' \in InSet
      BY <2>2, <1>3
    <3>2. PICK i \in 1 .. Len(timerSet) : timerSet[i] = u
      BY <1>2 DEF InSet
    <3>3. timeout[u] < timeout[it'] /\ timeout[u] \in Nat /\ timeout[it'] \in Nat
      BY <3>1, <2>2, <1>2
    <3>4. i = 1 \/ 1 < i
      BY <1>2
    <3>5. u = it' \/ timeout[it'] < timeout[u]
      BY <3>1, <3>2, <3>4, <2>1 DEF Sorted
    <3> QED BY <3>3, <3>5
  <2>3. LeftBehind'
    BY <2>2, <1>1, <1>2 DEF LeftBehind
  <2> QED BY <2>1, <2>3, <1>1
<1> QED BY <1>4, <1>5, <1>6, <1>7 DEF TimerIInv

\* RepeatTimerEventWatcher::handle: from here on the set may be out of order.
LEMMA HandledRepeatStep == ASSUME TimerIInv, HandledRepeat PROVE TimerIInv'
<1>1. /\ pc = "handler" /\ pc' = "scan" /\ firing' = End /\ firing \in Every /\ repeat[firing] # 0
      /\ timerSet' \in Emplaced(timerSet, firing, timeout[firing])
      /\ timeout' = [timeout EXCEPT ![firing] = now + Interval]
      /\ repeat' = [repeat EXCEPT ![firing] = IF @ = Infinite THEN @ ELSE @ - 1]
      /\ UNCHANGED <<created, posted, now, it, fired>>
  BY DEF HandledRepeat, HandlerDone
<1>2. /\ timerSet \in Seq(created) /\ timeout \in [Timers -> Nat] /\ firing \in created
      /\ firing \notin posted \cup InSet /\ created \subseteq Timers /\ firing \in Timers
      /\ repeat \in [Timers -> Nat \cup {Infinite}] /\ now \in Nat /\ Interval \in Nat
      /\ Once \cap Every = {}
  BY <1>1, TimerAssumption DEF TimerIInv, TimerTypeOK, OnePlace
<1>3. timerSet' \in Seq(created) /\ InSet \subseteq InSet' /\ InSet' \subseteq InSet \cup {firing}
  BY <1>1, <1>2, Added
<1>4. TimerTypeOK'
  <2>1. timeout' \in [Timers -> Nat]
    BY <1>1, <1>2
  <2>2. repeat' \in [Timers -> Nat \cup {Infinite}]
    <3>1. repeat[firing] = Infinite \/ repeat[firing] - 1 \in Nat
      BY <1>1, <1>2
    <3> QED BY <3>1, <1>1, <1>2
  <2> QED BY <2>1, <2>2, <1>1, <1>3 DEF TimerIInv, TimerTypeOK
<1>5. IteratorValid'
  BY <1>1, <1>3 DEF TimerIInv, IteratorValid
<1>6. OnePlace'
  <2>1. \A i, j \in 1 .. Len(timerSet') : timerSet'[i] = timerSet'[j] => i = j
    BY <1>1, <1>2, AddedOnce DEF TimerIInv, OnePlace
  <2>2. posted' \cap InSet' = {}
    BY <1>1, <1>2, <1>3 DEF TimerIInv, OnePlace
  <2>3. \A t \in Once : fired'[t] = 0 \/ (fired'[t] = 1 /\ t \notin posted' \cup InSet')
    BY <1>1, <1>2, <1>3 DEF TimerIInv, OnePlace
  <2>4. \A t \in Timers \ created' : fired'[t] = 0
    BY <1>1 DEF TimerIInv, OnePlace
  <2> QED BY <2>1, <2>2, <2>3, <2>4, <1>1 DEF OnePlace
<1>7. created' \cap Every # {}
  BY <1>1, <1>2
<1> QED BY <1>4, <1>5, <1>6, <1>7 DEF TimerIInv

\* The steps that leave the set alone.
LEMMA OtherSteps ==
    ASSUME TimerIInv, UpdateNow \/ EndProcess \/ HandledLast \/ UNCHANGED timerVars
    PROVE  TimerIInv'
<1>1. /\ UNCHANGED <<timerSet, timeout, repeat, created, posted, fired>>
      /\ now' \in 0 .. MaxNow
      /\ it' \in {it, End} /\ firing' \in {firing, End} /\ pc' \in {"out", "scan", "handler"}
      /\ pc' = "handler" => pc = "handler" /\ firing' = firing
      /\ pc' # "out" => pc # "out" /\ now' = now /\ it' = it
  BY DEF TimerIInv, TimerTypeOK, UpdateNow, EndProcess, HandledLast, HandlerDone, timerVars
<1>2. InSet' = InSet
  BY <1>1 DEF InSet
<1>3. TimerTypeOK'
  BY <1>1 DEF TimerIInv, TimerTypeOK
<1>4. IteratorValid'
  BY <1>1, <1>2 DEF TimerIInv, IteratorValid
<1>5. OnePlace'
  BY <1>1, <1>2 DEF TimerIInv, OnePlace
<1>6. ASSUME created' \cap Every = {} PROVE Sorted(timerSet, timeout)' /\ LeftBehind'
  <2>1. Sorted(timerSet, timeout) /\ LeftBehind
    BY <1>1, <1>6 DEF TimerIInv
  <2>2. LeftBehind'
    BY <2>1, <1>1, <1>2 DEF LeftBehind
  <2> QED BY <2>1, <2>2, <1>1
<1> QED BY <1>3, <1>4, <1>5, <1>6 DEF TimerIInv

LEMMA TimerStepIInv == TimerIInv /\ [TimerNext]_timerVars => TimerIInv'
<1> SUFFICES ASSUME TimerIInv, [TimerNext]_timerVars PROVE TimerIInv'
  OBVIOUS
<1>1. CASE UpdateNow \/ EndProcess \/ HandledLast \/ UNCHANGED timerVars
  BY <1>1, OtherSteps
<1>2. CASE RunAfter
  <2>1. PICK t \in Once, delay \in Delays : Create(t, delay) \/ CreateRemote(t, delay)
    BY <1>2 DEF RunAfter
  <2>2. t \in Timers /\ delay \in Nat
    BY TimerAssumption DEF Timers
  <2> QED BY <2>1, <2>2, CreateStep, CreateRemoteStep
<1>3. CASE RunEvery
  <2>1. PICK t \in Every : Create(t, Interval) \/ CreateRemote(t, Interval)
    BY <1>3 DEF RunEvery
  <2>2. t \in Timers /\ Interval \in Nat
    BY TimerAssumption DEF Timers
  <2> QED BY <2>1, <2>2, CreateStep, CreateRemoteStep
<1>4. CASE BeginProcess
  BY <1>4, BeginStep
<1>5. CASE Fire
  BY <1>5, FireStep
<1>6. CASE HandledRepeat
  BY <1>6, HandledRepeatStep
<1>7. ASSUME NEW t \in Timers, AddPosted(t) PROVE TimerIInv'
  BY <1>7, AddPostedStep
<1>8. ASSUME NEW t \in Timers, Cancel(t) PROVE TimerIInv'
  BY <1>8, OtherSteps DEF Cancel
<1> QED BY <1>1, <1>2, <1>3, <1>4, <1>5, <1>6, <1>7, <1>8 DEF TimerNext

\* Every reachable state satisfies the invariant.
LEMMA TimersInvariant == TimerSpec => []TimerIInv
BY TimerInitIInv, TimerStepIInv, PTL DEF TimerSpec

\* The types, for any timers, delays and times.
THEOREM TimersTypeCorrect == TimerSpec => []TimerTypeOK
<1>1. TimerIInv => TimerTypeOK
  BY DEF TimerIInv
<1> QED BY <1>1, TimersInvariant, PTL

\* The iterator process() keeps across a handler is valid whatever the handler
\* creates or cancels, also when timers of runEvery have broken the order.
THEOREM IteratorCorrect == TimerSpec => []IteratorValid
<1>1. TimerIInv => IteratorValid
  BY DEF TimerIInv
<1> QED BY <1>1, TimersInvariant, PTL

\* A timer of runAfter fires once at the most, whoever made it, whether it waits
\* in the queue of tasks or in the set, and whatever was cancelled.
FiresOnce == \A t \in Once : fired[t] <= 1

THEOREM OnceCorrect == TimerSpec => []FiresOnce
<1>1. TimerIInv => FiresOnce
  BY DEF TimerIInv, OnePlace, FiresOnce
<1> QED BY <1>1, TimersInvariant, PTL

\* A pass that ends leaves nothing behind that was due, but what its own handlers
\* have created with no delay: as long as there was no timer of runEvery.
LEMMA PassStep ==
    ASSUME TimerIInv, [TimerNext]_timerVars, created \cap Every = {}, pc = "scan", pc' = "out"
    PROVE  \A t \in Due : timeout[t] = now
<1>1. EndProcess
  <2>1. ASSUME NEW t \in Timers PROVE ~AddPosted(t) /\ ~Cancel(t)
    BY DEF AddPosted, Cancel, timerVars
  <2>2. ~RunAfter /\ ~RunEvery
    BY DEF RunAfter, RunEvery, Create, CreateRemote
  <2> QED BY <2>1, <2>2 DEF TimerNext, timerVars, UpdateNow, BeginProcess, Fire, HandledLast,
             HandledRepeat, HandlerDone
<1>2. it = End \/ (timeout[it] > now /\ it \in InSet)
  BY <1>1 DEF EndProcess, TimerIInv, IteratorValid
<1>3. InSet \subseteq Timers /\ now \in Nat /\ \A t \in Timers : timeout[t] \in Nat
  BY SetTypes, TimerAssumption DEF TimerIInv, TimerTypeOK
<1>4. ASSUME NEW t \in Due PROVE timeout[t] = now
  <2>1. t \in InSet /\ timeout[t] <= now /\ timeout[t] \in Nat
    BY <1>3 DEF Due
  <2>2. it = End \/ timeout[t] < timeout[it]
    BY <2>1, <1>2, <1>3
  <2>3. now <= timeout[t]
    BY <2>1, <2>2 DEF TimerIInv, LeftBehind
  <2> QED BY <2>1, <2>3, <1>3
<1> QED BY <1>4

THEOREM PassCorrect == TimerSpec => PassFiresDue
<1>1. ASSUME TimerIInv, [TimerNext]_timerVars
      PROVE  [(created \cap Every = {} /\ pc = "scan" /\ pc' = "out")
                => \A t \in Due : timeout[t] = now]_timerVars
  BY <1>1, PassStep
<1> QED BY <1>1, TimersInvariant, PTL DEF TimerSpec, PassFiresDue
=============================================================================
