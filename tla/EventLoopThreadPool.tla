------------------------ MODULE EventLoopThreadPool ------------------------
(***************************************************************************)
(* EventLoopThreadPool: the threads of a pool, started and stopped one     *)
(* after the other by the thread of the base loop, and the round robin     *)
(* that hands out their loops.                                             *)
(*                                                                         *)
(* The threads are those of EventLoopThread, numbered from 1; the pool     *)
(* conjoins its own loops over them with their owner's calls.  A loop is   *)
(* named by the number of its thread and the base loop by 0.  Beside them  *)
(* there may be threads that other owners use without a pool.              *)
(***************************************************************************)
EXTENDS Integers, Sequences

CONSTANTS
    N,        \* numThreads_ - 1: the threads the pool starts
    Alone,    \* the threads without a pool
    SelfStop  \* those whose callback_ queues a task that stops their own loop

ASSUME PoolAssumption ==
    /\ N \in Nat
    /\ Alone \cap (0 .. N) = {}
    /\ SelfStop \subseteq Alone

VARIABLES
    call, pc, tstatus, loop_, lstatus, stopTask, \* EventLoopThread's
    status, \* EventLoopThreadPool::status
    loops,  \* EventLoopThreadPool::loops_
    next,   \* EventLoopThreadPool::next_
    turn    \* the thread the `for` of start or of stop is at, 0 outside them

threadVars == <<call, pc, tstatus, loop_, lstatus, stopTask>>
poolVars == <<status, loops, next, turn>>
vars == <<threadVars, poolVars>>

Pooled == 1 .. N

Workers == Pooled \cup Alone

Thread == INSTANCE EventLoopThread WITH OwnerStop <- Workers, status <- tstatus

Init ==
    /\ Thread!Init
    /\ status = "Null"
    /\ loops = <<>>
    /\ next = 0
    /\ turn = 0

\* start: the base loop is the first of loops_, the threads are created.
Start ==
    /\ status = "Null"
    /\ status' = "Starting"
    /\ loops' = Append(loops, 0)
    /\ turn' = 1
    /\ UNCHANGED <<threadVars, next>>

\* start: thread->startLoop() is called, and returns the loop.
StartThread ==
    /\ status = "Starting"
    /\ turn \in Pooled
    /\ Thread!StartLoop(turn)
    /\ UNCHANGED poolVars

ThreadStarted ==
    /\ status = "Starting"
    /\ turn \in Pooled
    /\ Thread!StartLoopReturns(turn)
    /\ loops' = Append(loops, turn)
    /\ turn' = turn + 1
    /\ UNCHANGED <<status, next>>

Started ==
    /\ status = "Starting"
    /\ turn = N + 1
    /\ status' = "Running"
    /\ turn' = 0
    /\ UNCHANGED <<threadVars, loops, next>>

\* getNextLoop, called while the pool runs: loops_[next_].
GetNextLoop ==
    /\ status = "Running"
    /\ next' = (next + 1) % Len(loops)
    /\ UNCHANGED <<threadVars, status, loops, turn>>

\* stop, called by the owner or by the destructor of a pool that runs.
Stop ==
    /\ status = "Running"
    /\ status' = "Stopping"
    /\ turn' = 1
    /\ UNCHANGED <<threadVars, loops, next>>

\* stop: thread->stop(), one step of it after the other.
StopThread ==
    /\ status = "Stopping"
    /\ turn \in Pooled
    /\ \/ Thread!CallStop(turn)
       \/ Thread!SpinEnds(turn)
       \/ Thread!StoreStopping(turn)
       \/ Thread!ReadLoop(turn)
       \/ Thread!LoopStop(turn)
       \/ Thread!Wakeup(turn)
    /\ UNCHANGED poolVars

ThreadJoined ==
    /\ status = "Stopping"
    /\ turn \in Pooled
    /\ Thread!Join(turn)
    /\ turn' = turn + 1
    /\ UNCHANGED <<status, loops, next>>

Stopped ==
    /\ status = "Stopping"
    /\ turn = N + 1
    /\ status' = "Stopped"
    /\ turn' = 0
    /\ UNCHANGED <<threadVars, loops, next>>

\* ~EventLoopThreadPool of a pool that does not run: threads_ is destroyed.
Destroy ==
    /\ status = "Stopped"
    /\ \E w \in Pooled : Thread!Destroy(w)
    /\ UNCHANGED poolVars

RunThread(w) == Thread!ThreadFunc(w) /\ UNCHANGED poolVars

\* The owner of a thread without a pool.
AloneCalls(w) == Thread!Owner(w) /\ UNCHANGED poolVars

AloneReturns(w) == Thread!Returns(w) /\ UNCHANGED poolVars

PoolReturns ==
    \/ StartThread \/ ThreadStarted \/ Started
    \/ StopThread \/ ThreadJoined \/ Stopped

Next ==
    \/ Start \/ GetNextLoop \/ Stop \/ Destroy
    \/ PoolReturns
    \/ \E w \in Workers : RunThread(w)
    \/ \E w \in Alone : AloneCalls(w)

\* The threads run; a call of the pool, or on a thread without one, is carried on
\* with.
Fairness ==
    /\ WF_vars(PoolReturns)
    /\ \A w \in Workers : WF_vars(RunThread(w))
    /\ \A w \in Alone : WF_vars(AloneReturns(w))

Spec == Init /\ [][Next]_vars /\ Fairness

-----------------------------------------------------------------------------
TypeOK ==
    /\ Thread!TypeOK
    /\ status \in Thread!StatusNames
    /\ loops \in Seq(0 .. N)
    /\ next \in 0 .. N
    /\ turn \in 0 .. N + 1

\* The properties of EventLoopThread, of the threads of the pool and of the others.
PublishedLoopAlive == Thread!PublishedLoopAlive
DestructorFindsStopped == Thread!DestructorFindsStopped
SpinReturns == Thread!SpinReturns
StopEndsRunningLoop == Thread!StopEndsRunningLoop
=============================================================================
