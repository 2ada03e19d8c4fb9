---------------------- MODULE EventLoopThreadPoolProofs ----------------------
(***************************************************************************)
(* What TLAPS proves of EventLoopThread and its pool, for any number of    *)
(* threads, with a pool and without.                                       *)
(*                                                                         *)
(* The pool conjoins its own loops with the calls of a thread's owner, so  *)
(* every step of it is one of a thread or none.  What is said of the       *)
(* threads is proved of EventLoopThread's steps, and holds of the pool's.  *)
(***************************************************************************)
EXTENDS EventLoopThreadPool, TLAPS

\* Every step of the pool is a step of a thread, or of its owner, or of the
\* pool alone.
LEMMA StepThreads == [Next]_vars => [Thread!Next]_Thread!vars
<1> USE DEF Thread!Next, Thread!vars, threadVars, poolVars
<1>1. \A w \in Pooled : w \in Workers
  BY DEF Workers
<1>2. \A w \in Alone : w \in Workers
  BY DEF Workers
<1>3. ASSUME PoolReturns PROVE [Thread!Next]_Thread!vars
  <2>1. ASSUME turn \in Pooled, Thread!Owner(turn) PROVE Thread!Next
    BY <1>1, <2>1
  <2>2. StartThread => Thread!Next
    BY <2>1 DEF StartThread, Thread!Owner
  <2>3. ThreadStarted => Thread!Next
    BY <2>1 DEF ThreadStarted, Thread!Owner, Thread!Returns
  <2>4. StopThread => Thread!Next
    BY <2>1 DEF StopThread, Thread!Owner, Thread!Returns
  <2>5. ThreadJoined => Thread!Next
    BY <2>1 DEF ThreadJoined, Thread!Owner, Thread!Returns
  <2> QED BY <1>3, <2>2, <2>3, <2>4, <2>5 DEF PoolReturns, Started, Stopped
<1>4. Destroy => Thread!Next
  BY <1>1 DEF Destroy, Thread!Owner
<1>5. ASSUME NEW w \in Workers, RunThread(w) PROVE Thread!Next
  BY <1>5 DEF RunThread
<1>6. ASSUME NEW w \in Alone, AloneCalls(w) PROVE Thread!Next
  BY <1>2, <1>6 DEF AloneCalls
<1>7. Start \/ GetNextLoop \/ Stop \/ UNCHANGED vars => UNCHANGED Thread!vars
  BY DEF Start, GetNextLoop, Stop, vars
<1> QED BY <1>3, <1>4, <1>5, <1>6, <1>7 DEF Next

-----------------------------------------------------------------------------
\* The thread has published its loop and not yet taken it back.
HasLoop == {"running", "run", "enter", "loop", "exit", "clear"}

\* It has stored Running and has not left its loop.
InLoop == {"run", "enter", "loop"}

\* The owner has not yet told the loop to stop.
Untold == {"new", "startLoop", "started", "stop", "stopping", "readLoop", "loopStop"}

\* loop_ follows threadFunc, which startLoop begins.
Follows(w) ==
    /\ loop_[w] <=> pc[w] \in HasLoop
    /\ call[w] = "new" => pc[w] = "none"

\* Where the owner is, next to where a thread is that does not stop itself.
Tied(w) ==
    /\ ~stopTask[w]
    /\ call[w] = "new" => tstatus[w] = "Stopped"
    /\ call[w] \in Untold =>
         /\ pc[w] \notin {"exit", "clear", "stopped", "dead"}
         /\ pc[w] = "loop" => lstatus[w] = "Running"
    /\ call[w] \in {"started", "stop"} => pc[w] \in {"running"} \cup InLoop
    /\ pc[w] \in {"callback", "publish", "running"} => tstatus[w] = "Starting"
    /\ call[w] \in {"startLoop", "started", "stop"} /\ pc[w] \in InLoop => tstatus[w] = "Running"
    /\ call[w] \in {"stopping", "readLoop", "loopStop"} => pc[w] \in InLoop
    /\ call[w] \in {"wakeup", "join", "joined"} /\ pc[w] = "dead" => tstatus[w] = "Stopped"
    /\ call[w] = "joined" => pc[w] = "dead"

\* The inductive invariant.
IInv ==
    /\ Thread!TypeOK
    /\ \A w \in Workers : Follows(w)
    /\ \A w \in Workers \ SelfStop : Tied(w)

LEMMA InitIInv == Init => IInv
  BY DEF Init, Thread!Init, IInv, Thread!TypeOK, Thread!CallNames, Thread!PcNames,
     Thread!StatusNames, Follows, HasLoop, Tied, Untold, InLoop

\* A step of v's thread or owner leaves every other thread as it was.
Others(v) ==
    \A w \in Workers \ {v} :
        /\ call'[w] = call[w] /\ pc'[w] = pc[w] /\ tstatus'[w] = tstatus[w]
        /\ loop_'[w] = loop_[w] /\ lstatus'[w] = lstatus[w] /\ stopTask'[w] = stopTask[w]

\* What a step of v does to v is all there is to show.
LEMMA OneThread ==
    ASSUME IInv, NEW v \in Workers, Thread!TypeOK', Others(v),
           Follows(v)',
           v \notin SelfStop => Tied(v)'
    PROVE  IInv'
<1>1. ASSUME NEW w \in Workers, w # v PROVE Follows(w)'
  BY <1>1 DEF IInv, Others, Follows
<1>2. ASSUME NEW w \in Workers \ SelfStop, w # v PROVE Tied(w)'
  BY <1>2 DEF IInv, Others, Follows, Tied
<1> QED BY <1>1, <1>2 DEF IInv

LEMMA ThreadSteps ==
    ASSUME IInv, NEW v \in Workers, Thread!ThreadFunc(v)
    PROVE  IInv'
<1> USE DEF Thread!TypeOK, Thread!CallNames, Thread!PcNames, Thread!StatusNames,
        Thread!Step, Others, HasLoop, InLoop, Untold
<1>0. Thread!TypeOK /\ Follows(v) /\ (v \notin SelfStop => Tied(v))
  BY DEF IInv
<1>1. CASE Thread!Construct(v)
  BY <1>0, <1>1, OneThread DEF Thread!Construct, Follows, Tied
<1>2. CASE Thread!StoreStarting(v)
  BY <1>0, <1>2, OneThread DEF Thread!StoreStarting, Follows, Tied
<1>3. CASE Thread!Callback(v)
  BY <1>0, <1>3, OneThread DEF Thread!Callback, Follows, Tied
<1>4. CASE Thread!Publish(v)
  BY <1>0, <1>4, OneThread DEF Thread!Publish, Follows, Tied
<1>5. CASE Thread!StoreRunning(v)
  BY <1>0, <1>5, OneThread DEF Thread!StoreRunning, Follows, Tied
<1>6. CASE Thread!RunStarting(v)
  BY <1>0, <1>6, OneThread DEF Thread!RunStarting, Follows, Tied
<1>7. CASE Thread!RunRunning(v)
  BY <1>0, <1>7, OneThread DEF Thread!RunRunning, Follows, Tied
<1>8. CASE Thread!RunStopTask(v)
  BY <1>0, <1>8, OneThread DEF Thread!RunStopTask, Follows, Tied
<1>9. CASE Thread!LeaveLoop(v)
  BY <1>0, <1>9, OneThread DEF Thread!LeaveLoop, Follows, Tied
<1>10. CASE Thread!RunStopped(v)
  BY <1>0, <1>10, OneThread DEF Thread!RunStopped, Follows, Tied
<1>11. CASE Thread!Clear(v)
  BY <1>0, <1>11, OneThread DEF Thread!Clear, Follows, Tied
<1>12. CASE Thread!StoreStopped(v)
  BY <1>0, <1>12, OneThread DEF Thread!StoreStopped, Follows, Tied
<1> QED
  BY <1>1, <1>2, <1>3, <1>4, <1>5, <1>6, <1>7, <1>8, <1>9, <1>10, <1>11, <1>12
     DEF Thread!ThreadFunc

LEMMA OwnerSteps ==
    ASSUME IInv, NEW v \in Workers, Thread!Owner(v)
    PROVE  IInv'
<1> USE DEF Thread!TypeOK, Thread!CallNames, Thread!PcNames, Thread!StatusNames,
        Thread!Calls, Others, HasLoop, InLoop, Untold
<1>0. Thread!TypeOK /\ Follows(v) /\ (v \notin SelfStop => Tied(v))
  BY DEF IInv
<1>1. CASE Thread!StartLoop(v)
  <2>1. /\ call[v] = "new" /\ call' = [call EXCEPT ![v] = "startLoop"]
        /\ pc' = [pc EXCEPT ![v] = "construct"]
        /\ tstatus' = tstatus /\ loop_' = loop_ /\ lstatus' = lstatus /\ stopTask' = stopTask
    BY <1>1 DEF Thread!StartLoop
  <2>2. Thread!TypeOK' /\ Others(v)
    BY <1>0, <2>1
  <2>3. call'[v] = "startLoop" /\ pc'[v] = "construct"
    BY <1>0, <2>1
  <2>4. Follows(v)'
    BY <1>0, <2>1, <2>3 DEF Follows
  <2>5. v \notin SelfStop => Tied(v)'
    BY <1>0, <2>1, <2>3 DEF Tied
  <2> QED BY <2>2, <2>4, <2>5, OneThread
<1>2. CASE Thread!StartLoopReturns(v)
  BY <1>0, <1>2, OneThread DEF Thread!StartLoopReturns, Follows, Tied
<1>3. CASE Thread!CallStop(v)
  BY <1>0, <1>3, OneThread DEF Thread!CallStop, Follows, Tied
<1>4. CASE Thread!SpinEnds(v)
  BY <1>0, <1>4, OneThread DEF Thread!SpinEnds, Follows, Tied
<1>5. CASE Thread!StoreStopping(v)
  BY <1>0, <1>5, OneThread DEF Thread!StoreStopping, Follows, Tied
<1>6. CASE Thread!ReadLoop(v)
  BY <1>0, <1>6, OneThread DEF Thread!ReadLoop, Follows, Tied
<1>7. CASE Thread!LoopStop(v)
  BY <1>0, <1>7, OneThread DEF Thread!LoopStop, Thread!Alive, Follows, Tied
<1>8. CASE Thread!Wakeup(v)
  BY <1>0, <1>8, OneThread DEF Thread!Wakeup, Thread!Alive, Follows, Tied
<1>9. CASE Thread!Join(v)
  BY <1>0, <1>9, OneThread DEF Thread!Join, Follows, Tied
<1>10. CASE Thread!Destroy(v)
  BY <1>0, <1>10, OneThread DEF Thread!Destroy, Follows, Tied
<1> QED
  BY <1>1, <1>2, <1>3, <1>4, <1>5, <1>6, <1>7, <1>8, <1>9, <1>10
     DEF Thread!Owner, Thread!Returns

LEMMA StepIInv == IInv /\ [Next]_vars => IInv'
<1> SUFFICES ASSUME IInv, [Thread!Next]_Thread!vars PROVE IInv'
  BY StepThreads
<1>1. CASE UNCHANGED Thread!vars
  BY <1>1 DEF Thread!vars, IInv, Thread!TypeOK, Follows, Tied
<1> QED BY <1>1, ThreadSteps, OwnerSteps DEF Thread!Next

LEMMA Invariance == Spec => []IInv
  BY InitIInv, StepIInv, PTL DEF Spec

\* EventLoopThread: whatever the owner and the thread do, the pointer that
\* startLoop hands out is that of a loop that exists.
THEOREM PublishedCorrect == Spec => []PublishedLoopAlive
<1>1. IInv => PublishedLoopAlive
  BY DEF IInv, Follows, HasLoop, PublishedLoopAlive, Thread!PublishedLoopAlive,
     Thread!Alive
<1> QED BY <1>1, Invariance, PTL

\* EventLoopThread: the owner's Stopping is never stored over the thread's Stopped,
\* so that a destructor after the join does not call stop a second time.
THEOREM DestructorCorrect == Spec => []DestructorFindsStopped
<1>1. IInv => DestructorFindsStopped
  BY DEF IInv, Tied, DestructorFindsStopped, Thread!DestructorFindsStopped
<1> QED BY <1>1, Invariance, PTL
=============================================================================
