--------------------------- MODULE EventLoopThread ---------------------------
(***************************************************************************)
(* EventLoopThread: an event loop that lives on the stack of a thread of   *)
(* its own.  Its owner, on another thread, starts it with startLoop, stops *)
(* and joins it with stop, and destroys it.                                *)
(*                                                                         *)
(* Two status words are involved and no lock covers either: `status` of    *)
(* the EventLoopThread and `status` of the EventLoop it runs.  Both are    *)
(* written by the thread and by its owner.  The pointer loop_ is written   *)
(* under a mutex, and read under it by startLoop but not by stop.          *)
(*                                                                         *)
(* The state is a function of the EventLoopThread objects, so that a pool  *)
(* can drive several of them.                                              *)
(***************************************************************************)
EXTENDS Naturals

CONSTANTS
    Workers,  \* the EventLoopThread objects
    SelfStop, \* those whose callback_ queues a task that stops their own loop
    OwnerStop \* those whose owner calls stop, not only the destructor

VARIABLES
    call,     \* call[w]: how far the owner's calls on w have come
    pc,       \* pc[w]: how far threadFunc has come, "none" before the thread
    status,   \* status[w]: EventLoopThread::status
    loop_,    \* loop_[w]: EventLoopThread::loop_ is not null
    lstatus,  \* lstatus[w]: EventLoop::status of the loop of w
    stopTask  \* stopTask[w]: a task that stops the loop waits in its queue

vars == <<call, pc, status, loop_, lstatus, stopTask>>

\* threadFunc, in the order of its statements; run() begins at "run".
PcNames == {"none", "construct", "starting", "callback", "publish", "running",
            "run", "enter", "loop", "exit", "clear", "stopped", "dead"}

\* The owner: startLoop; stop, with its spin, its store, its read of loop_,
\* the store and the wakeup of EventLoop::stop, and its join; the destructor.
CallNames == {"new", "startLoop", "started", "stop", "stopping", "readLoop",
              "loopStop", "wakeup", "join", "joined", "destroyed", "crashed"}

StatusNames == {"Null", "Initialized", "Starting", "Running", "Stopping",
                "Stopped"}

Init ==
    /\ call = [w \in Workers |-> "new"]
    /\ pc = [w \in Workers |-> "none"]
    /\ status = [w \in Workers |-> "Stopped"]
    /\ loop_ = [w \in Workers |-> FALSE]
    /\ lstatus = [w \in Workers |-> "Null"]
    /\ stopTask = [w \in Workers |-> FALSE]

\* The EventLoop is a local of threadFunc.
Alive(w) == pc[w] \notin {"none", "construct", "dead"}

Step(w, from, to) == pc[w] = from /\ pc' = [pc EXCEPT ![w] = to]

Calls(w, from, to) == call[w] = from /\ call' = [call EXCEPT ![w] = to]

-----------------------------------------------------------------------------
\* threadFunc: EventLoop loop; its constructor ends in Initialized.
Construct(w) ==
    /\ Step(w, "construct", "starting")
    /\ lstatus' = [lstatus EXCEPT ![w] = "Initialized"]
    /\ UNCHANGED <<call, status, loop_, stopTask>>

\* threadFunc: status.store(Starting).
StoreStarting(w) ==
    /\ Step(w, "starting", "callback")
    /\ status' = [status EXCEPT ![w] = "Starting"]
    /\ UNCHANGED <<call, loop_, lstatus, stopTask>>

\* threadFunc: callback_(&loop).
Callback(w) ==
    /\ Step(w, "callback", "publish")
    /\ stopTask' = [stopTask EXCEPT ![w] = w \in SelfStop]
    /\ UNCHANGED <<call, status, loop_, lstatus>>

\* threadFunc: loop_ = &loop; cond_.notify_one(), under the mutex.
Publish(w) ==
    /\ Step(w, "publish", "running")
    /\ loop_' = [loop_ EXCEPT ![w] = TRUE]
    /\ UNCHANGED <<call, status, lstatus, stopTask>>

\* Mutant: the store of Running is forgotten.
StoreRunning_None(w) ==
    /\ Step(w, "running", "run")
    /\ UNCHANGED <<call, status, loop_, lstatus, stopTask>>

\* threadFunc: status.store(Running).
StoreRunning(w) ==
    /\ Step(w, "running", "run")
    /\ status' = [status EXCEPT ![w] = "Running"]
    /\ UNCHANGED <<call, loop_, lstatus, stopTask>>

\* EventLoop::run: status.store(Starting).
RunStarting(w) ==
    /\ Step(w, "run", "enter")
    /\ lstatus' = [lstatus EXCEPT ![w] = "Starting"]
    /\ UNCHANGED <<call, status, loop_, stopTask>>

\* EventLoop::run: status.store(Running).
RunRunning(w) ==
    /\ Step(w, "enter", "loop")
    /\ lstatus' = [lstatus EXCEPT ![w] = "Running"]
    /\ UNCHANGED <<call, status, loop_, stopTask>>

\* EventLoop::run: an iteration that runs the queued task, EventLoop::stop on
\* the loop's own thread.
RunStopTask(w) ==
    /\ pc[w] = "loop"
    /\ lstatus[w] = "Running"
    /\ stopTask[w]
    /\ stopTask' = [stopTask EXCEPT ![w] = FALSE]
    /\ lstatus' = [lstatus EXCEPT ![w] = "Stopping"]
    /\ UNCHANGED <<call, pc, status, loop_>>

\* Mutant: `while (status != Stopped)`.
LeaveLoop_Late(w) ==
    /\ lstatus[w] = "Stopped"
    /\ Step(w, "loop", "exit")
    /\ UNCHANGED <<call, status, loop_, lstatus, stopTask>>

\* EventLoop::run: the while ends; status.store(Stopped).
LeaveLoop(w) ==
    /\ lstatus[w] # "Running"
    /\ Step(w, "loop", "exit")
    /\ UNCHANGED <<call, status, loop_, lstatus, stopTask>>

RunStopped(w) ==
    /\ Step(w, "exit", "clear")
    /\ lstatus' = [lstatus EXCEPT ![w] = "Stopped"]
    /\ UNCHANGED <<call, status, loop_, stopTask>>

\* Mutant: loop_ is not reset.
Clear_None(w) ==
    /\ Step(w, "clear", "stopped")
    /\ UNCHANGED <<call, status, loop_, lstatus, stopTask>>

\* threadFunc: loop_ = nullptr, under the mutex.
Clear(w) ==
    /\ Step(w, "clear", "stopped")
    /\ loop_' = [loop_ EXCEPT ![w] = FALSE]
    /\ UNCHANGED <<call, status, lstatus, stopTask>>

\* Mutant: the store of Stopped is forgotten.
StoreStopped_None(w) ==
    /\ Step(w, "stopped", "dead")
    /\ UNCHANGED <<call, status, loop_, lstatus, stopTask>>

\* threadFunc: status.store(Stopped), and the locals are destroyed.
StoreStopped(w) ==
    /\ Step(w, "stopped", "dead")
    /\ status' = [status EXCEPT ![w] = "Stopped"]
    /\ UNCHANGED <<call, loop_, lstatus, stopTask>>

ThreadFunc(w) ==
    \/ Construct(w) \/ StoreStarting(w) \/ Callback(w) \/ Publish(w)
    \/ StoreRunning(w) \/ RunStarting(w) \/ RunRunning(w) \/ RunStopTask(w)
    \/ LeaveLoop(w) \/ RunStopped(w) \/ Clear(w) \/ StoreStopped(w)

-----------------------------------------------------------------------------
\* startLoop: thread_ = std::jthread(threadFunc).
StartLoop(w) ==
    /\ Calls(w, "new", "startLoop")
    /\ pc' = [pc EXCEPT ![w] = "construct"]
    /\ UNCHANGED <<status, loop_, lstatus, stopTask>>

\* startLoop: the wait ends and the pointer is returned.  A notification that
\* came before, or whose loop_ is null again, is not waited for twice: the
\* owner looks at loop_, whenever it looks.
StartLoopReturns(w) ==
    /\ loop_[w]
    /\ Calls(w, "startLoop", "started")
    /\ UNCHANGED <<pc, status, loop_, lstatus, stopTask>>

\* stop is called by the owner.
CallStop(w) ==
    /\ w \in OwnerStop
    /\ Calls(w, "started", "stop")
    /\ UNCHANGED <<pc, status, loop_, lstatus, stopTask>>

\* stop: the spin ends; status.store(Stopping).  The read and the store are
\* two steps of the owner.
SpinEnds(w) ==
    /\ status[w] = "Running"
    /\ Calls(w, "stop", "stopping")
    /\ UNCHANGED <<pc, status, loop_, lstatus, stopTask>>

StoreStopping(w) ==
    /\ Calls(w, "stopping", "readLoop")
    /\ status' = [status EXCEPT ![w] = "Stopping"]
    /\ UNCHANGED <<pc, loop_, lstatus, stopTask>>

\* stop: loop_ is read, without the mutex.  It may be null again.
ReadLoop(w) ==
    /\ call[w] = "readLoop"
    /\ call' = [call EXCEPT ![w] = IF loop_[w] THEN "loopStop" ELSE "crashed"]
    /\ UNCHANGED <<pc, status, loop_, lstatus, stopTask>>

\* EventLoop::stop, called through the pointer: status.store(Stopping).  The
\* loop may have left its thread's stack since the pointer was read.
LoopStop(w) ==
    /\ call[w] = "loopStop"
    /\ IF Alive(w)
       THEN /\ call' = [call EXCEPT ![w] = "wakeup"]
            /\ lstatus' = [lstatus EXCEPT ![w] = "Stopping"]
       ELSE /\ call' = [call EXCEPT ![w] = "crashed"]
            /\ UNCHANGED lstatus
    /\ UNCHANGED <<pc, status, loop_, stopTask>>

\* EventLoop::stop: isInLoopThread() and wakeup(), which read the loop again
\* after the store that lets its thread leave run() and destroy it.
Wakeup(w) ==
    /\ call[w] = "wakeup"
    /\ call' = [call EXCEPT ![w] = IF Alive(w) THEN "join" ELSE "crashed"]
    /\ UNCHANGED <<pc, status, loop_, lstatus, stopTask>>

\* stop: thread_.join().
Join(w) ==
    /\ pc[w] = "dead"
    /\ Calls(w, "join", "joined")
    /\ UNCHANGED <<pc, status, loop_, lstatus, stopTask>>

\* ~EventLoopThread: stop is called unless the status is Stopped, for a thread
\* that was joined a second time.  With no thread left to stop the members go.
Destroy(w) ==
    /\ call[w] \in {"new", "started", "joined"}
    /\ call' = [call EXCEPT ![w] =
                  IF status[w] = "Stopped" THEN "destroyed" ELSE "stop"]
    /\ UNCHANGED <<pc, status, loop_, lstatus, stopTask>>

Returns(w) ==
    \/ StartLoopReturns(w) \/ SpinEnds(w) \/ StoreStopping(w) \/ ReadLoop(w)
    \/ LoopStop(w) \/ Wakeup(w) \/ Join(w)

Owner(w) == StartLoop(w) \/ CallStop(w) \/ Destroy(w) \/ Returns(w)

Next == \E w \in Workers : ThreadFunc(w) \/ Owner(w)

\* Every thread keeps running, and the loop's blocking wait is bounded, so an
\* iteration ends and the status is read again.  The owner finishes the calls
\* it makes and is under no obligation to make them.
Fairness == \A w \in Workers : WF_vars(ThreadFunc(w)) /\ WF_vars(Returns(w))

Safety == Init /\ [][Next]_vars

Spec == Safety /\ Fairness

-----------------------------------------------------------------------------
TypeOK ==
    /\ call \in [Workers -> CallNames]
    /\ pc \in [Workers -> PcNames]
    /\ status \in [Workers -> StatusNames]
    /\ loop_ \in [Workers -> BOOLEAN]
    /\ lstatus \in [Workers -> StatusNames]
    /\ stopTask \in [Workers -> BOOLEAN]

\* loop_ never points to a loop that threadFunc has destroyed, or has not
\* constructed yet: what startLoop finds it may return.
PublishedLoopAlive == \A w \in Workers : loop_[w] => Alive(w)

\* The owner stores Stopping into a word its thread also writes, and never
\* over the thread's Stopped: after a join the destructor finds Stopped and
\* does not call stop again, whose spin would have no end.
DestructorFindsStopped ==
    \A w \in Workers \ SelfStop : call[w] = "joined" => status[w] = "Stopped"

\* The spin of stop ends, at whatever point of threadFunc it begins.
SpinReturns ==
    \A w \in Workers \ SelfStop : (call[w] = "stop") ~> (call[w] # "stop")

\* A stop that reaches a loop that runs is obeyed: the thread ends.
StopEndsRunningLoop ==
    \A w \in Workers :
        (pc[w] = "loop" /\ lstatus[w] = "Stopping") ~> (pc[w] = "dead")

-----------------------------------------------------------------------------
\* The next four are what the tests of the pool and of the thread take for
\* granted, and the code does not keep.

\* stop() returns: its store reaches the loop, which ends, and the thread is
\* joined.  The loop's run() overwrites a Stopping stored before it.
StopReturns == \A w \in Workers : (call[w] = "join") ~> (call[w] = "joined")

\* stop() touches no loop that is gone.
StopUsesLiveLoop == \A w \in Workers : call[w] # "crashed"

\* startLoop() returns, whatever the tasks queued by the callback do.
StartLoopReturnsAlways ==
    \A w \in Workers : (call[w] = "startLoop") ~> (call[w] # "startLoop")

\* The destructor of a thread whose loop stopped itself returns, it does not
\* spin in stop() for a Running that is over.
DestructorReturns ==
    \A w \in Workers : (call[w] = "stop") ~> (call[w] # "stop")
=============================================================================
