------------------------------ MODULE EventLoop ------------------------------
(***************************************************************************)
(* EventLoop: the thread that waits for I/O, fires timers and drains the   *)
(* task queue, and the threads that hand it tasks and stop it.             *)
(*                                                                         *)
(* The queue is CycleQueue's, whose steps this module conjoins with the    *)
(* loop's own control.  What it adds is the sleep: runOnce works out how   *)
(* long it may block from a counter that other threads raise while it      *)
(* looks, and a thread that raised it calls wakeup afterwards.  What       *)
(* wakeup does depends on the backend: with IOCP it posts a completion     *)
(* that ends the wait, with epoll it does nothing and the wait, which is   *)
(* never longer than MaximumBlockingTime, ends by itself.                  *)
(*                                                                         *)
(* Time is abstract.  One timer stands for the timer set: it is set, and   *)
(* from some updateTime() on the loop sees it due.                         *)
(***************************************************************************)
EXTENDS Integers, FiniteSets

CONSTANTS
    Threads, Loop, NoThread, MaxPosts \* as in CycleQueue

ASSUME ThreadsAssumption ==
    /\ IsFiniteSet(Threads)
    /\ Loop \in Threads
    /\ NoThread \notin Threads

ASSUME MaxPostsAssumption == MaxPosts \in Nat

VARIABLES
    tail, head, size, counting, todo, current, \* CycleQueue's
    status,  \* EventLoop::status
    lpc,     \* where the loop's thread is
    after,   \* where it goes on after TimerEventManager::process
    block,   \* the blocking time runOnce works out
    timer,   \* the timer set: empty, set, or due at the loop's currentTime
    waking,  \* the threads between their count, or their stop, and wakeup()
    wake,    \* IOCP: the wakeup completions that were posted, not received
    own,     \* history: tasks an I/O handler has counted since the poll began
    stoppers, \* bound: the threads that have called stop(), each once
    backend  \* what the build has chosen, "epoll" or "iocp"; never changes

queueVars == <<tail, head, size, counting, todo, current>>
loopVars == <<status, lpc, after, block, timer, waking, wake, own, stoppers, backend>>
vars == <<queueVars, loopVars>>

Q == INSTANCE CycleQueue

\* "new" before run(); "blocktime", "recheck" and "bound" are the reads of
\* calculationBlocktime; "poll" waits and "io" runs the channels' handlers;
\* "fire" and "fired" are TimerEventManager::process and a timer's handler.
LpcNames == {"new", "enter", "while", "blocktime", "recheck", "bound", "poll",
             "io", "fire", "fired", "choose", "cycle", "stopped"}

Init ==
    /\ Q!Init
    /\ status = "Initialized"
    /\ lpc = "new"
    /\ after = "choose"
    /\ block = "zero"
    /\ timer = "none"
    /\ waking = {}
    /\ wake = 0
    /\ own = 0
    /\ stoppers = {}
    /\ backend \in {"epoll", "iocp"}

isIdle == timer = "none" /\ Q!isIdle

\* The loop's thread is in no createEvent, and can take its next step.
LoopFree == Loop \notin counting

\* The thread runs code of the loop's user: before run(), in the handler of a
\* channel, of a timer or of a task.
InHandler == lpc \in {"new", "io", "fired"} \/ (lpc = "cycle" /\ current # NoThread)

Goto(from, to) == LoopFree /\ lpc = from /\ lpc' = to

\* Whether a set timer is due is seen when currentTime is updated.
UpdateTime == timer' \in (IF timer = "set" THEN {"set", "due"} ELSE {timer})

-----------------------------------------------------------------------------
(* What any thread does: queueInLoop and stop.                             *)

\* queueInLoop: createEvent.  A thread calls it once the previous call is over.
Post(t) ==
    /\ t = Loop => InHandler
    /\ t \notin waking
    /\ Q!Push(t)
    /\ UNCHANGED loopVars

CountPost(t) ==
    /\ Q!Count(t)
    /\ waking' = IF t = Loop THEN waking ELSE waking \cup {t}
    /\ own' = IF t = Loop /\ lpc = "io" THEN own + 1 ELSE own
    /\ UNCHANGED <<status, lpc, after, block, timer, wake, stoppers, backend>>

\* Mutant: wakeup does nothing.
Wakeup_None(t) ==
    /\ t \in waking
    /\ waking' = waking \ {t}
    /\ UNCHANGED <<queueVars, status, lpc, after, block, timer, wake, own, stoppers, backend>>

\* queueInLoop, stop: wakeup(), called by a thread other than the loop's.
Wakeup(t) ==
    /\ t \in waking
    /\ waking' = waking \ {t}
    /\ wake' = IF backend = "iocp" THEN wake + 1 ELSE wake
    /\ UNCHANGED <<queueVars, status, lpc, after, block, timer, own, stoppers, backend>>

\* Mutant: stop does not call wakeup.
Stop_NoWakeup(t) ==
    /\ t = Loop => InHandler
    /\ t \notin counting \cup waking \cup stoppers
    /\ stoppers' = stoppers \cup {t}
    /\ status' = "Stopping"
    /\ UNCHANGED <<queueVars, lpc, after, block, timer, waking, wake, own, backend>>

\* stop: status.store(Stopping).
Stop(t) ==
    /\ t = Loop => InHandler
    /\ t \notin counting \cup waking \cup stoppers
    /\ stoppers' = stoppers \cup {t}
    /\ status' = "Stopping"
    /\ waking' = IF t = Loop THEN waking ELSE waking \cup {t}
    /\ UNCHANGED <<queueVars, lpc, after, block, timer, wake, own, backend>>

\* runAfter, runEvery, from a handler: the timer set gets a timer.
SetTimer ==
    /\ InHandler
    /\ LoopFree
    /\ timer = "none"
    /\ timer' = "set"
    /\ UNCHANGED <<queueVars, status, lpc, after, block, waking, wake, own, stoppers, backend>>

-----------------------------------------------------------------------------
(* The loop's thread.                                                      *)

\* run: status.store(Starting), status.store(Running).
RunStarting ==
    /\ Goto("new", "enter")
    /\ status' = "Starting"
    /\ UNCHANGED <<queueVars, after, block, timer, waking, wake, own, stoppers, backend>>

RunRunning ==
    /\ Goto("enter", "while")
    /\ status' = "Running"
    /\ UNCHANGED <<queueVars, after, block, timer, waking, wake, own, stoppers, backend>>

\* Mutant: the loop goes round whatever the status.
RunOnce_Forever ==
    /\ Goto("while", "blocktime")
    /\ UpdateTime
    /\ UNCHANGED <<queueVars, status, after, block, waking, wake, own, stoppers, backend>>

\* run: the while; runOnce: updateTime.
RunOnce ==
    /\ status = "Running"
    /\ Goto("while", "blocktime")
    /\ UpdateTime
    /\ UNCHANGED <<queueVars, status, after, block, waking, wake, own, stoppers, backend>>

RunStopped ==
    /\ status # "Running"
    /\ Goto("while", "stopped")
    /\ status' = "Stopped"
    /\ UNCHANGED <<queueVars, after, block, timer, waking, wake, own, stoppers, backend>>

\* runOnce: processIo(blocktime).
EnterPoll(b) == lpc' = "poll" /\ block' = b /\ own' = 0

\* calculationBlocktime: isIdle(), and the timers that are overdue.
IdleBlocks ==
    /\ lpc = "blocktime"
    /\ isIdle
    /\ EnterPoll("max")
    /\ UNCHANGED <<queueVars, status, after, timer, waking, wake, stoppers, backend>>

FireOverdue ==
    /\ ~isIdle
    /\ timer = "due"
    /\ Goto("blocktime", "fire")
    /\ after' = "recheck"
    /\ UNCHANGED <<queueVars, status, block, timer, waking, wake, own, stoppers, backend>>

\* A timer that is due at currentTime to the tick is not overdue.
NoneOverdue ==
    /\ ~isIdle
    /\ Goto("blocktime", "recheck")
    /\ UNCHANGED <<queueVars, status, after, block, timer, waking, wake, own, stoppers, backend>>

\* calculationBlocktime: !cycleEventManager.isIdle().
RecheckQueue ==
    /\ lpc = "recheck"
    /\ IF Q!isIdle THEN lpc' = "bound" /\ UNCHANGED <<block, own>>
                   ELSE EnterPoll("zero")
    /\ UNCHANGED <<queueVars, status, after, timer, waking, wake, stoppers, backend>>

\* calculationBlocktime: isIdle() again, or until the next timer, a second if
\* a task was counted meanwhile and there is none.
BoundBlock ==
    /\ lpc = "bound"
    /\ EnterPoll(IF isIdle THEN "max" ELSE "next")
    /\ UNCHANGED <<queueVars, status, after, timer, waking, wake, stoppers, backend>>

\* FdEventManager::process returns, and runOnce goes on to the timers; it
\* updates the time unless it did not block.
LeavePoll ==
    /\ lpc' = "fire"
    /\ after' = "choose"
    /\ IF block = "zero" THEN UNCHANGED timer ELSE UpdateTime

\* The wait is over, or the I/O there was took its time.  With IOCP the wait
\* goes on after a handler until the time is up.
Timeout ==
    /\ LoopFree
    /\ lpc = "poll" \/ (lpc = "io" /\ backend = "iocp")
    /\ LeavePoll
    /\ UNCHANGED <<queueVars, status, block, waking, wake, own, stoppers, backend>>

\* An event: epoll_wait looks for one even if it may not block, the loop of
\* the IOCP process is not entered then.
Event ==
    /\ backend = "epoll" \/ block # "zero"
    /\ Goto("poll", "io")
    /\ UNCHANGED <<queueVars, status, after, block, timer, waking, wake, own, stoppers, backend>>

\* epoll: one wait, and the handlers of its events.
EventHandled ==
    /\ backend = "epoll"
    /\ LoopFree
    /\ lpc = "io"
    /\ LeavePoll
    /\ UNCHANGED <<queueVars, status, block, waking, wake, own, stoppers, backend>>

\* IOCP: back to GetQueuedCompletionStatus, with the time that is left.
WaitOn ==
    /\ backend = "iocp"
    /\ Goto("io", "poll")
    /\ UNCHANGED <<queueVars, status, after, block, timer, waking, wake, own, stoppers, backend>>

\* IOCP: a wakeup completion ends the wait.
Woken ==
    /\ wake > 0
    /\ block # "zero"
    /\ lpc = "poll"
    /\ wake' = wake - 1
    /\ LeavePoll
    /\ UNCHANGED <<queueVars, status, block, waking, own, stoppers, backend>>

\* TimerEventManager::process: a timer that is due is removed and handled.
FireTimer ==
    /\ timer = "due"
    /\ Goto("fire", "fired")
    /\ timer' = "none"
    /\ UNCHANGED <<queueVars, status, after, block, waking, wake, own, stoppers, backend>>

TimerHandled ==
    /\ Goto("fired", "fire")
    /\ UNCHANGED <<queueVars, status, after, block, timer, waking, wake, own, stoppers, backend>>

TimersDone ==
    /\ timer # "due"
    /\ Goto("fire", after)
    /\ IF after = "recheck" THEN UpdateTime ELSE UNCHANGED timer
    /\ UNCHANGED <<queueVars, status, after, block, waking, wake, own, stoppers, backend>>

\* Mutant: the cycle is left out.
NoCycle_Always ==
    /\ Goto("choose", "while")
    /\ UNCHANGED <<queueVars, status, after, block, timer, waking, wake, own, stoppers, backend>>

\* runOnce: nothing to do, or a processCycle that finds nothing counted.
NoCycle ==
    /\ Q!isIdle
    /\ Goto("choose", "while")
    /\ UNCHANGED <<queueVars, status, after, block, timer, waking, wake, own, stoppers, backend>>

\* runOnce: processCycle, CycleQueue's BeginProcess, Take and Drop.
BeginCycle ==
    /\ Q!BeginProcess
    /\ Goto("choose", "cycle")
    /\ UNCHANGED <<status, after, block, timer, waking, wake, own, stoppers, backend>>

TakeTask ==
    /\ lpc = "cycle"
    /\ Q!TakeSome
    /\ UNCHANGED loopVars

TaskHandled ==
    /\ lpc = "cycle"
    /\ Q!Drop
    /\ lpc' = IF todo' = 0 THEN "while" ELSE "cycle"
    /\ UNCHANGED <<status, after, block, timer, waking, wake, own, stoppers, backend>>

LoopStep ==
    \/ RunRunning \/ RunOnce \/ RunStopped
    \/ IdleBlocks \/ FireOverdue \/ NoneOverdue \/ RecheckQueue \/ BoundBlock
    \/ EventHandled \/ WaitOn \/ Woken
    \/ FireTimer \/ TimerHandled \/ TimersDone
    \/ NoCycle \/ BeginCycle \/ TakeTask \/ TaskHandled

Next ==
    \/ \E t \in Threads : Post(t) \/ CountPost(t) \/ Wakeup(t) \/ Stop(t)
    \/ RunStarting \/ SetTimer \/ Timeout \/ Event \/ LoopStep

\* Threads run, handlers return, and a wait ends when its time is up, however
\* many events come in meanwhile.  Nobody has to call run(), post, stop or set
\* a timer, and no event has to come.
Fairness ==
    /\ WF_vars(LoopStep)
    /\ SF_vars(Timeout)
    /\ \A t \in Threads : WF_vars(CountPost(t)) /\ WF_vars(Wakeup(t))

Spec == Init /\ [][Next]_vars /\ Fairness

-----------------------------------------------------------------------------
TypeOK ==
    /\ Q!TypeOK
    /\ status \in {"Initialized", "Starting", "Running", "Stopping", "Stopped"}
    /\ lpc \in LpcNames
    /\ after \in {"recheck", "choose"}
    /\ block \in {"zero", "next", "max"}
    /\ timer \in {"none", "set", "due"}
    /\ waking \subseteq Threads \ {Loop}
    /\ wake \in Nat
    /\ own \in Nat
    /\ stoppers \subseteq Threads
    /\ backend \in {"epoll", "iocp"}

Asleep == lpc = "poll" /\ block # "zero"

\* A wakeup is never lost: while the loop waits although a task is counted,
\* which another thread counted after the loop had looked, the completion that
\* ends the wait is there or the thread is about to post it.  It holds of the
\* backend whose wakeup posts one; tasks the handlers of this wait have posted
\* themselves wake nobody.
WakeupNotLost ==
    (backend = "iocp" /\ Asleep /\ size > own) => (wake > 0 \/ waking # {})

\* The same for a stop: the loop does not wait through it.
StopNotSleptThrough ==
    (backend = "iocp" /\ Asleep /\ status = "Stopping") => (wake > 0 \/ waking # {} \/ Loop \in stoppers)

\* A task that was handed over is started, unless the loop has stopped: the
\* sleep may delay it, in the worst case for the whole wait, but not for good.
NoTaskForgotten ==
    \A t \in Threads :
        (head[t] < tail[t] /\ status = "Running")
            ~> (head[t] = tail[t] \/ status # "Running")

\* Once run() has stored Running a stop ends the loop, whoever calls it, and
\* whatever the queue and the timers hold.
StopObeyed == (status = "Stopping" /\ lpc \notin {"new", "enter"}) ~> (lpc = "stopped")

\* Under the loop, too, the queue's counter and its items never drift apart, however
\* the reads of the blocking time fall between the two steps of a post.
Accounting == Q!Accounting
=============================================================================
