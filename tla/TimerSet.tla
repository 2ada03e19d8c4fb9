------------------------------ MODULE TimerSet ------------------------------
(***************************************************************************)
(* TimerEventManager and its timers: runAfter, runEvery, and the pass over *)
(* the set that fires what is due.                                         *)
(*                                                                         *)
(* The set is a std::set of pointers ordered by the timeout they point to. *)
(* Two consequences of that order are modelled as they are: a timer whose  *)
(* timeout is that of another one is not inserted, and a timer that        *)
(* changes its timeout while it is in the set (RepeatTimerEventWatcher     *)
(* does) stays where it is, whatever the order says from then on.          *)
(*                                                                         *)
(* The set is the sequence of its in-order traversal.  In a set that is    *)
(* out of order the place of an insertion depends on the shape of the      *)
(* tree: it is any gap a descent can end in.                               *)
(***************************************************************************)
EXTENDS Integers, Sequences, SequencesExt

CONSTANTS
    Once,    \* the timers of runAfter
    Every,   \* the timers of runEvery
    Delays,  \* the delays given to runAfter
    Interval,\* the interval given to runEvery
    Repeat,  \* the repeat given to runEvery, or Infinite
    End,     \* timerSet.end(), and no timer
    Late,    \* bound: how far the time moves from one pass to the next
    MaxNow   \* bound: the time at which the model stops

Infinite == -1

ASSUME TimerAssumption ==
    /\ Once \cap Every = {}
    /\ End \notin Once \cup Every
    /\ Delays \subseteq Nat
    /\ Interval \in Nat
    /\ Repeat \in Nat \cup {Infinite}
    /\ Late \in Nat \ {0}
    /\ MaxNow \in Nat

Timers == Once \cup Every

VARIABLES
    timerSet, \* the in-order traversal of the set
    timeout,  \* timeout[t]: when t is due
    repeat,   \* repeat[t]: RepeatTimerEventWatcher::repeat
    created,  \* the timers that were created
    posted,   \* those of other threads, whose add waits in the loop's queue
    now,      \* EventLoop::currentTime
    it,       \* process: the iterator, a timer or End
    pc,       \* "out", "scan" at the head of the loop, "handler" in a handler
    firing,   \* the timer whose handler runs, or End
    fired     \* history: fired[t], how often t's handler was called

timerVars == <<timerSet, timeout, repeat, created, posted, now, it, pc, firing, fired>>

TimerInit ==
    /\ timerSet = <<>>
    /\ timeout = [t \in Timers |-> 0]
    /\ repeat = [t \in Timers |-> Repeat]
    /\ created = {}
    /\ posted = {}
    /\ now = 0
    /\ it = End
    /\ pc = "out"
    /\ firing = End
    /\ fired = [t \in Timers |-> 0]

\* The gaps a descent for key k can end in: it has gone right of the element
\* before the gap and left of the one after it.
Gaps(s, k) ==
    {p \in 1 .. Len(s) + 1 :
        /\ p > 1 => timeout[s[p - 1]] <= k
        /\ p <= Len(s) => k < timeout[s[p]]}

\* What emplace can make of the set: nothing is inserted next to an equal key.
Emplaced(s, t, k) ==
    {IF p > 1 /\ timeout[s[p - 1]] = k THEN s ELSE InsertAt(s, p, t) : p \in Gaps(s, k)}

Place(t) == SelectInSeq(timerSet, LAMBDA u : u = t)

\* The element after the one at place p.
Successor(p) == IF p = Len(timerSet) THEN End ELSE timerSet[p + 1]

-----------------------------------------------------------------------------
\* updateTime, between two passes.
UpdateNow ==
    /\ pc = "out"
    /\ now' \in (now + 1 .. now + Late) \cap (0 .. MaxNow)
    /\ UNCHANGED <<timerSet, timeout, repeat, created, posted, it, pc, firing, fired>>

\* The constructors: the timeout is reckoned from the loop's currentTime.
Construct(t, delay) ==
    /\ t \notin created
    /\ created' = created \cup {t}
    /\ timeout' = [timeout EXCEPT ![t] = now + delay]

\* runAfter and runEvery, called by the loop's thread: create adds the timer
\* at once, outside a pass or in the middle of one, from a handler.
Create(t, delay) ==
    /\ pc # "scan"
    /\ Construct(t, delay)
    /\ timerSet' \in Emplaced(timerSet, t, now + delay)
    /\ UNCHANGED <<repeat, posted, now, it, pc, firing, fired>>

\* The same from another thread: create queues a task that adds the timer.
CreateRemote(t, delay) ==
    /\ Construct(t, delay)
    /\ posted' = posted \cup {t}
    /\ UNCHANGED <<timerSet, repeat, now, it, pc, firing, fired>>

\* The task runs, later: the timer may be due before it is in the set.
AddPosted(t) ==
    /\ pc = "out"
    /\ t \in posted
    /\ posted' = posted \ {t}
    /\ timerSet' \in Emplaced(timerSet, t, timeout[t])
    /\ UNCHANGED <<timeout, repeat, created, now, it, pc, firing, fired>>

RunAfter == \E t \in Once, delay \in Delays : Create(t, delay) \/ CreateRemote(t, delay)

RunEvery == \E t \in Every : Create(t, Interval) \/ CreateRemote(t, Interval)

\* Mutant: cancel reaches TimerEventManager::cancel.
Cancel_Erases(t) ==
    /\ pc # "scan"
    /\ t \in created
    /\ timerSet' = Remove(timerSet, t)
    /\ UNCHANGED <<timeout, repeat, created, posted, now, it, pc, firing, fired>>

\* InvokeTimer::cancel calls the watcher's cancelCallback, which is
\* InvokeTimer::onCancel and empty: the timer stays in the set.
Cancel(t) ==
    /\ pc # "scan"
    /\ t \in created
    /\ UNCHANGED timerVars

\* process: begin().
BeginProcess ==
    /\ pc = "out"
    /\ it' = IF timerSet = <<>> THEN End ELSE Head(timerSet)
    /\ pc' = "scan"
    /\ UNCHANGED <<timerSet, timeout, repeat, created, posted, now, firing, fired>>

\* process: a timer that is due is erased and its handler called.
Fire ==
    /\ pc = "scan"
    /\ it # End
    /\ timeout[it] <= now
    /\ LET p == Place(it) IN
        /\ timerSet' = RemoveAt(timerSet, p)
        /\ it' = Successor(p)
    /\ firing' = it
    /\ fired' = [fired EXCEPT ![it] = @ + 1]
    /\ pc' = "handler"
    /\ UNCHANGED <<timeout, repeat, created, posted, now>>

\* Mutant: one timer is fired in a pass.
EndProcess_AfterOne ==
    /\ pc = "scan"
    /\ it' = End
    /\ pc' = "out"
    /\ UNCHANGED <<timerSet, timeout, repeat, created, posted, now, firing, fired>>

\* process: the end of the set, or a timer that is not due, ends the pass.
EndProcess ==
    /\ pc = "scan"
    /\ it # End => timeout[it] > now
    /\ it' = End
    /\ pc' = "out"
    /\ UNCHANGED <<timerSet, timeout, repeat, created, posted, now, firing, fired>>

HandlerDone ==
    /\ pc = "handler"
    /\ pc' = "scan"
    /\ firing' = End

\* TimerEventWatcher::handle, and RepeatTimerEventWatcher::handle with no
\* repeat left.
HandledLast ==
    /\ HandlerDone
    /\ firing \in Once \/ repeat[firing] = 0
    /\ UNCHANGED <<timerSet, timeout, repeat, created, posted, now, it, fired>>

\* RepeatTimerEventWatcher::handle: the timer is added under its old timeout,
\* and gets its new one when it is in the set.
HandledRepeat ==
    /\ HandlerDone
    /\ firing \in Every
    /\ repeat[firing] # 0
    /\ timerSet' \in Emplaced(timerSet, firing, timeout[firing])
    /\ timeout' = [timeout EXCEPT ![firing] = now + Interval]
    /\ repeat' = [repeat EXCEPT ![firing] = IF @ = Infinite THEN @ ELSE @ - 1]
    /\ UNCHANGED <<created, posted, now, it, fired>>

TimerNext ==
    \/ UpdateNow \/ RunAfter \/ RunEvery
    \/ BeginProcess \/ Fire \/ EndProcess \/ HandledLast \/ HandledRepeat
    \/ \E t \in Timers : AddPosted(t) \/ Cancel(t)

TimerSpec == TimerInit /\ [][TimerNext]_timerVars

-----------------------------------------------------------------------------
InSet == {timerSet[i] : i \in DOMAIN timerSet}

\* The timers that are in the set although their time has come.
Due == {t \in InSet : timeout[t] <= now}

TimerTypeOK ==
    /\ timerSet \in Seq(created)
    /\ timeout \in [Timers -> Nat]
    /\ repeat \in [Timers -> Nat \cup {Infinite}]
    /\ created \subseteq Timers
    /\ posted \subseteq created
    /\ now \in 0 .. MaxNow
    /\ it \in Timers \cup {End}
    /\ pc \in {"out", "scan", "handler"}
    /\ firing \in Timers \cup {End}
    /\ fired \in [Timers -> Nat]

\* The iterator process() keeps across a handler stays valid: whatever timers
\* the handler creates or cancels, its element is in the set.
IteratorValid == it # End => it \in InSet

\* Until a timer of runEvery comes along, a pass leaves no timer behind that is
\* due, unless its own handlers have created it with no delay.
PassFiresDue ==
    [][(created \cap Every = {} /\ pc = "scan" /\ pc' = "out")
           => \A t \in Due : timeout[t] = now]_timerVars

-----------------------------------------------------------------------------
\* What the test of the loop takes for granted and the code does not keep.

\* A timer of runAfter fires in the first pass after its time has come: it is
\* not left waiting behind a timer that is not due.  (With positive delays no
\* timer that a pass leaves behind was created due by one of its handlers.)
RunAfterOnTime == [][(pc = "scan" /\ pc' = "out") => Due \cap Once = {}]_timerVars

\* A timer of runEvery that has fired and has repeats left goes on.
RunEveryGoesOn ==
    \A t \in Every : fired[t] > 0 /\ repeat[t] # 0 => t \in InSet \cup {firing}
=============================================================================
