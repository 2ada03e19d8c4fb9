---------------------------- MODULE TaskExecutor ----------------------------
(***************************************************************************)
(* What EventLoop::queueInLoop promises, with no queue and no counter: a   *)
(* task handed over by a thread is executed once, one task at a time, in   *)
(* the order in which that thread handed its tasks over, and no task waits *)
(* for ever.  CycleQueue is shown to implement it.                         *)
(*                                                                         *)
(* The tasks of a thread are numbered from 1, so a count says which of     *)
(* them were submitted and which of them were started.                     *)
(***************************************************************************)
EXTENDS Naturals

CONSTANTS
    Threads,   \* the threads that submit tasks
    NoThread   \* no task is being executed

VARIABLES
    submitted, \* submitted[t]: how many tasks t has handed over
    started,   \* started[t]: how many of them have been started
    executing  \* the thread whose task is being executed, or NoThread

vars == <<submitted, started, executing>>

Init ==
    /\ submitted = [t \in Threads |-> 0]
    /\ started = [t \in Threads |-> 0]
    /\ executing = NoThread

Submit(t) ==
    /\ submitted' = [submitted EXCEPT ![t] = @ + 1]
    /\ UNCHANGED <<started, executing>>

\* The oldest task of t that has not been started.
Start(t) ==
    /\ executing = NoThread
    /\ started[t] < submitted[t]
    /\ started' = [started EXCEPT ![t] = @ + 1]
    /\ executing' = t
    /\ UNCHANGED submitted

Finish ==
    /\ executing # NoThread
    /\ executing' = NoThread
    /\ UNCHANGED <<submitted, started>>

StartSome == \E t \in Threads : Start(t)

Next == (\E t \in Threads : Submit(t)) \/ StartSome \/ Finish

Safety == Init /\ [][Next]_vars

\* A submitted task is picked while there is one, and a task that was picked
\* is finished.
Spec == Safety /\ WF_vars(StartSome) /\ WF_vars(Finish)
=============================================================================
