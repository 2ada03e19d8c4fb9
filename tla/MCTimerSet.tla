----------------------------- MODULE MCTimerSet -----------------------------
(***************************************************************************)
(* TimerSet with a few timers and a clock that stops at MaxNow.            *)
(***************************************************************************)
EXTENDS TimerSet
=============================================================================
