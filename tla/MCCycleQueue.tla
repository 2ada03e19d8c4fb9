---------------------------- MODULE MCCycleQueue ----------------------------
(***************************************************************************)
(* CycleQueue on a small instance: two threads that post from outside and  *)
(* the loop's own thread, each with up to MaxPosts tasks.                  *)
(***************************************************************************)
EXTENDS CycleQueue
=============================================================================
