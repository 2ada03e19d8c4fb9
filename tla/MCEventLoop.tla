----------------------------- MODULE MCEventLoop -----------------------------
(***************************************************************************)
(* One loop, of either build, and a thread that hands it tasks and stops   *)
(* it; the loop's own handlers do the same.                                *)
(***************************************************************************)
EXTENDS EventLoop
=============================================================================
