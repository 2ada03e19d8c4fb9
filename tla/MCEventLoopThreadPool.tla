----------------------- MODULE MCEventLoopThreadPool -----------------------
(***************************************************************************)
(* A pool of three loops, the base loop and two threads, and a thread      *)
(* without a pool.                                                         *)
(***************************************************************************)
EXTENDS EventLoopThreadPool
=============================================================================
