------------------------- MODULE MCEventLoopThread -------------------------
(***************************************************************************)
(* EventLoopThread on one or two threads, each with its own owner.         *)
(***************************************************************************)
EXTENDS EventLoopThread
=============================================================================
