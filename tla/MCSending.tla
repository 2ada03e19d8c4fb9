----------------------------- MODULE MCSending -----------------------------
(***************************************************************************)
(* A connection that the loop's thread and another one send on.            *)
(***************************************************************************)
EXTENDS Sending
=============================================================================
