---------------------------- MODULE MCOverlapped ----------------------------
(***************************************************************************)
(* Three connections: one that its user shuts down, one that fills the     *)
(* buffer and is answered, and one that may get a number for the second    *)
(* time.                                                                   *)
(***************************************************************************)
EXTENDS Overlapped, TLC

CONSTANTS c1, c2, c3

MCBytes == c1 :> 0 @@ c2 :> 3 @@ c3 :> 0
MCSends == c1 :> 0 @@ c2 :> 1 @@ c3 :> 0
MCEnds == c1 :> {} @@ c2 :> {"fin", "reset"} @@ c3 :> {}
=============================================================================
