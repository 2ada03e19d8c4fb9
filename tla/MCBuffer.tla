------------------------------ MODULE MCBuffer ------------------------------
(***************************************************************************)
(* A buffer of a few cells.                                                *)
(***************************************************************************)
EXTENDS Buffer
=============================================================================
