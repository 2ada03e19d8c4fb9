----------------------------- MODULE MCAcceptor -----------------------------
(***************************************************************************)
(* An acceptor with room for two connections beside its own files.         *)
(***************************************************************************)
EXTENDS Acceptor

MCObjects == Conns \cup Loops \cup {Listen, Spare}
=============================================================================
