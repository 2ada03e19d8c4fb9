------------------------- MODULE MCServerConnection -------------------------
(***************************************************************************)
(* A server with a few connections, which its loops take in turn.          *)
(***************************************************************************)
EXTENDS ServerConnection
=============================================================================
