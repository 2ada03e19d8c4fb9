------------------------- MODULE MCClientConnection -------------------------
(***************************************************************************)
(* One client, its connector and its connection.                           *)
(***************************************************************************)
EXTENDS ClientConnection
=============================================================================
