----------------------------- MODULE ByteQueue -----------------------------
(***************************************************************************)
(* What a Buffer is to the code that uses it: a sequence of bytes that is  *)
(* extended at either end, shortened at either end, and has no indices and *)
(* no capacity.  Buffer is shown to implement it.                          *)
(***************************************************************************)
EXTENDS Naturals, Sequences

VARIABLES
    bytes, \* the readable bytes
    op     \* the last call: its name, and its bytes or their number

vars == <<bytes, op>>

Init == bytes = <<>> /\ op = <<"new">>

Change ==
    \/ op'[1] = "append" /\ bytes' = bytes \o op'[2]
    \/ op'[1] = "prepend" /\ bytes' = op'[2] \o bytes
    \/ op'[1] = "retrieve" /\ bytes' = SubSeq(bytes, op'[2] + 1, Len(bytes))
    \/ op'[1] = "read" /\ bytes = op'[2] \o bytes'
    \/ op'[1] = "assign" /\ bytes' = op'[2]
    \/ op'[1] = "unwrite" /\ bytes' = SubSeq(bytes, 1, Len(bytes) - op'[2])
    \/ op'[1] = "reserve" /\ bytes' = bytes

Spec == Init /\ [][Change]_vars
=============================================================================
