------------------------------ MODULE MCWinevt ------------------------------
(* Batches of two through a channel of one, over a log that is cleared once. *)
EXTENDS Winevt
=============================================================================
