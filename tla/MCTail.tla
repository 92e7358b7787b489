------------------------------- MODULE MCTail -------------------------------
(* Three lines and one rotation, read three halves at a time.               *)
EXTENDS Tail
=============================================================================
