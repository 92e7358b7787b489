----------------------------- MODULE MCCapture -----------------------------
(* A channel that a slow main task fills, and limits that a run reaches. *)
EXTENDS Capture
=============================================================================
