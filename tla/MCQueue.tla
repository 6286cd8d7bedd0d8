------------------------------ MODULE MCQueue -------------------------------
(* Queue on a small instance, for TLC. *)
EXTENDS Queue
=============================================================================
