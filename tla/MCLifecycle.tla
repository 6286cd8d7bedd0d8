---------------------------- MODULE MCLifecycle -----------------------------
(* Lifecycle on a small instance, for TLC. *)
EXTENDS Lifecycle
=============================================================================
