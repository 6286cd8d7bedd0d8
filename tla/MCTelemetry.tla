---------------------------- MODULE MCTelemetry -----------------------------
(* Telemetry on a small instance, for TLC. *)
EXTENDS Telemetry
=============================================================================
