------------------------------ MODULE MCBroker ------------------------------
(* Broker on a small instance, for TLC. *)
EXTENDS Broker, TLC

\* Handlers and subscriber ids are interchangeable; used where no liveness
\* property is checked.
Symmetry == Permutations(Handlers) \cup Permutations(SubIds)
=============================================================================
