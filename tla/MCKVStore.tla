----------------------------- MODULE MCKVStore ------------------------------
(* KVStore on a small instance, for TLC. *)
EXTENDS KVStore, TLC

\* Keys, values and callers are interchangeable; used where no liveness
\* property is checked.
Symmetry ==
  Permutations(Keys) \cup Permutations(Values) \cup Permutations(Callers)
=============================================================================
