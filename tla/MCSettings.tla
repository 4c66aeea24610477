----------------------------- MODULE MCSettings -----------------------------
(* Small instances of Settings. *)
EXTENDS Settings, TLC

Symmetry == Permutations(Codes) \cup Permutations(Requests)
=============================================================================
