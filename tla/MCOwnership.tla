----------------------------- MODULE MCOwnership ----------------------------
(* Ownership for TLC: heap objects and variables of one class are alike. *)
EXTENDS Ownership, TLC

Symmetry == Permutations(Readers) \cup Permutations(Writers) \cup Permutations(Adapters)
              \cup Permutations(Handles) \cup Permutations(Copies)
=============================================================================
