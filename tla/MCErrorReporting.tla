-------------------------- MODULE MCErrorReporting --------------------------
(* Threads and messages are interchangeable. *)
EXTENDS ErrorReporting, TLC

Symmetry == Permutations(Threads) \cup Permutations(Messages)
=============================================================================
