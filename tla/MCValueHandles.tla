--------------------------- MODULE MCValueHandles ---------------------------
(* The addresses of values are interchangeable. *)
EXTENDS ValueHandles, TLC

Addresses == Permutations(Handles)
=============================================================================
