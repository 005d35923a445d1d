----------------------------- MODULE MCSessions -----------------------------
(* Calls are interchangeable. *)
EXTENDS Sessions, TLC

Symmetry == Permutations(Call)

=============================================================================
