------------------------------ MODULE MCVoice ------------------------------
(* Requests are interchangeable, and so are keys. *)
EXTENDS Voice, TLC

Symmetry == Permutations(Request) \cup Permutations(Key)

=============================================================================
