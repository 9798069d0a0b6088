--------------------------- MODULE MCThreadCreate ---------------------------
(* ThreadCreate on a small instance. *)
EXTENDS ThreadCreate, TLC

Symmetry == Permutations(Request) \cup Permutations(Key)
=============================================================================
