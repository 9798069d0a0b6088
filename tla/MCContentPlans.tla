--------------------------- MODULE MCContentPlans ---------------------------
(* ContentPlans on a small instance. *)
EXTENDS ContentPlans, TLC

Symmetry == Permutations(Client) \cup Permutations(Copy)
=============================================================================
