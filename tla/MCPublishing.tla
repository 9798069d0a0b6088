---------------------------- MODULE MCPublishing ----------------------------
(* Publishing on a small instance. *)
EXTENDS PublishingInvariant, TLC

Symmetry == Permutations(Post)
=============================================================================
