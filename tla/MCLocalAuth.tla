---------------------------- MODULE MCLocalAuth ----------------------------
(* LocalAuth on a small instance. *)
EXTENDS LocalAuth, TLC

Symmetry == Permutations(Session) \cup Permutations(Client) \cup Permutations(Request)
=============================================================================
