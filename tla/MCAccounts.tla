----------------------------- MODULE MCAccounts -----------------------------
(* Accounts with two external accounts, one of them a member's. *)
EXTENDS Accounts, TLC

(* Requests are interchangeable. *)
Symmetry == Permutations(Client)
=============================================================================
