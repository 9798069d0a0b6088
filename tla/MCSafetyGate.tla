---------------------------- MODULE MCSafetyGate ----------------------------
(* SafetyGate on a small instance. *)
EXTENDS SafetyGate, TLC

Symmetry == Permutations(Text)
=============================================================================
