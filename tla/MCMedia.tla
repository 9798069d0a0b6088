------------------------------- MODULE MCMedia -------------------------------
(* The media library for TLC: media, posts and requests are interchangeable. *)
EXTENDS Media, TLC

Symmetry == Permutations(Media) \cup Permutations(Post) \cup Permutations(Request)
=============================================================================
