----------------------------- MODULE MCIdentity -----------------------------
(* Identity for TLC: replicas and users are interchangeable.               *)
EXTENDS Identity, TLC

Symmetry == Permutations(Replicas) \cup Permutations(Users)
=============================================================================
