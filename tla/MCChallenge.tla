----------------------------- MODULE MCChallenge -----------------------------
(* Challenge for TLC: requests are interchangeable. *)
EXTENDS Challenge, TLC

Symmetry == Permutations(Procs)
=============================================================================
