----------------------------- MODULE MCEnrollment -----------------------------
(* Enrollment for TLC: requests, tokens and secrets are interchangeable. *)
EXTENDS Enrollment, TLC

Symmetry == Permutations(Procs) \cup Permutations(Tokens) \cup Permutations(Secrets)
=============================================================================
