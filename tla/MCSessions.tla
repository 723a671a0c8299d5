----------------------------- MODULE MCSessions -----------------------------
(* Sessions for TLC: tokens and requests are interchangeable. *)
EXTENDS Sessions, TLC

Symmetry == Permutations(Tokens) \cup Permutations(Procs)
=============================================================================
