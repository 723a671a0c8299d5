---------------------------- MODULE MCRateLimiter ----------------------------
(* RateLimiter for TLC: requests are interchangeable, and so are members. *)
EXTENDS RateLimiter, TLC

Symmetry == Permutations(Procs) \cup Permutations(Members)
=============================================================================
