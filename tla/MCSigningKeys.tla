--------------------------- MODULE MCSigningKeys ---------------------------
(* SigningKeys for TLC: keys and requests are interchangeable. *)
EXTENDS SigningKeys, TLC

Symmetry == Permutations(Keys) \cup Permutations(Tasks)
=============================================================================
