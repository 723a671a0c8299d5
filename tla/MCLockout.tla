------------------------------ MODULE MCLockout ------------------------------
(* Lockout for TLC: logins are interchangeable. *)
EXTENDS Lockout, TLC

Symmetry == Permutations(Logins)
=============================================================================
