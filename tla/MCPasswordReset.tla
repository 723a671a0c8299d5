--------------------------- MODULE MCPasswordReset ---------------------------
(* PasswordReset for TLC.  Tokens are numbers. *)
EXTENDS PasswordReset, TLC

\* Tokens are interchangeable, so they are issued in their order: symmetry is
\* not sound for a liveness property.
IssuedInOrder ==
    \A t \in Tokens :
      row[t] = "none" /\ row'[t] # "none" => \A u \in Tokens : u < t => row[u] # "none"

=============================================================================
