----------------------------- MODULE MCClients -----------------------------
(* Clients for TLC: requests and secrets are interchangeable. *)
EXTENDS Clients, TLC

Symmetry == Permutations(Procs) \cup Permutations(Secrets)

\* Scopes to take away, and grants of which either may be missing.  Without
\* openid no code can be issued, and one that asks for it alone loses all its
\* scopes.
MCScopeSets == {{"openid", "offline_access"}, {"offline_access"}}
MCGrantSets == {{"authorization_code"}, {"refresh_token"}}

=============================================================================
