--------------------------- MODULE MCTokenEndpoint ---------------------------
(* TokenEndpoint for TLC: handlers and tokens are interchangeable. *)
EXTENDS TokenEndpoint, TLC

Symmetry == Permutations(Procs)

\* The tokens are numbers and the least is minted first.  Every behavior is one
\* of these with its tokens renamed, and TLC need not compare the renamings.
MintedInOrder ==
    \A t, u \in Tokens : t < u /\ rt'[u] # "unminted" => rt'[t] # "unminted"
=============================================================================
