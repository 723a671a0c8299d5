------------------------------- MODULE OneShot -------------------------------
(***************************************************************************)
(* What a single-use credential promises, whatever stores it: the          *)
(* authorization code (module TokenEndpoint), the link that resets a       *)
(* password (PasswordReset) and the recovery code (Challenge) implement    *)
(* this specification.  A credential is used in one atomic step, which     *)
(* spends it; a spent or void one never becomes usable again.              *)
(***************************************************************************)
EXTENDS Naturals

CONSTANT Ids

VARIABLES
    state,      \* "unissued", "live", "spent" or "void"
    uses        \* how often each credential has been used

vars == <<state, uses>>

\* Some credentials may already have been handed out.
Init ==
    /\ state \in [Ids -> {"unissued", "live"}]
    /\ uses = [i \in Ids |-> 0]

\* A credential is issued; older ones may be withdrawn with it.
Issue(i, old) ==
    /\ state[i] = "unissued"
    /\ \A o \in old : state[o] = "live"
    /\ state' = [j \in Ids |-> IF j = i THEN "live" ELSE IF j \in old THEN "void" ELSE state[j]]
    /\ UNCHANGED uses

Spend(i) ==
    /\ state[i] = "live"
    /\ state' = [state EXCEPT ![i] = "spent"]
    /\ uses' = [uses EXCEPT ![i] = @ + 1]

Withdraw(old) ==
    /\ \A o \in old : state[o] = "live"
    /\ state' = [j \in Ids |-> IF j \in old THEN "void" ELSE state[j]]
    /\ UNCHANGED uses

Next ==
    \/ \E old \in SUBSET Ids : Withdraw(old)
    \/ \E i \in Ids : Spend(i)
    \/ \E i \in Ids, old \in SUBSET Ids : Issue(i, old)

Spec == Init /\ [][Next]_vars

=============================================================================
