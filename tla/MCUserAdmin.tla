---------------------------- MODULE MCUserAdmin ----------------------------
EXTENDS UserAdmin, TLC

Call(o, r) == [op |-> o, newRole |-> r]

\* No request makes a super_admin: Create and Update ask for the role "user".
\* (An Update without a role writes back the role it read, which may make one.)
NoGrants == {Call("disable", "keep"), Call("enable", "keep"), Call("delete", "keep"),
             Call("update", "user"), Call("create", "user")}

AllRequests == {q \in Calls : /\ q.newRole # "keep" => q.op \in {"create", "update"}
                              /\ q.op = "create" => q.newRole # "keep"}

Symmetry == Permutations(Users) \cup Permutations(Handlers)

=============================================================================
