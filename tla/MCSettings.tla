------------------------------ MODULE MCSettings ------------------------------
(* Settings for TLC: two keys where a handler has several. *)
EXTENDS Settings, Sequences

MCSecurityKeys == {"mfa_required", "lockout_threshold"}
MCTokenKeys == {"access_token_ttl_secs"}
MCEmailKeys == {PasswordKey}

MCOrder == <<NameKey, "mfa_required", "lockout_threshold", "access_token_ttl_secs", PasswordKey>>
MCRank == [k \in ConfigKeys |-> CHOOSE i \in 1..Len(MCOrder) : MCOrder[i] = k]

\* Only the flag may be set to the zero value of its type.
MCValid == [k \in ConfigKeys |-> IF k = "mfa_required" THEN Values ELSE Values \ {Zero}]
=============================================================================
