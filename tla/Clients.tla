------------------------------- MODULE Clients -------------------------------
(***************************************************************************)
(* One OIDC client: its administration (internal/clients), and the         *)
(* requests of its users and of the client itself that read its row while  *)
(* it changes: /authorize, both grants of /token, and the client cutoff    *)
(* that the bearer middleware compares.  What /token does with a code or a *)
(* refresh token is in module TokenEndpoint; here a grant is its reads of  *)
(* the client, the locks it takes and the token it signs.  A write of the  *)
(* clients row commits in the step that makes it, but for PatchOne and     *)
(* DeleteOne, which hold the row's lock from one step to the next.  Name   *)
(* and redirect URIs are patched and audited like the two fields of config *)
(* and decide nothing here.                                                *)
(***************************************************************************)
EXTENDS Integers

CONSTANTS
    Procs,
    NoProc,         \* the owner of a row that nobody has locked
    Secrets,        \* client secrets that may be generated (a bound)
    NoSecret,
    ScopeSets,      \* values of allowed_scopes ...
    GrantSets,      \* ... and of allowed_grant_types that requests ask for
    Overlap,        \* clientSecretOverlapTTL
    MaxClock        \* bound on the clock

ASSUME ClientsAssumption ==
    /\ NoProc \notin Procs /\ NoSecret \notin Secrets
    /\ \A g \in GrantSets : g \subseteq {"authorization_code", "refresh_token"}
    /\ Overlap \in Nat /\ MaxClock \in Nat

VARIABLES
    clock,
    status,                 \* of the row; "none" before and "deleted" after it exists
    config,                 \* allowed_scopes and allowed_grant_types
    secret, previous,       \* secret_hash, secret_hash_previous ...
    previousExp,            \* ... and secret_previous_expires_at
    rowLock,                \* the request that holds the client's row
    code, codeScopes,       \* a row of authorization_codes: "dead" is used or expired
    codeLock,
    refresh,                \* the scopes of each refresh token of the client
    cutoff,                 \* client:revoke_before, 0 when it is not set
    pc,
    row,                    \* the copy of config a request has read
    scopes, iat,            \* of the code or token a request is about to issue
    fresh, freshExp,        \* the secret a rotation has generated and its expiry
    \* History, read by properties only:
    trail,                  \* audit rows that lead to a value of config, less those from it
    installed,              \* secrets that have been the client's
    access,                 \* iat of the access tokens of requests not late
    overtaken,              \* requests whose copy was read before a change ...
    late                    \* ... and refresh grants that read it before DeleteOne

registration == <<status, config, secret, previous, previousExp, rowLock>>
issue == <<code, codeScopes, codeLock, refresh>>
locals == <<row, scopes, iat, fresh, freshExp>>
history == <<trail, installed, access, overtaken, late>>
vars == <<clock, registration, issue, cutoff, pc, locals, history>>

AdminSteps == {"patch", "rotate", "delete", "cutoff"}
CodeSteps == {"consume", "codeSign", "codeCommit"}
RefreshSteps == {"payload", "refreshSign", "refreshCommit"}

\* Requests that act on the copy they have read.
Reading == CodeSteps \cup RefreshSteps \cup {"insert"}

AllScopes == UNION ScopeSets
Registrations == [scopes : ScopeSets, grants : GrantSets]
Configs == [scopes : ScopeSets \cup {{}}, grants : GrantSets \cup {{}}]
NoConfig == [scopes |-> {}, grants |-> {}]
Trails == [scopes : [ScopeSets \cup {{}} -> Int], grants : [GrantSets \cup {{}} -> Int]]

TypeOK ==
    /\ clock \in 0..MaxClock /\ cutoff \in 0..(MaxClock + 1)
    /\ status \in {"none", "active", "disabled", "deleted"}
    /\ config \in Configs /\ trail \in Trails
    /\ secret \in Secrets \cup {NoSecret} /\ previous \in Secrets \cup {NoSecret}
    /\ previousExp \in Nat
    /\ rowLock \in Procs \cup {NoProc} /\ codeLock \in Procs \cup {NoProc}
    /\ code \in {"none", "live", "dead"} /\ codeScopes \subseteq AllScopes
    /\ refresh \subseteq SUBSET AllScopes
    /\ pc \in [Procs -> AdminSteps \cup Reading \cup {"idle", "code", "refresh"}]
    /\ row \in [Procs -> Configs]
    /\ scopes \in [Procs -> SUBSET AllScopes] /\ iat \in [Procs -> Nat]
    /\ fresh \in [Procs -> Secrets \cup {NoSecret}] /\ freshExp \in [Procs -> Nat]
    /\ installed \subseteq Secrets /\ access \subseteq Nat
    /\ overtaken \subseteq Procs /\ late \subseteq Procs

-----------------------------------------------------------------------------
Goto(p, label) == pc' = [pc EXCEPT ![p] = label]

Exists == status \in {"active", "disabled"}

\* Locals are forgotten and locks released.
Return(p) ==
    /\ Goto(p, "idle")
    /\ row' = [row EXCEPT ![p] = NoConfig]
    /\ scopes' = [scopes EXCEPT ![p] = {}] /\ iat' = [iat EXCEPT ![p] = 0]
    /\ fresh' = [fresh EXCEPT ![p] = NoSecret] /\ freshExp' = [freshExp EXCEPT ![p] = 0]

Forget(p) == overtaken' = overtaken \ {p} /\ late' = late \ {p}

\* A change of the row is committed while these requests hold an older copy.
Overtake == overtaken' = overtaken \cup {q \in Procs : pc[q] \in Reading}

Tick ==
    /\ clock < MaxClock
    /\ clock' = clock + 1
    /\ UNCHANGED <<registration, issue, cutoff, pc, locals, history>>

-----------------------------------------------------------------------------
(* Administration *)

\* The audit rows of a registration name its values; a row of a change has the
\* value it found ("from") and the one it leaves ("to").  Nothing else in the
\* rows tells their order: created_at is when the transaction began, before it
\* waited for the client's row, and ids are random.
Registered(balance, to) == [balance EXCEPT ![to] = @ + 1]
Changed(balance, from, to) ==
    IF from = to THEN balance ELSE [balance EXCEPT ![to] = @ + 1, ![from] = @ - 1]

PostCreate ==
    /\ status = "none"
    /\ status' = "active"
    /\ config' \in Registrations
    /\ trail' = [scopes |-> Registered(trail.scopes, config'.scopes),
                 grants |-> Registered(trail.grants, config'.grants)]
    /\ secret' \in Secrets /\ installed' = {secret'}
    /\ UNCHANGED <<clock, previous, previousExp, rowLock, issue, cutoff, pc, locals,
                   access, overtaken, late>>

\* Mutant: a plain SELECT.
GetByIDUnlocked(p) ==
    /\ pc[p] = "idle" /\ Exists
    /\ UNCHANGED rowLock
    /\ row' = [row EXCEPT ![p] = config]
    /\ Goto(p, "patch")
    /\ UNCHANGED <<clock, status, config, secret, previous, previousExp, issue, cutoff,
                   scopes, iat, fresh, freshExp, history>>

\* PatchOne: SELECT ... FOR UPDATE ...
GetByIDForUpdate(p) ==
    /\ pc[p] = "idle" /\ Exists /\ rowLock = NoProc
    /\ rowLock' = p
    /\ row' = [row EXCEPT ![p] = config]
    /\ Goto(p, "patch")
    /\ UNCHANGED <<clock, status, config, secret, previous, previousExp, issue, cutoff,
                   scopes, iat, fresh, freshExp, history>>

\* ... and the UPDATE, in which COALESCE keeps what the request does not name,
\* with one audit row for each field that differs from the copy.
PatchOne(p) ==
    /\ pc[p] = "patch" /\ rowLock \in {p, NoProc}
    /\ \E s \in ScopeSets \cup {config.scopes}, g \in GrantSets \cup {config.grants} :
         /\ config' = [scopes |-> s, grants |-> g]
         /\ trail' = [scopes |-> Changed(trail.scopes, row[p].scopes, s),
                      grants |-> Changed(trail.grants, row[p].grants, g)]
    /\ rowLock' = NoProc
    /\ Overtake
    /\ Return(p)
    /\ UNCHANGED <<clock, status, secret, previous, previousExp, issue, cutoff,
                   installed, access, late>>

PostDisable ==
    /\ status = "active" /\ rowLock = NoProc
    /\ status' = "disabled"
    /\ Overtake
    /\ UNCHANGED <<clock, config, secret, previous, previousExp, rowLock, issue, cutoff,
                   pc, locals, trail, installed, access, late>>

PostEnable ==
    /\ status = "disabled" /\ rowLock = NoProc
    /\ status' = "active"
    /\ UNCHANGED <<clock, config, secret, previous, previousExp, rowLock, issue, cutoff,
                   pc, locals, history>>

\* The new secret is hashed, and the end of the overlap computed, before the
\* UPDATE may have to wait.
PostRotateSecret(p) ==
    /\ pc[p] = "idle" /\ Exists
    /\ \E s \in Secrets \ installed :
         /\ \A q \in Procs : fresh[q] # s
         /\ fresh' = [fresh EXCEPT ![p] = s]
    /\ freshExp' = [freshExp EXCEPT ![p] = clock + Overlap]
    /\ Goto(p, "rotate")
    /\ UNCHANGED <<clock, registration, issue, cutoff, row, scopes, iat, history>>

\* Mutant: a previous secret that is there is kept.
RotateSecretOnce(p) ==
    /\ pc[p] = "rotate" /\ Exists /\ rowLock = NoProc
    /\ previous' = IF previous = NoSecret THEN secret ELSE previous
    /\ previousExp' = freshExp[p]
    /\ secret' = fresh[p]
    /\ installed' = installed \cup {fresh[p]}
    /\ Return(p)
    /\ UNCHANGED <<clock, status, config, rowLock, issue, cutoff, trail, access,
                   overtaken, late>>

RotateSecret(p) ==
    /\ pc[p] = "rotate" /\ Exists /\ rowLock = NoProc
    /\ previous' = secret /\ previousExp' = freshExp[p]
    /\ secret' = fresh[p]
    /\ installed' = installed \cup {fresh[p]}
    /\ Return(p)
    /\ UNCHANGED <<clock, status, config, rowLock, issue, cutoff, trail, access,
                   overtaken, late>>

\* DeleteOne: the DELETE locks the client's row ...
DeleteOne(p) ==
    /\ pc[p] = "idle" /\ Exists /\ rowLock = NoProc
    /\ rowLock' = p
    /\ Goto(p, "delete")
    /\ UNCHANGED <<clock, status, config, secret, previous, previousExp, issue, cutoff,
                   locals, history>>

\* ... and, by the cascade, the code's row, for which it may have to wait.
DeleteCascade(p) ==
    /\ pc[p] = "delete" /\ codeLock = NoProc
    /\ code' = "none" /\ codeScopes' = {}
    /\ status' = "deleted" /\ rowLock' = NoProc
    /\ Overtake
    /\ late' = {q \in Procs : pc[q] \in RefreshSteps}
    /\ Goto(p, "cutoff")
    /\ UNCHANGED <<clock, config, secret, previous, previousExp, codeLock, refresh,
                   cutoff, locals, trail, installed, access>>

\* Mutant: the cutoff is not rounded up.
RevokeBeforeClientTruncated(p) ==
    /\ pc[p] = "cutoff"
    /\ cutoff' = clock
    /\ Return(p)
    /\ UNCHANGED <<clock, registration, issue, history>>

\* RevokeBeforeClientSetNow, after the commit; an error is only logged (Fail).
RevokeBeforeClientSetNow(p) ==
    /\ pc[p] = "cutoff"
    /\ cutoff' = clock + 1
    /\ Return(p)
    /\ UNCHANGED <<clock, registration, issue, history>>

-----------------------------------------------------------------------------
(* /authorize *)

\* The client is read on the pool; every scope asked for must be allowed.
Authorize(p) ==
    /\ pc[p] = "idle" /\ status = "active"
    /\ \E s \in SUBSET config.scopes :
         "openid" \in s /\ scopes' = [scopes EXCEPT ![p] = s]
    /\ row' = [row EXCEPT ![p] = config]
    /\ Goto(p, "insert")
    /\ UNCHANGED <<clock, registration, issue, cutoff, iat, fresh, freshExp, history>>

\* The foreign key waits for whoever has locked the client's row, and fails
\* when it is gone.  Bound: one live code at a time.
InsertCode(p) ==
    /\ pc[p] = "insert" /\ Exists /\ rowLock = NoProc
    /\ code # "live"
    /\ code' = "live" /\ codeScopes' = scopes[p]
    /\ Return(p) /\ Forget(p)
    /\ UNCHANGED <<clock, registration, codeLock, refresh, cutoff, trail, installed, access>>

\* A code expires, and the sweeper deletes it when it has been expired for long.
ExpireCode ==
    /\ code = "live" /\ codeLock = NoProc
    /\ code' = "dead"
    /\ UNCHANGED <<clock, registration, codeScopes, codeLock, refresh, cutoff, pc, locals,
                   history>>

SweepCodes ==
    /\ code = "dead"
    /\ code' = "none" /\ codeScopes' = {}
    /\ UNCHANGED <<clock, registration, codeLock, refresh, cutoff, pc, locals, history>>

-----------------------------------------------------------------------------
(* /token *)

Accepts(s) == s = secret \/ (s = previous /\ clock < previousExp)

\* A request whose secret VerifySecret accepts.
VerifySecret(p) ==
    /\ pc[p] = "idle" /\ status = "active"
    /\ \E s \in installed : Accepts(s)
    /\ \E grant \in {"code", "refresh"} : Goto(p, grant)
    /\ UNCHANGED <<clock, registration, issue, cutoff, locals, history>>

\* Every other request is answered with an error.
RejectClient(p) ==
    /\ pc[p] = "idle"
    /\ UNCHANGED vars

\* The client is read again, and this copy decides.
GetByID(p) ==
    /\ pc[p] \in {"code", "refresh"} /\ status = "active"
    /\ row' = [row EXCEPT ![p] = config]
    /\ Goto(p, IF pc[p] = "code" THEN "consume" ELSE "payload")
    /\ UNCHANGED <<clock, registration, issue, cutoff, scopes, iat, fresh, freshExp, history>>

\* Mutant: what was granted once stays granted.
IntersectNothing(granted, allowed) == granted

IntersectScopesAgainstClient(granted, allowed) == granted \cap allowed

\* The code's row is updated, and locked until the commit.
ConsumeOnce(p) ==
    /\ pc[p] = "consume" /\ code = "live" /\ codeLock = NoProc
    /\ codeLock' = p
    /\ scopes' = [scopes EXCEPT ![p] = IntersectScopesAgainstClient(codeScopes, row[p].scopes)]
    /\ Goto(p, "codeSign")
    /\ UNCHANGED <<clock, registration, code, codeScopes, refresh, cutoff, row, iat, fresh,
                   freshExp, history>>

\* The grant was removed, or no scope is left: the code is burned.
RejectCode(p) ==
    /\ pc[p] = "codeSign"
    /\ "authorization_code" \notin row[p].grants \/ scopes[p] = {}
    /\ code' = "dead" /\ codeLock' = NoProc
    /\ Return(p) /\ Forget(p)
    /\ UNCHANGED <<clock, registration, codeScopes, refresh, cutoff, trail, installed, access>>

SignForCode(p) ==
    /\ pc[p] = "codeSign"
    /\ "authorization_code" \in row[p].grants /\ scopes[p] # {}
    /\ iat' = [iat EXCEPT ![p] = clock]
    /\ Goto(p, "codeCommit")
    /\ UNCHANGED <<clock, registration, issue, cutoff, row, scopes, fresh, freshExp, history>>

\* tx.Commit and the response, with a refresh token if offline_access is left.
CommitCode(p) ==
    /\ pc[p] = "codeCommit"
    /\ code' = "dead" /\ codeLock' = NoProc
    /\ refresh' = IF "offline_access" \in scopes[p] THEN refresh \cup {scopes[p]} ELSE refresh
    /\ access' = access \cup {iat[p]}
    /\ Return(p) /\ Forget(p)
    /\ UNCHANGED <<clock, registration, codeScopes, cutoff, trail, installed>>

\* The refresh token's payload, narrowed by the copy of the client.  Which
\* tokens are spent is the subject of TokenEndpoint; here none ever is.
ReadPayload(p) ==
    /\ pc[p] = "payload" /\ "refresh_token" \in row[p].grants
    /\ \E r \in refresh :
         LET narrowed == IntersectScopesAgainstClient(r, row[p].scopes) IN
           narrowed # {} /\ scopes' = [scopes EXCEPT ![p] = narrowed]
    /\ Goto(p, "refreshSign")
    /\ UNCHANGED <<clock, registration, issue, cutoff, row, iat, fresh, freshExp, history>>

SignForRefresh(p) ==
    /\ pc[p] = "refreshSign"
    /\ iat' = [iat EXCEPT ![p] = clock]
    /\ Goto(p, "refreshCommit")
    /\ UNCHANGED <<clock, registration, issue, cutoff, row, scopes, fresh, freshExp, history>>

CommitRefresh(p) ==
    /\ pc[p] = "refreshCommit"
    /\ refresh' = refresh \cup {scopes[p]}
    /\ access' = IF p \in late THEN access ELSE access \cup {iat[p]}
    /\ Return(p) /\ Forget(p)
    /\ UNCHANGED <<clock, registration, code, codeScopes, codeLock, cutoff, trail, installed>>

\* A rejection or an error: the deferred Rollback releases the locks.
Fail(p) ==
    /\ pc[p] # "idle"
    /\ rowLock' = IF rowLock = p THEN NoProc ELSE rowLock
    /\ codeLock' = IF codeLock = p THEN NoProc ELSE codeLock
    /\ Return(p) /\ Forget(p)
    /\ UNCHANGED <<clock, status, config, secret, previous, previousExp, code, codeScopes,
                   refresh, cutoff, trail, installed, access>>

-----------------------------------------------------------------------------
Init ==
    /\ clock = 0 /\ status = "none" /\ config = NoConfig
    /\ trail = [scopes |-> [s \in ScopeSets \cup {{}} |-> 0],
                grants |-> [g \in GrantSets \cup {{}} |-> 0]]
    /\ secret = NoSecret /\ previous = NoSecret /\ previousExp = 0
    /\ rowLock = NoProc /\ code = "none" /\ codeScopes = {} /\ codeLock = NoProc
    /\ refresh = {} /\ cutoff = 0
    /\ pc = [p \in Procs |-> "idle"] /\ row = [p \in Procs |-> NoConfig]
    /\ scopes = [p \in Procs |-> {}] /\ iat = [p \in Procs |-> 0]
    /\ fresh = [p \in Procs |-> NoSecret] /\ freshExp = [p \in Procs |-> 0]
    /\ installed = {} /\ access = {} /\ overtaken = {} /\ late = {}

Administration(p) ==
    \/ GetByIDForUpdate(p) \/ PatchOne(p) \/ PostRotateSecret(p) \/ RotateSecret(p)
    \/ DeleteOne(p) \/ DeleteCascade(p) \/ RevokeBeforeClientSetNow(p)

Grant(p) ==
    \/ VerifySecret(p) \/ RejectClient(p) \/ GetByID(p) \/ ConsumeOnce(p) \/ RejectCode(p)
    \/ SignForCode(p) \/ CommitCode(p) \/ ReadPayload(p) \/ SignForRefresh(p) \/ CommitRefresh(p)

Next ==
    \/ Tick \/ PostCreate \/ PostDisable \/ PostEnable \/ ExpireCode \/ SweepCodes
    \/ \E p \in Procs :
         Administration(p) \/ Authorize(p) \/ InsertCode(p) \/ Grant(p) \/ Fail(p)

Spec == Init /\ [][Next]_vars

-----------------------------------------------------------------------------
(* Properties *)

\* The audit rows of PatchOne tell the truth, however many PATCHes run at the
\* same time: read in any order, they lead to the client's value of a field
\* once more than away from it, and to every other value as often as away.  No
\* two of them start from the same visit to a value, and none is missing ("one
\* audit row per changed field", under the lock of GetByIDForUpdate).
Balanced(balance, value) ==
    \A v \in DOMAIN balance :
      balance[v] = IF status # "none" /\ v = value THEN 1 ELSE 0
AuditTrail == Balanced(trail.scopes, config.scopes) /\ Balanced(trail.grants, config.grants)

\* A secret moves from current to previous to dead and never back, whatever
\* rotations race and however long the client is left alone (RotateSecret,
\* VerifySecret).
Rank(s) == IF s = secret THEN 2 ELSE IF Accepts(s) THEN 1 ELSE 0
SecretsMoveForward == [][\A s \in installed : Rank(s)' <= Rank(s)]_vars

\* What the bearer middleware asks of a token's iat.
RevokedForClient(i) == i < cutoff

\* Once DeleteOne has written the cutoff the bearer middleware, which never
\* looks at the clients table, rejects every access token of the client.  The
\* only exceptions are tokens of refresh grants that had read the client
\* before it was deleted: the code grant has no such gap, because the cascade
\* waits for the code's row.
DeletedClientIsOut == cutoff # 0 => \A i \in access : RevokedForClient(i)

\* A token response, or a code, is covered by the client's registration at the
\* moment it is given: the client is active, and grant and scopes are allowed.
\* The only exceptions are requests that had read the client before the last
\* change ("an admin PATCH may narrow allowed between issuance and use",
\* intersectScopesAgainstClient; "/token refresh grant rejects disabled
\* clients", PostDisable).
WithinRegistration ==
    \A p \in Procs \ overtaken :
      /\ pc[p] \in Reading => status = "active"
      /\ pc[p] \in {"insert", "codeCommit", "refreshCommit"} => scopes[p] \subseteq config.scopes
      /\ pc[p] = "codeCommit" => "authorization_code" \in config.grants
      /\ pc[p] = "refreshCommit" => "refresh_token" \in config.grants

-----------------------------------------------------------------------------
(* The strengthening of these properties. *)

\* Locks belong to the requests that are at a step that holds one, and the
\* copy of a PATCH is the row itself.
LocksOK ==
    \A p \in Procs :
      /\ pc[p] \in {"patch", "delete"} => rowLock = p
      /\ rowLock = p => pc[p] \in {"patch", "delete"}
      /\ pc[p] \in {"codeSign", "codeCommit"} => codeLock = p
      /\ pc[p] = "patch" => row[p] = config

\* A code and the lock on it end with the client, and only a refresh grant
\* outlives the deletion.
DeletionInv ==
    /\ codeLock # NoProc => code = "live" /\ pc[codeLock] \in {"codeSign", "codeCommit"}
    /\ status = "deleted" => code = "none"
    /\ cutoff # 0 => status = "deleted"
    /\ \A p \in Procs :
         /\ pc[p] \in AdminSteps \cup Reading => status # "none"
         /\ pc[p] = "cutoff" => status = "deleted"
         /\ status = "deleted" /\ pc[p] \in RefreshSteps => p \in late
    /\ \A i \in access : i <= clock
    /\ \A p \in Procs : iat[p] <= clock
    /\ DeletedClientIsOut

\* What a rotation is about to install is new.
SecretsOK ==
    /\ status = "none" => installed = {}
    /\ \A p \in Procs :
         /\ fresh[p] # NoSecret => pc[p] = "rotate" /\ fresh[p] \notin installed
         /\ pc[p] = "rotate" => fresh[p] # NoSecret
         /\ \A q \in Procs \ {p} : fresh[p] # NoSecret => fresh[q] # fresh[p]

\* A request that was not overtaken acts on a copy that is the row, and has
\* narrowed its scopes by it.
CopiesOK ==
    \A p \in Procs :
      /\ p \in overtaken => pc[p] \in Reading
      /\ pc[p] \in {"insert", "codeSign", "codeCommit", "refreshSign", "refreshCommit"}
           => scopes[p] \subseteq row[p].scopes
      /\ pc[p] = "codeCommit" => "authorization_code" \in row[p].grants
      /\ pc[p] \in {"refreshSign", "refreshCommit"} => "refresh_token" \in row[p].grants
      /\ pc[p] \in Reading /\ p \notin overtaken => status = "active" /\ row[p] = config

ClientInv ==
    /\ TypeOK /\ AuditTrail /\ LocksOK /\ DeletionInv
    /\ SecretsOK /\ CopiesOK /\ WithinRegistration

=============================================================================
