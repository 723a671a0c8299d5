---------------------------- MODULE ClientsProofs ----------------------------
(***************************************************************************)
(* Proofs about Clients, for any number of requests and secrets and any    *)
(* scopes, grants, overlap and bound on the clock.                         *)
(***************************************************************************)
EXTENDS Clients, TLAPS

\* A field's balance: nothing was entered, or one value was once more than left.
LOCAL Nothing(V, b) == b \in [V -> Int] /\ \A v \in V : b[v] = 0
LOCAL Once(V, b, value) ==
    b \in [V -> Int] /\ \A v \in V : b[v] = IF v = value THEN 1 ELSE 0

\* A registration enters its value, where none has been entered.
LEMMA RegisteredOnce ==
    ASSUME NEW V, NEW b, NEW to \in V, Nothing(V, b)
    PROVE  Once(V, Registered(b, to), to)
BY DEF Registered, Nothing, Once

\* A change that is told from the value it found moves the one to where it leads.
LEMMA ChangedOnce ==
    ASSUME NEW V, NEW b, NEW from \in V, NEW to \in V, Once(V, b, from)
    PROVE  Once(V, Changed(b, from, to), to)
BY DEF Changed, Once

\* The initial state satisfies every part of the invariant.
LEMMA InvInit == Init => ClientInv
<1> SUFFICES ASSUME Init PROVE ClientInv
  BY Zenon
<1>1. /\ pc = [p \in Procs |-> "idle"] /\ scopes \in [Procs -> SUBSET AllScopes]
      /\ refresh \subseteq SUBSET AllScopes /\ codeScopes \subseteq AllScopes
  BY Zenon DEF Init
<1>2. TypeOK
  BY <1>1, ClientsAssumption DEF Init, TypeOK, Configs, NoConfig, Trails
<1>3. AuditTrail
  BY DEF Init, AuditTrail, Balanced
<1>6. LocksOK /\ SecretsOK
  BY ClientsAssumption, Zenon DEF Init, LocksOK, SecretsOK
<1>4. DeletionInv
  BY ClientsAssumption DEF Init, DeletionInv, DeletedClientIsOut, AdminSteps, CodeSteps,
     RefreshSteps, Reading
<1>5. CopiesOK /\ WithinRegistration
  BY Zenon DEF Init, CopiesOK, WithinRegistration, CodeSteps, RefreshSteps, Reading
<1> QED
  BY <1>2, <1>3, <1>4, <1>5, <1>6, Zenon DEF ClientInv

LOCAL Labels == AdminSteps \cup Reading \cup {"idle", "code", "refresh"}

LOCAL LocalsTyped ==
    /\ pc \in [Procs -> Labels] /\ row \in [Procs -> Configs]
    /\ scopes \in [Procs -> SUBSET AllScopes] /\ iat \in [Procs -> Nat]
    /\ fresh \in [Procs -> Secrets \cup {NoSecret}] /\ freshExp \in [Procs -> Nat]

LOCAL Same(q) ==
    /\ pc'[q] = pc[q] /\ row'[q] = row[q] /\ scopes'[q] = scopes[q]
    /\ iat'[q] = iat[q] /\ fresh'[q] = fresh[q] /\ freshExp'[q] = freshExp[q]

\* A step of request p that is none of another's.
LOCAL Moved(p) == LocalsTyped' /\ \A q \in Procs \ {p} : Same(q)

\* What ClientInv says of one request.
LOCAL RequestOK(p) ==
    /\ pc[p] \in {"patch", "delete"} <=> rowLock = p
    /\ pc[p] \in {"codeSign", "codeCommit"} <=> codeLock = p
    /\ pc[p] = "patch" => row[p] = config
    /\ pc[p] \in AdminSteps \cup Reading => status # "none"
    /\ pc[p] = "cutoff" => status = "deleted"
    /\ status = "deleted" /\ pc[p] \in RefreshSteps => p \in late
    /\ iat[p] <= clock
    /\ fresh[p] # NoSecret => pc[p] = "rotate" /\ fresh[p] \notin installed
    /\ pc[p] = "rotate" => fresh[p] # NoSecret
    /\ \A q \in Procs \ {p} : fresh[p] # NoSecret => fresh[q] # fresh[p]
    /\ p \in overtaken => pc[p] \in Reading
    /\ pc[p] \in {"insert", "codeSign", "codeCommit", "refreshSign", "refreshCommit"}
         => scopes[p] \subseteq row[p].scopes
    /\ pc[p] = "codeCommit" => "authorization_code" \in row[p].grants
    /\ pc[p] \in {"refreshSign", "refreshCommit"} => "refresh_token" \in row[p].grants
    /\ pc[p] \in Reading /\ p \notin overtaken => status = "active" /\ row[p] = config

\* What it says of no request in particular.
LOCAL ClientOK ==
    /\ clock \in 0..MaxClock /\ cutoff \in 0..(MaxClock + 1)
    /\ status \in {"none", "active", "disabled", "deleted"}
    /\ config \in Configs
    /\ secret \in Secrets \cup {NoSecret} /\ previous \in Secrets \cup {NoSecret}
    /\ previousExp \in Nat
    /\ rowLock \in Procs \cup {NoProc} /\ codeLock \in Procs \cup {NoProc}
    /\ code \in {"none", "live", "dead"} /\ codeScopes \subseteq AllScopes
    /\ refresh \subseteq SUBSET AllScopes
    /\ installed \subseteq Secrets /\ access \subseteq Nat
    /\ overtaken \subseteq Procs /\ late \subseteq Procs
    /\ codeLock # NoProc => code = "live"
    /\ status = "deleted" => code = "none"
    /\ cutoff # 0 => status = "deleted"
    /\ \A i \in access : i <= clock
    /\ DeletedClientIsOut
    /\ status = "none" => installed = {}

LOCAL Inv == ClientOK /\ LocalsTyped /\ \A p \in Procs : RequestOK(p)

LOCAL ScopeValues == ScopeSets \cup {{}}
LOCAL GrantValues == GrantSets \cup {{}}

\* What it says of the audit rows.
LOCAL TrailOK == trail \in Trails /\ AuditTrail

\* The invariant request by request.
LEMMA Parts == ClientInv <=> Inv /\ TrailOK
<1> USE ClientsAssumption
<1>1. ASSUME ClientInv PROVE ClientOK
  BY <1>1, Zenon DEF ClientInv, TypeOK, DeletionInv, SecretsOK, ClientOK
<1>2. ASSUME ClientInv PROVE LocalsTyped
  BY <1>2, Zenon DEF ClientInv, TypeOK, LocalsTyped, Labels
<1>3. ASSUME ClientInv, NEW p \in Procs PROVE RequestOK(p)
  <2>1. LocksOK /\ DeletionInv /\ SecretsOK /\ CopiesOK
    BY <1>3, Zenon DEF ClientInv
  <2>2. codeLock = p => pc[p] \in {"codeSign", "codeCommit"}
    BY <2>1, Zenon DEF DeletionInv
  <2> QED
    BY <2>1, <2>2, Zenon DEF LocksOK, DeletionInv, SecretsOK, CopiesOK, RequestOK
<1>4. ASSUME ClientOK, LocalsTyped, \A p \in Procs : RequestOK(p), TrailOK PROVE ClientInv
  <2>1. TypeOK
    BY <1>4, Zenon DEF ClientOK, LocalsTyped, TrailOK, TypeOK, Labels
  <2>2. AuditTrail /\ SecretsOK
    BY <1>4, Zenon DEF ClientOK, TrailOK, SecretsOK, RequestOK
  <2>3. LocksOK /\ CopiesOK
    BY <1>4, Zenon DEF LocksOK, CopiesOK, RequestOK
  <2>4. DeletionInv
    <3>1. codeLock # NoProc => code = "live" /\ pc[codeLock] \in {"codeSign", "codeCommit"}
      BY <1>4, Zenon DEF ClientOK, RequestOK
    <3> QED
      BY <1>4, <3>1, Zenon DEF ClientOK, RequestOK, DeletionInv
  <2>5. WithinRegistration
    BY <1>4, Zenon DEF RequestOK, WithinRegistration, Reading, CodeSteps, RefreshSteps
  <2> QED
    BY <2>1, <2>2, <2>3, <2>4, <2>5, Zenon DEF ClientInv
<1>5. ASSUME ClientInv PROVE TrailOK
  BY <1>5, Zenon DEF ClientInv, TypeOK, TrailOK
<1> QED
  BY <1>1, <1>2, <1>3, <1>4, <1>5, Zenon DEF Inv

\* A rotation's secret stays its own when only request p moves.
LEMMA FreshApart ==
    ASSUME \A q \in Procs : RequestOK(q), NEW p \in Procs, Moved(p), RequestOK(p)'
    PROVE  \A q \in Procs \ {p} :
             \A r \in Procs \ {q} : fresh'[q] # NoSecret => fresh'[r] # fresh'[q]
<1>1. \A q \in Procs : \A r \in Procs \ {q} : fresh[q] # NoSecret => fresh[r] # fresh[q]
  BY Zenon DEF RequestOK
<1>2. \A r \in Procs \ {p} : fresh'[p] # NoSecret => fresh'[r] # fresh'[p]
  BY Zenon DEF RequestOK
<1>3. \A q \in Procs \ {p} : fresh'[q] = fresh[q]
  BY Zenon DEF Moved, Same
<1> QED
  BY <1>1, <1>2, <1>3, Zenon

\* Only request p moves, and it keeps its part of the invariant.
LEMMA Frame ==
    ASSUME \A q \in Procs : RequestOK(q), NEW p \in Procs, Moved(p),
           clock' = clock, status' = status, config' = config, installed' = installed,
           rowLock' # rowLock => rowLock \in {p, NoProc} /\ rowLock' \in {p, NoProc},
           codeLock' # codeLock => codeLock \in {p, NoProc} /\ codeLock' \in {p, NoProc},
           \A q \in Procs \ {p} : q \in overtaken' <=> q \in overtaken,
           \A q \in Procs \ {p} : q \in late => q \in late',
           RequestOK(p)'
    PROVE  \A q \in Procs : RequestOK(q)'
<1>1. ASSUME NEW q \in Procs \ {p} PROVE RequestOK(q)'
  <2>1. /\ Same(q) /\ RequestOK(q)
        /\ q \in overtaken' <=> q \in overtaken
        /\ q \in late => q \in late'
    BY <1>1, Zenon DEF Moved
  <2>2. (rowLock' = q <=> rowLock = q) /\ (codeLock' = q <=> codeLock = q)
    BY <1>1, ClientsAssumption
  <2>3. \A r \in Procs \ {q} : fresh'[q] # NoSecret => fresh'[r] # fresh'[q]
    BY <1>1, FreshApart, Zenon
  <2> QED
    BY <2>1, <2>2, <2>3, Zenon DEF Same, RequestOK
<1> QED
  BY <1>1, Zenon

\* A request that has returned holds nothing.
LEMMA Idle ==
    ASSUME NEW p \in Procs, LocalsTyped, Return(p), clock' \in Nat, rowLock' # p, codeLock' # p,
           p \notin overtaken', NoSecret \notin Secrets
    PROVE  Moved(p) /\ RequestOK(p)'
<1>1. /\ pc' \in [Procs -> Labels] /\ pc'[p] = "idle"
      /\ \A q \in Procs \ {p} : pc'[q] = pc[q]
  BY Zenon DEF LocalsTyped, Return, Goto, Labels
<1>2. /\ row' \in [Procs -> Configs] /\ scopes' \in [Procs -> SUBSET AllScopes]
      /\ \A q \in Procs \ {p} : row'[q] = row[q] /\ scopes'[q] = scopes[q]
  <2>1. NoConfig \in Configs
    BY Zenon DEF NoConfig, Configs
  <2> QED
    BY <2>1, Zenon DEF LocalsTyped, Return
<1>3. /\ iat' \in [Procs -> Nat] /\ iat'[p] = 0 /\ freshExp' \in [Procs -> Nat]
      /\ \A q \in Procs \ {p} : iat'[q] = iat[q] /\ freshExp'[q] = freshExp[q]
  BY Zenon DEF LocalsTyped, Return
<1>4. /\ fresh' \in [Procs -> Secrets \cup {NoSecret}] /\ fresh'[p] = NoSecret
      /\ \A q \in Procs \ {p} : fresh'[q] = fresh[q]
  BY Zenon DEF LocalsTyped, Return
<1>5. Moved(p)
  BY <1>1, <1>2, <1>3, <1>4, Zenon DEF Moved, LocalsTyped, Same
<1>6. iat'[p] <= clock'
  BY <1>3
<1> QED
  BY <1>1, <1>4, <1>5, <1>6, Zenon DEF RequestOK, AdminSteps, Reading, CodeSteps, RefreshSteps

\* Each step keeps the invariant: the steps of one request by Frame, those
\* that change the registration part by part.
LEMMA InvStep == Inv /\ [Next]_vars => Inv'
<1> SUFFICES ASSUME ClientOK, LocalsTyped, \A q \in Procs : RequestOK(q), [Next]_vars PROVE Inv'
  BY Zenon DEF Inv
<1>a. clock \in Nat /\ NoProc \notin Procs /\ NoSecret \notin Secrets
  BY ClientsAssumption DEF ClientOK
<1>c. ASSUME NEW p \in Procs, ClientOK', Moved(p), RequestOK(p)',
             clock' = clock, status' = status, config' = config, installed' = installed,
             rowLock' # rowLock => rowLock \in {p, NoProc} /\ rowLock' \in {p, NoProc},
             codeLock' # codeLock => codeLock \in {p, NoProc} /\ codeLock' \in {p, NoProc},
             \A q \in Procs \ {p} : q \in overtaken' <=> q \in overtaken,
             \A q \in Procs \ {p} : q \in late => q \in late'
      PROVE  Inv'
  BY <1>c, Frame, Zenon DEF Moved, Inv
<1>d. ASSUME UNCHANGED <<pc, row, scopes, iat, fresh, freshExp>> PROVE LocalsTyped'
  BY <1>d, Zenon DEF LocalsTyped
<1>e. ASSUME UNCHANGED <<clock, registration, issue, cutoff, history>> PROVE ClientOK'
  BY <1>e DEF registration, issue, history, ClientOK, DeletedClientIsOut, RevokedForClient
<1>1. CASE Tick
  <2>1. clock' = clock + 1 /\ clock' \in 0..MaxClock /\ LocalsTyped'
    BY <1>1, <1>d, ClientsAssumption DEF Tick, locals, ClientOK
  <2>2. ClientOK'
    BY <1>1, <1>a, <2>1 DEF Tick, registration, issue, history, ClientOK, DeletedClientIsOut,
       RevokedForClient
  <2>3. \A q \in Procs : RequestOK(q)'
    BY <1>1, <1>a, <2>1 DEF Tick, registration, issue, locals, history, RequestOK, LocalsTyped
  <2> QED
    BY <2>1, <2>2, <2>3, Zenon DEF Inv
<1>2. CASE PostCreate
  <2>1. /\ \A q \in Procs : pc[q] \notin AdminSteps \cup Reading
        /\ \A q \in Procs : fresh[q] = NoSecret /\ q \notin overtaken
    BY <1>2, Zenon DEF PostCreate, RequestOK, AdminSteps
  <2>2. Registrations \subseteq Configs
    BY Zenon DEF Registrations, Configs
  <2>3. ClientOK'
    BY <1>2, <2>2, Zenon DEF PostCreate, issue, ClientOK, DeletedClientIsOut, RevokedForClient
  <2>4. \A q \in Procs : RequestOK(q)'
    BY <1>2, <2>1 DEF PostCreate, issue, locals, RequestOK, AdminSteps, Reading, CodeSteps,
       RefreshSteps
  <2>5. LocalsTyped'
    BY <1>2, <1>d, Zenon DEF PostCreate, locals
  <2> QED
    BY <2>3, <2>4, <2>5, Zenon DEF Inv
<1>3. CASE PostDisable
  <2>1. ClientOK'
    BY <1>3, Zenon DEF PostDisable, Overtake, issue, ClientOK, DeletedClientIsOut,
       RevokedForClient
  <2>2. \A q \in Procs : RequestOK(q)'
    BY <1>3 DEF PostDisable, Overtake, issue, locals, RequestOK
  <2>3. LocalsTyped'
    BY <1>3, <1>d, Zenon DEF PostDisable, locals
  <2> QED
    BY <2>1, <2>2, <2>3, Zenon DEF Inv
<1>4. CASE PostEnable
  <2>1. ClientOK'
    BY <1>4, Zenon DEF PostEnable, issue, history, ClientOK, DeletedClientIsOut,
       RevokedForClient
  <2>2. \A q \in Procs : RequestOK(q)'
    BY <1>4 DEF PostEnable, issue, locals, history, RequestOK
  <2>3. LocalsTyped'
    BY <1>4, <1>d, Zenon DEF PostEnable, locals
  <2> QED
    BY <2>1, <2>2, <2>3, Zenon DEF Inv
<1>5. CASE ExpireCode \/ SweepCodes
  <2>1. ClientOK'
    <3>1. codeLock = NoProc
      BY <1>5, Zenon DEF ExpireCode, SweepCodes, ClientOK
    <3> QED
      BY <1>5, <3>1, Zenon DEF ExpireCode, SweepCodes, registration, history, ClientOK,
         DeletedClientIsOut, RevokedForClient
  <2>2. \A q \in Procs : RequestOK(q)'
    BY <1>5 DEF ExpireCode, SweepCodes, registration, locals, history, RequestOK
  <2>3. LocalsTyped'
    BY <1>5, <1>d, Zenon DEF ExpireCode, SweepCodes, locals
  <2> QED
    BY <2>1, <2>2, <2>3, Zenon DEF Inv
<1>6. ASSUME UNCHANGED vars PROVE Inv'
  <2>1. ClientOK'
    BY <1>6, <1>e, Zenon DEF vars
  <2>2. \A q \in Procs : RequestOK(q)'
    BY <1>6 DEF vars, registration, issue, locals, history, RequestOK
  <2>3. LocalsTyped'
    BY <1>6, <1>d, Zenon DEF vars, locals
  <2> QED
    BY <2>1, <2>2, <2>3, Zenon DEF Inv
<1>7. ASSUME NEW p \in Procs, GetByIDForUpdate(p) PROVE Inv'
  <2>1. Moved(p) /\ pc'[p] = "patch" /\ row'[p] = config
    BY <1>7, Zenon DEF GetByIDForUpdate, Goto, Moved, LocalsTyped, Same, ClientOK, Labels,
       AdminSteps
  <2>2. ClientOK'
    BY <1>7, Zenon DEF GetByIDForUpdate, ClientOK, issue, history, DeletedClientIsOut,
       RevokedForClient
  <2>3. RequestOK(p)'
    BY <1>7, <1>a, <2>1, Zenon DEF GetByIDForUpdate, Exists, issue, history, RequestOK,
       AdminSteps, Reading,
       CodeSteps, RefreshSteps
  <2> QED
    BY <1>7, <2>1, <2>2, <2>3, <1>c, Zenon DEF GetByIDForUpdate, issue, history
<1>8. ASSUME NEW p \in Procs, PostRotateSecret(p) PROVE Inv'
  <2>1. /\ Moved(p) /\ pc'[p] = "rotate" /\ fresh'[p] \in Secrets \ installed
        /\ \A q \in Procs : fresh[q] # fresh'[p]
    BY <1>8, <1>a, ClientsAssumption
       DEF PostRotateSecret, Goto, Moved, LocalsTyped, Same, Labels, AdminSteps
  <2>2. ClientOK'
    BY <1>8, <1>e, Zenon DEF PostRotateSecret
  <2>3. RequestOK(p)'
    BY <1>8, <1>a, <2>1 DEF PostRotateSecret, Exists, registration, issue, history,
       RequestOK, Moved,
       Same, AdminSteps, Reading, CodeSteps, RefreshSteps
  <2> QED
    BY <1>8, <2>1, <2>2, <2>3, <1>c, Zenon DEF PostRotateSecret, registration, issue, history
<1>9. ASSUME NEW p \in Procs, DeleteOne(p) PROVE Inv'
  <2>1. Moved(p) /\ pc'[p] = "delete"
    BY <1>9, Zenon DEF DeleteOne, Goto, Moved, LocalsTyped, Same, locals, Labels, AdminSteps
  <2>2. ClientOK'
    BY <1>9, Zenon DEF DeleteOne, issue, history, ClientOK, DeletedClientIsOut, RevokedForClient
  <2>3. RequestOK(p)'
    BY <1>9, <1>a, <2>1, Zenon DEF DeleteOne, Exists, issue, locals, history, RequestOK,
       AdminSteps, Reading,
       CodeSteps, RefreshSteps
  <2> QED
    BY <1>9, <2>1, <2>2, <2>3, <1>c, Zenon DEF DeleteOne, issue, history
<1>10. ASSUME NEW p \in Procs, Authorize(p) PROVE Inv'
  <2>1. /\ Moved(p) /\ pc'[p] = "insert" /\ row'[p] = config
        /\ scopes'[p] \subseteq config.scopes
    <3>1. config.scopes \in ScopeSets \cup {{}}
      BY Zenon DEF ClientOK, Configs
    <3>2. \A s \in SUBSET config.scopes : s \in SUBSET AllScopes
      BY <3>1, Zenon DEF AllScopes
    <3> QED
      BY <1>10, <3>2 DEF Authorize, Goto, Moved, LocalsTyped, Same, ClientOK, Labels, Reading
  <2>2. ClientOK'
    BY <1>10, <1>e, Zenon DEF Authorize
  <2>3. RequestOK(p)'
    BY <1>10, <1>a, <2>1, Zenon DEF Authorize, registration, issue, history, RequestOK,
       AdminSteps, Reading,
       CodeSteps, RefreshSteps
  <2> QED
    BY <1>10, <2>1, <2>2, <2>3, <1>c, Zenon DEF Authorize, registration, issue, history
<1>11. ASSUME NEW p \in Procs, VerifySecret(p) PROVE Inv'
  <2>1. Moved(p) /\ pc[p] = "idle" /\ pc'[p] \in {"code", "refresh"}
    BY <1>11, Zenon DEF VerifySecret, Goto, Moved, LocalsTyped, Same, locals, Labels
  <2>2. ClientOK'
    BY <1>11, <1>e, Zenon DEF VerifySecret
  <2>3. RequestOK(p)'
    BY <1>11, <1>a, <2>1, Zenon DEF VerifySecret, registration, issue, locals, history,
       RequestOK,
       AdminSteps, Reading, CodeSteps, RefreshSteps
  <2> QED
    BY <1>11, <2>1, <2>2, <2>3, <1>c, Zenon DEF VerifySecret, registration, issue, history
<1>12. ASSUME NEW p \in Procs, GetByID(p) PROVE Inv'
  <2>1. Moved(p) /\ pc'[p] \in {"consume", "payload"} /\ row'[p] = config
    BY <1>12, Zenon DEF GetByID, Goto, Moved, LocalsTyped, Same, ClientOK, Labels, Reading,
       CodeSteps,
       RefreshSteps
  <2>2. ClientOK'
    BY <1>12, <1>e, Zenon DEF GetByID
  <2>3. RequestOK(p)'
    BY <1>12, <1>a, <2>1, Zenon DEF GetByID, registration, issue, history, RequestOK,
       AdminSteps, Reading,
       CodeSteps, RefreshSteps
  <2> QED
    BY <1>12, <2>1, <2>2, <2>3, <1>c, Zenon DEF GetByID, registration, issue, history
<1>13. ASSUME NEW p \in Procs, ConsumeOnce(p) PROVE Inv'
  <2>1. /\ Moved(p) /\ pc'[p] = "codeSign" /\ scopes'[p] \subseteq row[p].scopes
    BY <1>13, Zenon DEF ConsumeOnce, IntersectScopesAgainstClient, Goto, Moved, LocalsTyped,
       Same, ClientOK,
       Labels, Reading, CodeSteps
  <2>2. ClientOK'
    BY <1>13, Zenon DEF ConsumeOnce, registration, history, ClientOK, DeletedClientIsOut,
       RevokedForClient
  <2>3. RequestOK(p)'
    BY <1>13, <1>a, <2>1, Zenon DEF ConsumeOnce, registration, history, RequestOK,
       AdminSteps, Reading,
       CodeSteps, RefreshSteps
  <2> QED
    BY <1>13, <2>1, <2>2, <2>3, <1>c, Zenon DEF ConsumeOnce, registration, history
<1>14. ASSUME NEW p \in Procs, SignForCode(p) \/ SignForRefresh(p) PROVE Inv'
  <2>1. /\ Moved(p) /\ iat'[p] = clock /\ pc'[p] \in {"codeCommit", "refreshCommit"}
        /\ pc'[p] = "codeCommit" => pc[p] = "codeSign" /\ "authorization_code" \in row[p].grants
        /\ pc'[p] = "refreshCommit" => pc[p] = "refreshSign"
    BY <1>14, <1>a DEF SignForCode, SignForRefresh, Goto, Moved, LocalsTyped, Same, Labels,
       Reading, CodeSteps, RefreshSteps
  <2>2. ClientOK'
    BY <1>14, <1>e, Zenon DEF SignForCode, SignForRefresh
  <2>3. UNCHANGED <<clock, registration, issue, history, row, scopes, fresh>>
    BY <1>14, Zenon DEF SignForCode, SignForRefresh
  <2>4. RequestOK(p)'
    BY <1>a, <2>1, <2>3 DEF registration, issue, history, RequestOK, AdminSteps, Reading,
       CodeSteps, RefreshSteps
  <2> QED
    BY <2>1, <2>2, <2>3, <2>4, <1>c, Zenon DEF registration, issue, history
<1>15. ASSUME NEW p \in Procs, ReadPayload(p) PROVE Inv'
  <2>1. /\ Moved(p) /\ pc'[p] = "refreshSign" /\ scopes'[p] \subseteq row[p].scopes
    BY <1>15 DEF ReadPayload, IntersectScopesAgainstClient, Goto, Moved, LocalsTyped, Same,
       ClientOK,
       Labels, Reading, RefreshSteps
  <2>2. ClientOK'
    BY <1>15, <1>e, Zenon DEF ReadPayload
  <2>3. RequestOK(p)'
    BY <1>15, <1>a, <2>1, Zenon DEF ReadPayload, registration, issue, history, RequestOK,
       AdminSteps, Reading,
       CodeSteps, RefreshSteps
  <2> QED
    BY <1>15, <2>1, <2>2, <2>3, <1>c, Zenon DEF ReadPayload, registration, issue, history
<1>f. ASSUME NEW p \in Procs, ClientOK', Return(p), rowLock' # p, codeLock' # p,
             clock' = clock, status' = status, config' = config, installed' = installed,
             rowLock' = rowLock \/ (rowLock = p /\ rowLock' = NoProc),
             codeLock' = codeLock \/ (codeLock = p /\ codeLock' = NoProc),
             overtaken' = overtaken \ {p}, late \ {p} \subseteq late'
      PROVE  Inv'
  <2>1. Moved(p) /\ RequestOK(p)'
    BY <1>a, <1>f, Idle, Zenon
  <2> QED
    BY <1>c, <1>f, <2>1, Zenon
<1>16. ASSUME NEW p \in Procs, RevokeBeforeClientSetNow(p) PROVE Inv'
  <2>1. /\ p \notin overtaken /\ rowLock # p /\ codeLock # p /\ status = "deleted"
    BY <1>16, Zenon DEF RevokeBeforeClientSetNow, RequestOK, Reading, CodeSteps, RefreshSteps
  <2>2. cutoff' = clock + 1 /\ UNCHANGED <<clock, registration, issue, history>> /\ Return(p)
    BY <1>16, Zenon DEF RevokeBeforeClientSetNow
  <2>3. ClientOK'
    BY <2>1, <2>2, ClientsAssumption DEF registration, issue, history, ClientOK,
       DeletedClientIsOut,
       RevokedForClient
  <2> QED
    BY <1>f, <2>1, <2>2, <2>3, Zenon DEF registration, issue, history
<1>17. ASSUME NEW p \in Procs, InsertCode(p) PROVE Inv'
  <2>1. codeLock # p /\ codeLock = NoProc /\ status # "deleted" /\ scopes[p] \subseteq AllScopes
    BY <1>17, ClientsAssumption, Zenon DEF InsertCode, Exists, ClientOK, RequestOK, LocalsTyped
  <2>2. ClientOK'
    BY <1>17, <2>1, Zenon DEF InsertCode, Forget, registration, ClientOK, DeletedClientIsOut,
       RevokedForClient
  <2> QED
    BY <1>17, <1>a, <1>f, <2>1, <2>2, Zenon DEF InsertCode, Forget, registration
<1>18. ASSUME NEW p \in Procs, RejectCode(p) PROVE Inv'
  <2>1. codeLock = p /\ rowLock # p /\ status # "deleted"
    BY <1>18, <1>a, Zenon DEF RejectCode, ClientOK, RequestOK
  <2>2. ClientOK'
    BY <1>18, <2>1, Zenon DEF RejectCode, Forget, registration, ClientOK, DeletedClientIsOut,
       RevokedForClient
  <2> QED
    BY <1>18, <1>a, <1>f, <2>1, <2>2, Zenon DEF RejectCode, Forget, registration
<1>19. ASSUME NEW p \in Procs, CommitCode(p) PROVE Inv'
  <2>1. codeLock = p /\ rowLock # p /\ status # "deleted" /\ cutoff = 0
    BY <1>19, <1>a, Zenon DEF CommitCode, ClientOK, RequestOK
  <2>2. scopes[p] \in SUBSET AllScopes /\ iat[p] \in Nat /\ iat[p] <= clock
    BY Zenon DEF LocalsTyped, RequestOK
  <2>3. /\ refresh' \subseteq SUBSET AllScopes /\ access' \subseteq Nat
        /\ \A i \in access' : i <= clock
    BY <1>19, <2>2, Zenon DEF CommitCode, ClientOK
  <2>4. ClientOK'
    BY <1>19, <2>1, <2>3, Zenon DEF CommitCode, Forget, registration, ClientOK,
       DeletedClientIsOut,
       RevokedForClient
  <2> QED
    BY <1>19, <1>a, <1>f, <2>1, <2>4, Zenon DEF CommitCode, Forget, registration
<1>20. ASSUME NEW p \in Procs, CommitRefresh(p) PROVE Inv'
  <2>1. codeLock # p /\ rowLock # p /\ (p \notin late => cutoff = 0)
    BY <1>20, <1>a, Zenon DEF CommitRefresh, ClientOK, RequestOK, RefreshSteps
  <2>2. scopes[p] \in SUBSET AllScopes /\ iat[p] \in Nat /\ iat[p] <= clock
    BY Zenon DEF LocalsTyped, RequestOK
  <2>3. /\ refresh' \subseteq SUBSET AllScopes /\ access' \subseteq Nat
        /\ \A i \in access' : i <= clock
    BY <1>20, <2>2, Zenon DEF CommitRefresh, ClientOK
  <2>4. ClientOK'
    BY <1>20, <2>1, <2>3 DEF CommitRefresh, Forget, registration, ClientOK, DeletedClientIsOut,
       RevokedForClient
  <2> QED
    BY <1>20, <1>a, <1>f, <2>1, <2>4, Zenon DEF CommitRefresh, Forget, registration
<1>21. ASSUME NEW p \in Procs, Fail(p) PROVE Inv'
  <2>1. ClientOK'
    BY <1>21, <1>a, Zenon DEF Fail, Forget, ClientOK, DeletedClientIsOut, RevokedForClient
  <2> QED
    BY <1>21, <1>a, <1>f, <2>1, Zenon DEF Fail, Forget
<1>22. ASSUME NEW p \in Procs, PatchOne(p) PROVE Inv'
  <2>1. rowLock = p /\ row[p] = config /\ codeLock # p /\ p \notin overtaken /\ status # "none"
    BY <1>22, Zenon DEF PatchOne, RequestOK, AdminSteps, Reading, CodeSteps, RefreshSteps
  <2>2. config' \in Configs
    <3>1. config \in Configs
      BY Zenon DEF ClientOK
    <3> QED
      BY <1>22, <2>1, <3>1 DEF PatchOne, Configs
  <2>3. ClientOK'
    BY <1>22, <2>1, <2>2, Zenon DEF PatchOne, Overtake, issue, ClientOK, DeletedClientIsOut,
       RevokedForClient
  <2>4. Moved(p) /\ RequestOK(p)'
    <3>1. rowLock' # p /\ codeLock' # p /\ p \notin overtaken' /\ clock' \in Nat
      BY <1>22, <1>a, <2>1, Zenon DEF PatchOne, Overtake, issue, Reading, CodeSteps,
         RefreshSteps
    <3> QED
      BY <1>22, <1>a, <3>1, Idle, Zenon DEF PatchOne
  <2>5. ASSUME NEW q \in Procs \ {p} PROVE RequestOK(q)'
    <3>1. Same(q) /\ RequestOK(q) /\ rowLock # q /\ rowLock' # q
      BY <1>22, <1>a, <2>1, <2>4, Zenon DEF PatchOne, Moved
    <3>2. \A r \in Procs \ {q} : fresh'[q] # NoSecret => fresh'[r] # fresh'[q]
      BY <2>4, FreshApart, Zenon
    <3>3. UNCHANGED <<status, codeLock, installed, late, clock>> /\ overtaken \subseteq overtaken'
      BY <1>22, Zenon DEF PatchOne, Overtake, issue
    <3>4. q \in overtaken' <=> q \in overtaken \/ pc[q] \in Reading
      BY <1>22, Zenon DEF PatchOne, Overtake
    <3> QED
      BY <3>1, <3>2, <3>3, <3>4 DEF Same, RequestOK
  <2> QED
    BY <2>3, <2>4, <2>5, Zenon DEF Inv, Moved
<1>23. ASSUME NEW p \in Procs, RotateSecret(p) PROVE Inv'
  <2>1. /\ fresh[p] \in Secrets \ installed /\ rowLock # p /\ codeLock # p /\ p \notin overtaken
        /\ status # "none"
    BY <1>23, <1>a, Zenon DEF RotateSecret, Exists, RequestOK, LocalsTyped, Reading,
       CodeSteps, RefreshSteps
  <2>2. freshExp[p] \in Nat
    BY Zenon DEF LocalsTyped
  <2>3. ClientOK'
    BY <1>23, <2>1, <2>2, Zenon DEF RotateSecret, issue, ClientOK, DeletedClientIsOut,
       RevokedForClient
  <2>4. Moved(p) /\ RequestOK(p)'
    <3>1. rowLock' # p /\ codeLock' # p /\ p \notin overtaken' /\ clock' \in Nat
      BY <1>23, <1>a, <2>1, Zenon DEF RotateSecret, issue
    <3> QED
      BY <1>23, <1>a, <3>1, Idle, Zenon DEF RotateSecret
  <2>5. ASSUME NEW q \in Procs \ {p} PROVE RequestOK(q)'
    <3>1. Same(q) /\ RequestOK(q) /\ (fresh[q] # NoSecret => fresh[q] # fresh[p])
      BY <2>4, Zenon DEF Moved, RequestOK
    <3>2. \A r \in Procs \ {q} : fresh'[q] # NoSecret => fresh'[r] # fresh'[q]
      BY <2>4, FreshApart, Zenon
    <3>3. /\ UNCHANGED <<status, config, rowLock, codeLock, late, overtaken, clock>>
          /\ installed' = installed \cup {fresh[p]}
      BY <1>23, Zenon DEF RotateSecret, issue
    <3> QED
      BY <3>1, <3>2, <3>3 DEF Same, RequestOK
  <2> QED
    BY <2>3, <2>4, <2>5, Zenon DEF Inv, Moved
<1>24. ASSUME NEW p \in Procs, DeleteCascade(p) PROVE Inv'
  <2>1. rowLock = p /\ codeLock # p /\ p \notin overtaken /\ status # "none"
    BY <1>24, Zenon DEF DeleteCascade, RequestOK, AdminSteps, Reading, CodeSteps, RefreshSteps
  <2>2. Moved(p) /\ pc'[p] = "cutoff"
    BY <1>24, Zenon DEF DeleteCascade, Goto, Moved, LocalsTyped, Same, locals, Labels,
       AdminSteps
  <2>3. ClientOK'
    BY <1>24, <2>1, Zenon DEF DeleteCascade, Overtake, ClientOK, DeletedClientIsOut,
       RevokedForClient
  <2>4. ASSUME NEW q \in Procs PROVE RequestOK(q)'
    <3>1. /\ UNCHANGED <<config, codeLock, installed, clock, row, scopes, iat, fresh>>
          /\ status' = "deleted" /\ rowLock' = NoProc /\ (pc[q] \in RefreshSteps => q \in late')
          /\ q \in overtaken' <=> q \in overtaken \/ pc[q] \in Reading
      BY <1>24, Zenon DEF DeleteCascade, Overtake, locals
    <3>2. pc'[q] = pc[q] \/ (q = p /\ pc[q] = "delete" /\ pc'[q] = "cutoff")
      BY <1>24, <2>2, Zenon DEF DeleteCascade, Moved, Same
    <3>3. RequestOK(q) /\ (q # p => rowLock # q) /\ codeLock # q /\ q # NoProc
      BY <1>24, <1>a, <2>1, Zenon DEF DeleteCascade
    <3>4. CASE q = p
      BY <1>a, <2>1, <2>2, <3>1, <3>2, <3>3, <3>4, Zenon
         DEF RequestOK, AdminSteps, Reading, CodeSteps, RefreshSteps
    <3>5. CASE q # p
      BY <1>a, <3>1, <3>2, <3>3, <3>5, Zenon DEF RequestOK, AdminSteps
    <3> QED
      BY <3>4, <3>5, Zenon
  <2> QED
    BY <2>2, <2>3, <2>4, Zenon DEF Inv, Moved
<1>25. ASSUME NEW p \in Procs, Administration(p) PROVE Inv'
  BY <1>25, <1>7, <1>8, <1>9, <1>16, <1>22, <1>23, <1>24, Zenon DEF Administration
<1>26. ASSUME NEW p \in Procs, Grant(p) PROVE Inv'
  BY <1>26, <1>6, <1>11, <1>12, <1>13, <1>14, <1>15, <1>18, <1>19, <1>20, Zenon
     DEF Grant, RejectClient
<1> QED
  BY <1>1, <1>2, <1>3, <1>4, <1>5, <1>6, <1>10, <1>17, <1>21, <1>25, <1>26, Zenon DEF Next

\* The audit rows stay balanced: only a registration and a PATCH write one, and
\* the PATCH, which has locked the row, finds the value that the rows lead to.
LEMMA TrailStep == Inv /\ TrailOK /\ [Next]_vars => TrailOK'
<1> SUFFICES ASSUME ClientOK, LocalsTyped, \A q \in Procs : RequestOK(q), TrailOK, [Next]_vars
             PROVE  TrailOK'
  BY Zenon DEF Inv
<1>a. ASSUME UNCHANGED <<trail, config>>, status # "none" <=> status' # "none" PROVE TrailOK'
  BY <1>a, Zenon DEF TrailOK, AuditTrail, Balanced
<1>b. ASSUME trail' = [scopes |-> trail'.scopes, grants |-> trail'.grants], status' # "none",
             Once(ScopeValues, trail'.scopes, config'.scopes),
             Once(GrantValues, trail'.grants, config'.grants)
      PROVE  TrailOK'
  <2>1. trail' \in Trails
    BY <1>b, Zenon DEF Trails, Once, ScopeValues, GrantValues
  <2>2. Balanced(trail.scopes, config.scopes)' /\ Balanced(trail.grants, config.grants)'
    BY <1>b, Zenon DEF Balanced, Once
  <2> QED
    BY <2>1, <2>2, Zenon DEF TrailOK, AuditTrail
<1>1. CASE PostCreate
  <2>1. config'.scopes \in ScopeValues /\ config'.grants \in GrantValues /\ status' # "none"
    BY <1>1, Zenon DEF PostCreate, Registrations, ScopeValues, GrantValues
  <2>2. Nothing(ScopeValues, trail.scopes) /\ Nothing(GrantValues, trail.grants)
    BY <1>1, Zenon DEF PostCreate, TrailOK, Trails, AuditTrail, Balanced, Nothing, ScopeValues,
       GrantValues
  <2>3. /\ Once(ScopeValues, Registered(trail.scopes, config'.scopes), config'.scopes)
        /\ Once(GrantValues, Registered(trail.grants, config'.grants), config'.grants)
    BY <2>1, <2>2, RegisteredOnce, Zenon
  <2>4. /\ trail'.scopes = Registered(trail.scopes, config'.scopes)
        /\ trail'.grants = Registered(trail.grants, config'.grants)
        /\ trail' = [scopes |-> trail'.scopes, grants |-> trail'.grants]
    BY <1>1, Zenon DEF PostCreate
  <2> QED
    BY <1>b, <2>1, <2>3, <2>4, Zenon
<1>2. ASSUME NEW p \in Procs, PatchOne(p) PROVE TrailOK'
  <2>1. row[p] = config /\ status # "none" /\ status' # "none"
    BY <1>2, Zenon DEF PatchOne, RequestOK, AdminSteps
  <2>2. config.scopes \in ScopeValues /\ config.grants \in GrantValues
    BY Zenon DEF ClientOK, Configs, ScopeValues, GrantValues
  <2>3. PICK s \in ScopeValues, g \in GrantValues :
          /\ config' = [scopes |-> s, grants |-> g]
          /\ trail' = [scopes |-> Changed(trail.scopes, config.scopes, s),
                       grants |-> Changed(trail.grants, config.grants, g)]
    BY <1>2, <2>1, <2>2, Zenon DEF PatchOne, ScopeValues, GrantValues
  <2>4. /\ Once(ScopeValues, trail.scopes, config.scopes)
        /\ Once(GrantValues, trail.grants, config.grants)
    BY <2>1, Zenon DEF TrailOK, Trails, AuditTrail, Balanced, Once, ScopeValues, GrantValues
  <2>5. /\ Once(ScopeValues, Changed(trail.scopes, config.scopes, s), s)
        /\ Once(GrantValues, Changed(trail.grants, config.grants, g), g)
    BY <2>2, <2>3, <2>4, ChangedOnce, Zenon
  <2>6. /\ trail'.scopes = Changed(trail.scopes, config.scopes, s)
        /\ trail'.grants = Changed(trail.grants, config.grants, g)
        /\ trail' = [scopes |-> trail'.scopes, grants |-> trail'.grants]
        /\ config'.scopes = s /\ config'.grants = g
    BY <2>3, Zenon
  <2> QED
    BY <1>b, <2>1, <2>5, <2>6, Zenon
<1>3. ASSUME \/ UNCHANGED vars \/ Tick \/ PostDisable \/ PostEnable \/ ExpireCode \/ SweepCodes
      PROVE  TrailOK'
  BY <1>3, <1>a, Zenon DEF vars, Tick, PostDisable, PostEnable, ExpireCode, SweepCodes,
     registration, history
<1>4. ASSUME NEW p \in Procs, Administration(p), ~ PatchOne(p) PROVE TrailOK'
  BY <1>4, <1>a, Zenon DEF Administration, GetByIDForUpdate, PostRotateSecret, RotateSecret,
     DeleteOne, DeleteCascade, RevokeBeforeClientSetNow, RequestOK, AdminSteps, registration,
     history
<1>5. ASSUME NEW p \in Procs, Authorize(p) \/ InsertCode(p) \/ Grant(p) \/ Fail(p)
      PROVE  TrailOK'
  BY <1>5, <1>a, Zenon DEF Authorize, InsertCode, Grant, VerifySecret, RejectClient, GetByID,
     ConsumeOnce, RejectCode, SignForCode, CommitCode, ReadPayload, SignForRefresh,
     CommitRefresh, Fail, registration, history, vars
<1> QED
  BY <1>1, <1>2, <1>3, <1>4, <1>5, Zenon DEF Next

-----------------------------------------------------------------------------
(* Theorems *)

\* The invariant behind the results below: who holds which lock, which copies
\* of the client are stale, and what outlives its deletion.
THEOREM ClientInvariant == Spec => []ClientInv
  BY InvInit, Parts, InvStep, TrailStep, PTL DEF Spec

\* However many PATCHes run at once, the audit rows of the client, read in any
\* order, lead to its present scopes and grants once more than away from them,
\* and to any other value as often as away.
THEOREM AuditTrailIsTrue == Spec => []AuditTrail
<1>1. ClientInv => AuditTrail
  BY Zenon DEF ClientInv
<1> QED
  BY <1>1, ClientInvariant, PTL

\* After DeleteOne has written the cutoff, the bearer middleware rejects every
\* access token of the client, except those of refresh grants that had read
\* the client before.
THEOREM DeletedClientRejected == Spec => []DeletedClientIsOut
<1>1. ClientInv => DeletedClientIsOut
  BY Zenon DEF ClientInv, DeletionInv
<1> QED
  BY <1>1, ClientInvariant, PTL

\* /authorize and /token give only what the registration allows at that
\* moment, unless it has changed since they read it.
THEOREM GrantsWithinRegistration == Spec => []WithinRegistration
<1>1. ClientInv => WithinRegistration
  BY Zenon DEF ClientInv
<1> QED
  BY <1>1, ClientInvariant, PTL

\* Only time and a rotation change what VerifySecret accepts.
LEMMA SecretsUntouched ==
    /\ PostDisable \/ PostEnable \/ ExpireCode \/ SweepCodes
         => UNCHANGED <<secret, previous, previousExp, clock>>
    /\ \A p \in Procs : Administration(p) \/ Authorize(p) \/ InsertCode(p) \/ Grant(p) \/ Fail(p)
         => RotateSecret(p) \/ UNCHANGED <<secret, previous, previousExp, clock>>
<1> USE DEF registration
<1>1. ASSUME PostDisable \/ PostEnable \/ ExpireCode \/ SweepCodes
      PROVE  UNCHANGED <<secret, previous, previousExp, clock>>
  BY <1>1, Zenon DEF PostDisable, PostEnable, ExpireCode, SweepCodes
<1>2. ASSUME NEW p \in Procs, Administration(p)
      PROVE  RotateSecret(p) \/ UNCHANGED <<secret, previous, previousExp, clock>>
  BY <1>2, Zenon DEF Administration, GetByIDForUpdate, PatchOne, PostRotateSecret, DeleteOne,
     DeleteCascade,
     RevokeBeforeClientSetNow
<1>3. ASSUME NEW p \in Procs, Authorize(p) \/ InsertCode(p) \/ Fail(p)
      PROVE  UNCHANGED <<secret, previous, previousExp, clock>>
  BY <1>3, Zenon DEF Authorize, InsertCode, Fail
<1>4. ASSUME NEW p \in Procs, Grant(p) PROVE UNCHANGED <<secret, previous, previousExp, clock>>
  BY <1>4, Zenon DEF Grant, VerifySecret, RejectClient, GetByID, ConsumeOnce, RejectCode,
     SignForCode, CommitCode,
     ReadPayload, SignForRefresh, CommitRefresh, vars
<1> QED
  BY <1>1, <1>2, <1>3, <1>4, Zenon

\* A secret that RotateSecret has replaced never becomes current again, and
\* one that VerifySecret no longer accepts is never accepted again.
THEOREM SecretsNeverReturn == Spec => SecretsMoveForward
<1>1. ClientInv /\ [Next]_vars => [\A s \in installed : Rank(s)' <= Rank(s)]_vars
  <2> SUFFICES ASSUME ClientInv, Next, NEW s \in installed PROVE Rank(s)' <= Rank(s)
    BY Zenon
  <2> USE ClientsAssumption DEF ClientInv, TypeOK, SecretsOK, Rank, Accepts
  <2>1. CASE UNCHANGED <<secret, previous, previousExp, clock>>
    BY <2>1
  <2>2. CASE Tick
    BY <2>2 DEF Tick, registration
  <2>3. CASE PostCreate
    BY <2>3, Zenon DEF PostCreate
  <2>4. ASSUME NEW p \in Procs, RotateSecret(p) PROVE Rank(s)' <= Rank(s)
    BY <2>4 DEF RotateSecret
  <2> QED
    BY <2>1, <2>2, <2>3, <2>4, SecretsUntouched, Zenon DEF Next
<1> QED
  BY <1>1, ClientInvariant, PTL DEF Spec, SecretsMoveForward

=============================================================================
