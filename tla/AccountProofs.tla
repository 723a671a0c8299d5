---------------------------- MODULE AccountProofs ----------------------------
(***************************************************************************)
(* Proofs about accounts: the ways back into one and out of it, and who    *)
(* administers them.                                                       *)
(*                                                                         *)
(* PasswordReset, for any tokens, requests and pool size: the row lock     *)
(* that PostConfirm takes before it looks at used_at is what makes         *)
(* ResetInv inductive.  While a request is between that look and its       *)
(* commit, nobody else can burn or use the token.                          *)
(*                                                                         *)
(* Lockout, for any number of logins and for settings that change under    *)
(* them: LockoutInv is inductive.                                          *)
(*                                                                         *)
(* UserAdmin, for any users and requests: AdminInv is inductive.           *)
(*                                                                         *)
(* The three modules have different names for everything, so that one      *)
(* module can hold their proofs.                                           *)
(***************************************************************************)
EXTENDS PasswordReset, Lockout, UserAdmin, TLAPS

-----------------------------------------------------------------------------
(* PasswordReset *)

\* No token, no request.
LEMMA ResetInit == Init => ResetInv
<1> SUFFICES ASSUME Init PROVE ResetInv
  BY Zenon
<1> USE ResetAssumption DEF Init
<1>1. want \in [Procs -> SUBSET Tokens]
  BY Zenon
<1>2. TypeOK
  BY <1>1 DEF TypeOK
<1> QED
  BY <1>2 DEF ResetInv, ConfirmSteps

\* Ending a transaction releases only the request's own locks.
LEMMA ReturnStep ==
    ASSUME ResetInv, NEW p \in Procs, Return(p), UNCHANGED <<row, resets>>,
           overtaken' \subseteq overtaken
    PROVE  ResetInv'
BY ResetAssumption DEF ResetInv, TypeOK, ConfirmSteps, RequestSteps, Return, EndTx, Goto

\* One case per action.
LEMMA ResetStep == ResetInv /\ [Next]_vars => ResetInv'
<1> SUFFICES ASSUME ResetInv, [Next]_vars PROVE ResetInv'
  BY Zenon
<1>b. ASSUME NEW t \in Tokens, Expire(t) PROVE ResetInv'
  BY <1>b DEF Expire, history, ResetInv, TypeOK
<1>e. ASSUME NEW t \in Tokens, Execute(t) PROVE ResetInv'
  BY <1>e DEF Execute, history, ResetInv, TypeOK
<1>c. CASE UNCHANGED vars
  BY <1>c, Zenon DEF vars, history, ResetInv, TypeOK
<1>d. ASSUME NEW p \in Procs, PostRequest(p) \/ PostConfirm(p) \/ Proceed(p) \/ Fail(p)
      PROVE  ResetInv'
  <2> USE ResetAssumption
  <2>1. CASE \/ AuditUnmatched(p) \/ RejectBreached(p) \/ AuditConfirmFailed(p)
             \/ Notify(p) \/ Fail(p) \/ DeadlockDetected(p)
    BY <2>1, ReturnStep, Zenon DEF AuditUnmatched, RejectBreached, AuditConfirmFailed, Notify,
       Fail, DeadlockDetected, history
  <2>2. CASE PostRequest(p) \/ Lookup(p) \/ Invalidate(p) \/ TokenNotFound(p)
    BY <2>2 DEF PostRequest, history, Lookup, Invalidate, TokenNotFound, Goto, ResetInv, TypeOK,
       ConfirmSteps, RequestSteps
  <2>3. CASE BeginRequest(p) \/ BeginConfirm(p)
    BY <2>3 DEF BeginRequest, history, BeginConfirm, Begin, Goto, ResetInv, TypeOK,
       ConfirmSteps,
       RequestSteps
  <2>4. ASSUME NEW t \in Tokens, LockRow(p, t) PROVE ResetInv'
    BY <2>4 DEF LockRow, history, ResetInv, TypeOK, ConfirmSteps
  <2>5. CASE InsertAndCommit(p)
    <3>1. PICK n \in Tokens :
            /\ row[n] = "none"
            /\ row' = [t \in Tokens |-> IF t = n THEN "live"
                                        ELSE IF lock[t] = p THEN "used" ELSE row[t]]
      BY <2>5, Zenon DEF InsertAndCommit
    <3> QED
      BY <2>5, <3>1 DEF InsertAndCommit, Return, EndTx, Goto, ResetInv, TypeOK, ConfirmSteps,
         RequestSteps
  <2>6. CASE PostConfirm(p) \/ CheckPassword(p)
    BY <2>6 DEF PostConfirm, history, CheckPassword, Goto, ResetInv, TypeOK, ConfirmSteps,
       RequestSteps
  <2>7. CASE GetByTokenForUpdate(p)
    BY <2>7 DEF GetByTokenForUpdate, history, Goto, ResetInv, TypeOK, ConfirmSteps, RequestSteps
  <2>8. CASE SetPassword(p)
    <3>1. tok[p] \in Tokens /\ lock[tok[p]] = p /\ resets[tok[p]] = 0
      BY <2>8 DEF SetPassword, ResetInv, TypeOK, ConfirmSteps
    <3> QED
      BY <2>8, <3>1 DEF SetPassword, history, EndTx, Goto, ResetInv, TypeOK, ConfirmSteps,
         RequestSteps
  <2> QED
    BY <1>d, <2>1, <2>2, <2>3, <2>4, <2>5, <2>6, <2>7, <2>8, Zenon DEF Proceed
<1> QED
  BY <1>b, <1>c, <1>d, <1>e, Zenon DEF Next

\* ResetInv holds in every reachable state.
THEOREM ResetInvariant == Spec => []ResetInv
BY ResetInit, ResetStep, PTL DEF Spec

\* A mailed link sets the password at most once.
THEOREM LinkUsedOnce == Spec => []SingleUse
<1>1. ResetInv => SingleUse
  BY DEF ResetInv, TypeOK, SingleUse
<1> QED
  BY ResetInvariant, <1>1, PTL

\* A link that was used or burned stays dead: the only step that sets the
\* password owns the lock of a row that is still unused.
THEOREM DeadLinksStayDead == Spec => BurnedLinkIsDead
<1>1. ResetInv /\ [Next]_vars =>
        [\A t \in Tokens : resets'[t] # resets[t] => row[t] \in {"live", "expired"}]_vars
  <2> SUFFICES ASSUME ResetInv, [Next]_vars, NEW t \in Tokens, resets'[t] # resets[t]
               PROVE  row[t] \in {"live", "expired"}
    BY Zenon
  <2>1. PICK p \in Procs : SetPassword(p)
    <3>1. resets' # resets
      BY Zenon
    <3>2. \E p \in Procs : Proceed(p)
      BY <3>1, Zenon DEF Next, PostRequest, PostConfirm, Fail, Expire, Execute, vars, history
    <3>3. PICK p \in Procs : Proceed(p)
      BY <3>2, Zenon
    <3>4. SetPassword(p)
      BY <3>1, <3>3, Zenon DEF Proceed, Lookup, AuditUnmatched, BeginRequest, BeginConfirm,
         Begin, Invalidate, LockRow, InsertAndCommit, GetByTokenForUpdate, TokenNotFound,
         CheckPassword, RejectBreached, AuditConfirmFailed, Notify, DeadlockDetected, Fail, history
    <3> QED
      BY <3>4, Zenon
  <2> QED
    BY <2>1 DEF SetPassword, ResetInv, TypeOK
<1> QED
  BY ResetInvariant, <1>1, PTL DEF Spec, BurnedLinkIsDead

-----------------------------------------------------------------------------
(* Older links are burned: the UPDATE's snapshot and the row locks. *)

\* Nothing is being invalidated at first.
LEMMA BurnInit == Init => BurnInv
BY Zenon DEF Init, BurnInv, Invalidating

\* A link appears only with a commit, which overtakes the requests that have
\* taken their snapshot; a row of the snapshot leaves want only for a lock,
\* and the lock is released only by its owner.
LEMMA BurnStep == ResetInv /\ BurnInv /\ [Next]_vars => BurnInv'
<1> SUFFICES ASSUME ResetInv, BurnInv, [Next]_vars PROVE BurnInv'
  BY Zenon
<1> USE ResetAssumption DEF ResetInv, TypeOK, BurnInv, Invalidating
<1>b. ASSUME NEW t \in Tokens, Expire(t) PROVE BurnInv'
  BY <1>b DEF Expire, history
<1>e. ASSUME NEW t \in Tokens, Execute(t) PROVE BurnInv'
  BY <1>e, Zenon DEF Execute
<1>c. CASE UNCHANGED vars
  BY <1>c DEF vars, history
<1>d. ASSUME NEW p \in Procs, PostRequest(p) \/ PostConfirm(p) \/ Proceed(p) \/ Fail(p)
      PROVE  BurnInv'
  <2>1. CASE AuditUnmatched(p) \/ RejectBreached(p) \/ AuditConfirmFailed(p) \/ Notify(p)
    BY <2>1 DEF AuditUnmatched, RejectBreached, AuditConfirmFailed, Notify, Return, EndTx,
       Goto, history
  <2>2. CASE Fail(p) \/ DeadlockDetected(p)
    <3>1. Fail(p)
      BY <2>2, Zenon DEF DeadlockDetected
    <3> QED
      BY <3>1 DEF Fail, Return, EndTx, Goto
  <2>3. CASE PostRequest(p) \/ PostConfirm(p) \/ Lookup(p) \/ CheckPassword(p)
             \/ BeginRequest(p) \/ BeginConfirm(p) \/ TokenNotFound(p)
    BY <2>3 DEF PostRequest, PostConfirm, Lookup, CheckPassword, BeginRequest, BeginConfirm,
       TokenNotFound, Begin, Goto, history
  <2>4. CASE Invalidate(p)
    BY <2>4 DEF Invalidate, Goto, history
  <2>5. ASSUME NEW t \in Tokens, LockRow(p, t) PROVE BurnInv'
    BY <2>5 DEF LockRow, history
  <2>6. CASE GetByTokenForUpdate(p)
    BY <2>6 DEF GetByTokenForUpdate, Goto, history
  <2>7. CASE InsertAndCommit(p)
    BY <2>7 DEF InsertAndCommit, Return, EndTx, Goto
  <2>8. CASE SetPassword(p)
    BY <2>8 DEF SetPassword, EndTx, Goto
  <2> QED
    BY <1>d, <2>1, <2>2, <2>3, <2>4, <2>5, <2>6, <2>7, <2>8, Zenon DEF Proceed
<1> QED
  BY <1>b, <1>c, <1>d, <1>e DEF Next

\* BurnInv holds in every reachable state.
THEOREM BurnInvariant == Spec => []BurnInv
BY ResetInvariant, BurnInit, BurnStep, PTL DEF Spec

\* A request that no other link has overtaken leaves no older link live.
THEOREM NewLinkBurnsOld == Spec => OlderLinksBurned
<1> DEFINE Burned ==
      \A p \in Procs, t, u \in Tokens :
        /\ Invalidating(p) /\ pc'[p] = "idle" /\ p \notin overtaken
        /\ row[t] = "none" /\ row'[t] = "live" /\ row'[u] = "live"
        => t = u
<1>1. ResetInv /\ BurnInv /\ [Next]_vars => [Burned]_vars
  <2> SUFFICES ASSUME ResetInv, BurnInv, [Next]_vars,
                      NEW p \in Procs, NEW t \in Tokens, NEW u \in Tokens,
                      Invalidating(p), pc'[p] = "idle", p \notin overtaken,
                      row[t] = "none", row'[t] = "live", row'[u] = "live"
               PROVE  t = u
    OBVIOUS
  <2>a. row'[t] # row[t] /\ row'[t] # "used" /\ row'[t] # "expired" /\ pc'[p] # pc[p]
    BY Zenon DEF Invalidating
  <2>b. ASSUME NEW q \in Procs, PostRequest(q) \/ PostConfirm(q) \/ Fail(q) \/ DeadlockDetected(q)
        PROVE  FALSE
    BY <2>a, <2>b, Zenon DEF PostRequest, PostConfirm, Fail, DeadlockDetected
  <2>c. ASSUME NEW q \in Procs, Lookup(q) \/ AuditUnmatched(q) \/ BeginRequest(q) \/ Invalidate(q)
                 \/ (\E v \in Tokens : LockRow(q, v)) \/ BeginConfirm(q) \/ TokenNotFound(q)
        PROVE  FALSE
    BY <2>a, <2>c, Zenon DEF Lookup, AuditUnmatched, BeginRequest, Invalidate, LockRow,
       BeginConfirm, TokenNotFound, Begin
  <2>d. ASSUME NEW q \in Procs, GetByTokenForUpdate(q) \/ CheckPassword(q) \/ RejectBreached(q)
                 \/ AuditConfirmFailed(q) \/ SetPassword(q) \/ Notify(q)
        PROVE  FALSE
    BY <2>a, <2>d DEF GetByTokenForUpdate, CheckPassword, RejectBreached, AuditConfirmFailed,
       SetPassword, Notify, ResetInv, TypeOK
  <2>1. InsertAndCommit(p)
    <3>1. PICK q \in Procs : InsertAndCommit(q)
      BY <2>a, <2>b, <2>c, <2>d, Zenon DEF Next, Proceed, Expire, Execute, vars
    <3>2. pc' = [pc EXCEPT ![q] = "idle"] /\ DOMAIN pc = Procs
      BY <3>1, Zenon DEF InsertAndCommit, Return, Goto, ResetInv, TypeOK
    <3>3. q = p
      BY <2>a, <3>2, Zenon
    <3> QED
      BY <3>1, <3>3, Zenon
  <2>2. PICK n \in Tokens :
          /\ row[n] = "none"
          /\ row' = [v \in Tokens |-> IF v = n THEN "live"
                                      ELSE IF lock[v] = p THEN "used" ELSE row[v]]
    BY <2>1, Zenon DEF InsertAndCommit
  <2> QED
    BY <2>1, <2>2 DEF InsertAndCommit, BurnInv, ResetInv, TypeOK
<1> QED
  BY ResetInvariant, BurnInvariant, <1>1, PTL DEF Spec, OlderLinksBurned

-----------------------------------------------------------------------------
(* The links implement OneShot. *)

\* No link has been issued.
LEMMA LinkInit == Init => LinkSpec!Init
BY DEF Init, LinkSpec!Init, linkState

\* Every step of the requests is a step of OneShot or a stutter.
LEMMA LinkStep == ResetInv /\ [Next]_vars => [LinkSpec!Next]_(LinkSpec!vars)
<1> SUFFICES ASSUME ResetInv, [Next]_vars
             PROVE  LinkSpec!Next \/ UNCHANGED LinkSpec!vars
  BY Zenon
<1> USE DEF ResetInv, TypeOK
<1>1. CASE UNCHANGED vars
  BY <1>1, Zenon DEF linkState, vars, history, LinkSpec!vars
<1>3. ASSUME NEW t \in Tokens, Expire(t) PROVE UNCHANGED LinkSpec!vars
  BY <1>3 DEF linkState, Expire, history, LinkSpec!vars
<1>4. ASSUME NEW t \in Tokens, Execute(t) PROVE LinkSpec!Next
  <2>1. LinkSpec!Issue(t, {})
    BY <1>4 DEF Execute, LinkSpec!Issue, linkState
  <2> QED
    BY <2>1, Zenon DEF LinkSpec!Next
<1>5. ASSUME NEW p \in Procs, PostRequest(p) \/ PostConfirm(p) \/ Proceed(p) \/ Fail(p)
      PROVE  LinkSpec!Next \/ UNCHANGED LinkSpec!vars
  <2>1. CASE InsertAndCommit(p)
    <3>1. PICK n \in Tokens :
            /\ row[n] = "none"
            /\ row' = [t \in Tokens |-> IF t = n THEN "live"
                                        ELSE IF lock[t] = p THEN "used" ELSE row[t]]
      BY <2>1, Zenon DEF InsertAndCommit
    <3> DEFINE burned == {t \in Tokens : t # n /\ lock[t] = p /\ row[t] \in {"live", "expired"}}
    <3>2. \A t \in Tokens : lock[t] = p /\ t # n => row[t] \in {"live", "expired", "used"}
      BY ResetAssumption
    <3>3. LinkSpec!Issue(n, burned)
      BY <2>1, <3>1, <3>2 DEF InsertAndCommit, LinkSpec!Issue, linkState
    <3> QED
      BY <3>3, Zenon DEF LinkSpec!Next
  <2>2. CASE SetPassword(p)
    <3>1. LinkSpec!Spend(tok[p]) /\ tok[p] \in Tokens
      BY <2>2 DEF SetPassword, LinkSpec!Spend, linkState, ConfirmSteps
    <3> QED
      BY <3>1, Zenon DEF LinkSpec!Next
  <2>3. CASE UNCHANGED <<row, resets>>
    BY <2>3, Zenon DEF linkState, LinkSpec!vars
  <2> QED
    BY <1>5, <2>1, <2>2, <2>3, Zenon DEF Proceed, PostRequest, PostConfirm, Fail, Lookup,
       AuditUnmatched, BeginRequest, BeginConfirm, Begin, Invalidate, LockRow, GetByTokenForUpdate,
       TokenNotFound, CheckPassword, RejectBreached, AuditConfirmFailed, Notify,
       DeadlockDetected, history
<1> QED
  BY <1>1, <1>3, <1>4, <1>5, Zenon DEF Next

\* PasswordReset implements OneShot: a link is used in the one step that
\* spends it, and what is spent or burned stays so.
THEOREM LinksImplementOneShot == Spec => LinksAreOneShot
BY ResetInvariant, LinkInit, LinkStep, PTL DEF Spec, LinksAreOneShot, LinkSpec!Spec

-----------------------------------------------------------------------------
(* Lockout *)

\* The lockout begins in its invariant ...
LEMMA LockoutBegins == LockoutInit => LockoutInv
<1> SUFFICES ASSUME LockoutInit PROVE LockoutInv
  BY Zenon
<1>1. /\ rowForce \in [Logins -> BOOLEAN] /\ rowEnrolled \in [Logins -> BOOLEAN]
      /\ force \in BOOLEAN /\ enrolled \in BOOLEAN /\ mfa \in BOOLEAN
  BY Zenon DEF LockoutInit
<1> QED
  BY <1>1, LockoutAssumption DEF LockoutInit, LockoutInv, LockoutTypeOK, ThresholdLocks,
     Accepted

\* ... and every step of a login, of the settings or of the clock keeps it.
LEMMA LockoutStep == LockoutInv /\ [LockoutNext]_lockoutVars => LockoutInv'
<1> SUFFICES ASSUME LockoutInv, [LockoutNext]_lockoutVars PROVE LockoutInv'
  BY Zenon
<1> USE LockoutAssumption DEF LockoutInv, LockoutTypeOK, ThresholdLocks, Accepted, userRow, config,
       loginLocals, Advance
<1>1. CASE ClockTick
  BY <1>1 DEF ClockTick
<1>2. CASE PatchSecurity
  BY <1>2, Zenon DEF PatchSecurity
<1>3. CASE ResetPassword
  BY <1>3 DEF ResetPassword
<1>4. CASE ConfirmReset
  <2>1. LockoutTypeOK'
    BY <1>4, Zenon DEF ConfirmReset
  <2>2. ThresholdLocks' /\ UNCHANGED <<now, step, loginLocals>>
    BY <1>4 DEF ConfirmReset
  <2> QED
    BY <2>1, <2>2, Zenon
<1>5. CASE PostChangePassword
  BY <1>5, Zenon DEF PostChangePassword
<1>6. CASE SetEnrolled
  BY <1>6, Zenon DEF SetEnrolled
<1>7. ASSUME NEW p \in Logins, PostLogin(p) PROVE LockoutInv'
  BY <1>7, Zenon DEF PostLogin
<1>8. ASSUME NEW p \in Logins, GetByEmail(p) PROVE LockoutInv'
  BY <1>8, Zenon DEF GetByEmail
<1>9. ASSUME NEW p \in Logins, AnswerLocked(p) PROVE LockoutInv'
  BY <1>9 DEF AnswerLocked, Leave
<1>10. ASSUME NEW p \in Logins, IncrementFailedLogins(p) PROVE LockoutInv'
  <2>1. lim[p] \in Thresholds /\ dur[p] \in Durations /\ start[p] \in Nat
    BY <1>10, Zenon DEF IncrementFailedLogins
  <2>2. failed' = failed + 1 /\ lockedUntil' = NewLock(p)
    BY <1>10, Zenon DEF IncrementFailedLogins
  <2>3. failed \in Nat /\ lockedUntil \in Nat /\ lim[p] \in Nat \ {0} /\ dur[p] \in Nat \ {0}
    BY <2>1, Zenon
  <2>4. CASE failed + 1 >= lim[p]
    <3>1. lockedUntil' \in Nat \ {0}
      BY <2>1, <2>2, <2>3, <2>4, SMT DEF NewLock
    <3> QED
      BY <1>10, <2>1, <2>2, <2>3, <2>4, <3>1 DEF IncrementFailedLogins, Leave
  <2>5. CASE ~(failed + 1 >= lim[p])
    <3>1. lockedUntil' = lockedUntil
      BY <2>2, <2>5, Zenon DEF NewLock
    <3>2. ThresholdLocks'
      <4>1. ~(\A n \in Thresholds : failed' >= n)
        BY <2>1, <2>2, <2>5, Zenon
      <4>2. ASSUME lockedUntil' # 0 PROVE \E n \in Thresholds : failed' >= n
        <5>1. PICK n \in Thresholds : failed >= n
          BY <3>1, <4>2, Zenon
        <5> QED
          BY <2>2, <2>3, <5>1
      <4> QED
        BY <4>1, <4>2, Zenon
    <3> QED
      BY <1>10, <2>2, <2>3, <3>1, <3>2 DEF IncrementFailedLogins, Leave
  <2> QED
    BY <2>4, <2>5, Zenon
<1>11. ASSUME NEW p \in Logins, LockedConcurrent(p) PROVE LockoutInv'
  BY <1>11 DEF LockedConcurrent, Leave
<1>12. ASSUME NEW p \in Logins, ResetFailedLogins(p) PROVE LockoutInv'
  BY <1>12 DEF ResetFailedLogins
<1>13. ASSUME NEW p \in Logins, LockedRace(p) PROVE LockoutInv'
  BY <1>13 DEF LockedRace, Leave
<1>14. ASSUME NEW p \in Logins, Answer(p) PROVE LockoutInv'
  BY <1>14 DEF Answer, Leave
<1>15. ASSUME NEW p \in Logins, LoginFails(p) PROVE LockoutInv'
  BY <1>15 DEF LoginFails, Leave
<1>16. ASSUME NEW p \in Logins, BeginLogin(p) PROVE LockoutInv'
  BY <1>16 DEF BeginLogin
<1>17. CASE UNCHANGED lockoutVars
  BY <1>17, Zenon DEF lockoutVars
<1> QED
  BY <1>1, <1>2, <1>3, <1>4, <1>5, <1>6, <1>7, <1>8,
     <1>9, <1>10, <1>11, <1>12, <1>13, <1>14, <1>15, <1>16, <1>17, Zenon DEF LockoutNext

\* In every reachable state locks and failures agree with the thresholds in
\* use, and no transaction's now() is in the future.
THEOREM LockoutInvariant == LockoutSpec => []LockoutInv
  BY LockoutBegins, LockoutStep, PTL DEF LockoutSpec

\* Failures that reach every threshold in use always leave a lock, and only
\* failures that reach one do.
THEOREM ThresholdAlwaysLocks == LockoutSpec => []ThresholdLocks
<1>1. LockoutInv => ThresholdLocks
  BY Zenon DEF LockoutInv
<1> QED
  BY <1>1, LockoutInvariant, PTL

\* ResetFailedLogins accepts no password while a lock is active, since a lock
\* that is over for the transaction is over for the clock.
THEOREM LockedOut == LockoutSpec => NoLoginWhileLocked
<1> DEFINE Refused == \A p \in Logins : step[p] = "verify" /\ step'[p] \in Accepted => ~Locked
<1>1. LockoutInv /\ [LockoutNext]_lockoutVars => [Refused]_lockoutVars
  <2> SUFFICES ASSUME LockoutInv, LockoutNext, NEW p \in Logins,
                      step[p] = "verify", step'[p] \in Accepted
               PROVE  ~Locked
    BY Zenon
  <2> USE DEF LockoutInv, LockoutTypeOK, Accepted, Advance, loginLocals
  <2>1. ResetFailedLogins(p)
    <3>1. step' # step
      BY Zenon
    <3>2. PICK q \in Logins :
            \/ PostLogin(q) \/ BeginLogin(q) \/ GetByEmail(q) \/ AnswerLocked(q)
            \/ IncrementFailedLogins(q) \/ LockedConcurrent(q) \/ ResetFailedLogins(q)
            \/ LockedRace(q) \/ Answer(q) \/ LoginFails(q)
      BY <3>1, Zenon DEF LockoutNext, ClockTick, PatchSecurity, ResetPassword, ConfirmReset,
         PostChangePassword, SetEnrolled
    <3> QED
      BY <3>2 DEF PostLogin, BeginLogin, GetByEmail, AnswerLocked, IncrementFailedLogins,
         LockedConcurrent, LockedRace, Answer, LoginFails, Leave, ResetFailedLogins
  <2> QED
    BY <2>1 DEF ResetFailedLogins, LockFree, Locked
<1> QED
  BY <1>1, LockoutInvariant, PTL DEF LockoutSpec, NoLoginWhileLocked

\* No login shortens, extends or clears an active lock.
THEOREM LockRunsItsCourse == LockoutSpec => LockedForFullDuration
<1> DEFINE Kept == Locked /\ step' # step => lockedUntil' = lockedUntil /\ failed' = failed
<1>1. LockoutInv /\ [LockoutNext]_lockoutVars => [Kept]_lockoutVars
  <2> SUFFICES ASSUME LockoutInv, LockoutNext, Locked, step' # step
               PROVE lockedUntil' = lockedUntil /\ failed' = failed
    BY Zenon
  <2> USE DEF LockoutInv, LockoutTypeOK, userRow
  <2>1. PICK p \in Logins :
          \/ PostLogin(p) \/ BeginLogin(p) \/ GetByEmail(p) \/ AnswerLocked(p)
          \/ IncrementFailedLogins(p) \/ LockedConcurrent(p) \/ ResetFailedLogins(p)
          \/ LockedRace(p) \/ Answer(p) \/ LoginFails(p)
    BY Zenon DEF LockoutNext, ClockTick, PatchSecurity, ResetPassword, ConfirmReset,
       PostChangePassword,
       SetEnrolled
  <2>2. ~LockFree(p)
    BY DEF LockFree, Locked
  <2> QED
    BY <2>1, <2>2, Zenon DEF PostLogin, BeginLogin, GetByEmail, AnswerLocked,
       IncrementFailedLogins,
       LockedConcurrent, ResetFailedLogins, LockedRace, Answer, LoginFails
<1> QED
  BY <1>1, LockoutInvariant, PTL DEF LockoutSpec, LockedForFullDuration

-----------------------------------------------------------------------------
(***************************************************************************)
(* UserAdmin, for any set of users and any number of requests in flight:   *)
(* type correctness for every kind of request, and last-admin protection   *)
(* when no request grants the role super_admin.                            *)
(***************************************************************************)

\* The type invariant with what a busy handler knows about its request.
BusyOK ==
    \A p \in Handlers : stmt[p] # "idle" => target[p] \in Users /\ call[p] \in Requests

TInv == UsersTypeOK /\ BusyOK

\* At first no handler is busy.
LEMMA TypeInit == UsersInit => TInv
  BY DEF UsersInit, TInv, UsersTypeOK, BusyOK, NoCall, InTx, Roles

\* One case per action of the handlers.
LEMMA TypeStep == TInv /\ [UsersNext]_usersVars => TInv'
<1> SUFFICES ASSUME TInv, [UsersNext]_usersVars PROVE TInv'
  BY Zenon
<1> USE NoHandlerAssumption, NoUserAssumption, RequestsAssumption DEF TInv, InTx, Roles
<1>r. ASSUME NEW p \in Handlers, Rollback(p) PROVE TInv'
  BY <1>r, Zenon DEF Rollback, Finish, NextStmt, ReleaseLocks, UsersTypeOK, BusyOK, NoCall
<1>1. ASSUME NEW p \in Handlers, Request(p) PROVE TInv'
  <2>1. PICK op \in Ops, first \in {"write", "read", "select"} : Enter(p, op, first)
    BY <1>1, Zenon DEF Request, Create, Update, Disable, Enable, Delete, Ops
  <2>2. PICK a \in ActiveAdmins, t \in Users, q \in Requests :
           /\ target' = [target EXCEPT ![p] = t]
           /\ call' = [call EXCEPT ![p] = q]
    BY <2>1, Zenon DEF Enter
  <2>3. q \in Calls /\ q.op \in Ops /\ a \in Users
    BY <2>2, Zenon DEF Calls, ActiveAdmins, SuperAdmins
  <2> QED
    BY <2>1, <2>2, <2>3, Zenon DEF Enter, NextStmt, UsersTypeOK, BusyOK
<1>2. ASSUME NEW p \in Handlers, Read(p) PROVE TInv'
  <2>1. CASE ~Exists(target[p]) /\ Rollback(p)
    BY <2>1, <1>r, Zenon
  <2>2. CASE /\ seen' = [seen EXCEPT ![p] = role[target[p]]]
             /\ NextStmt(p, IF Demoting(p, role[target[p]]) THEN "select" ELSE "write")
             /\ UNCHANGED <<role, status, rowLock, target, call, toLock>>
    BY <1>2, <2>2, Zenon DEF Read, NextStmt, UsersTypeOK, BusyOK
  <2> QED
    BY <1>2, <2>1, <2>2, Zenon DEF Read
<1>3. ASSUME NEW p \in Handlers, SelectSuperAdmins(p) PROVE TInv'
  BY <1>3, Zenon DEF SelectSuperAdmins, SuperAdmins, NextStmt, UsersTypeOK, BusyOK
<1>4. ASSUME NEW p \in Handlers, NEW u \in Users, LockSuperAdmin(p, u) PROVE TInv'
  BY <1>4, Zenon DEF LockSuperAdmin, UsersTypeOK, BusyOK
<1>5. ASSUME NEW p \in Handlers, SuperAdminsLocked(p) PROVE TInv'
  BY <1>5, Zenon DEF SuperAdminsLocked, Continue, NextStmt, UsersTypeOK, BusyOK
<1>6. ASSUME NEW p \in Handlers, Write(p) PROVE TInv'
  <2>1. CASE Writable(p)
    BY <1>6, <2>1, <1>r DEF Write, Continue, NextStmt, UsersTypeOK, BusyOK
  <2>2. CASE ~Writable(p)
    BY <1>6, <2>2, <1>r, Zenon DEF Write
  <2> QED
    BY <2>1, <2>2, Zenon
<1>7. ASSUME NEW p \in Handlers, EnforceLastAdminLockout(p) PROVE TInv'
  <2>1. CASE Rollback(p)
    BY <2>1, <1>r, Zenon
  <2>2. CASE Continue(p, "commit") /\ UNCHANGED <<role, status, rowLock>>
    BY <1>7, <2>2, Zenon DEF EnforceLastAdminLockout, Continue, NextStmt, UsersTypeOK, BusyOK
  <2> QED
    BY <1>7, <2>1, <2>2, Zenon DEF EnforceLastAdminLockout
<1>8. ASSUME NEW p \in Handlers, Commit(p) PROVE TInv'
  <2>1. stmt[p] # "idle" /\ call[p] \in Calls /\ target[p] \in Users
    BY <1>8, Zenon DEF Commit, BusyOK
  <2>2. NewRole(p) \in Roles
    BY <1>8, <2>1, Zenon DEF Commit, NewRole, UsersTypeOK, BusyOK, Calls
  <2>3. NewStatus(p) \in {"none", "active", "disabled", "deleted"}
    BY <2>1, Zenon DEF NewStatus, UsersTypeOK
  <2> QED
    BY <1>8, <2>1, <2>2, <2>3, Zenon DEF Commit, Finish, NextStmt, ReleaseLocks, UsersTypeOK,
       BusyOK,
       NoCall
<1>9. ASSUME NEW p \in Handlers, FailTx(p) PROVE TInv'
  BY <1>9, <1>r, Zenon DEF FailTx
<1>10. CASE UNCHANGED usersVars
  BY <1>10, Zenon DEF usersVars, UsersTypeOK, BusyOK
<1> QED
  BY <1>1, <1>2, <1>3, <1>4, <1>5, <1>6, <1>7, <1>8, <1>9, <1>10, Zenon DEF UsersNext

\* Every reachable state of the users table and of the handlers is well typed:
\* whatever requests arrive, no handler writes anything but one of the two
\* roles and one of the statuses.
THEOREM TypeCorrect == UsersSpec => []UsersTypeOK
<1>1. TInv => UsersTypeOK
  BY Zenon DEF TInv
<1> QED
  BY <1>1, TypeInit, TypeStep, PTL DEF UsersSpec

-----------------------------------------------------------------------------
(***************************************************************************)
(* Last-admin protection.                                                  *)
(***************************************************************************)

\* The condition of the theorem: Create and Update only ask for the role user.
NoAdminGranted ==
    \A q \in Requests : q.op \in {"create", "update"} => q.newRole = "user"

\* The table has an active super_admin, and no row is locked.
LEMMA AdminInit == UsersInit => AdminInv
  BY Zenon DEF UsersInit, AdminInv, HandlerInv, LastAdmin, Guarded

\* A step that keeps the table, gives no lock of another handler away and
\* leaves the other handlers alone preserves what they know.
LEMMA OtherHandler ==
  ASSUME NEW o \in Handlers, TInv, HandlerInv(o),
         role' = role, status' = status,
         stmt'[o] = stmt[o], call'[o] = call[o], target'[o] = target[o],
         seen'[o] = seen[o], toLock'[o] = toLock[o],
         \A u \in Users : rowLock[u] = o => rowLock'[u] = o
  PROVE  HandlerInv(o)'
<1>1. SuperAdmins' = SuperAdmins /\ ActiveAdmins' = ActiveAdmins
  BY Zenon DEF SuperAdmins, ActiveAdmins, Exists
<1>2. \A u \in SuperAdmins : u \in Users
  BY Zenon DEF SuperAdmins
<1>3. stmt[o] # "idle" => target[o] \in Users
  BY Zenon DEF TInv, BusyOK
<1>4. Demoting(o, seen[o])' = Demoting(o, seen[o]) /\ Guarded(o)' = Guarded(o)
      /\ RemovesAdmin(o)' = RemovesAdmin(o) /\ Writable(o)' = Writable(o)
  BY Zenon DEF Demoting, Guarded, RemovesAdmin, Writable, Exists
<1>5. RemainingActiveSuperAdmins(o)' = RemainingActiveSuperAdmins(o)
  BY <1>1, Zenon DEF RemainingActiveSuperAdmins, NewRole, NewStatus
<1> QED
  BY <1>1, <1>2, <1>3, <1>4, <1>5, Zenon DEF HandlerInv

\* An error rolls the transaction back: the table is as before.
LEMMA RollbackStep ==
  ASSUME NEW p \in Handlers, TInv, AdminInv, Rollback(p)
  PROVE  AdminInv'
<1>1. role' = role /\ status' = status /\ stmt'[p] = "idle"
  BY Zenon DEF Rollback, Finish, NextStmt, TInv, UsersTypeOK
<1>2. LastAdmin'
  BY <1>1, Zenon DEF AdminInv, LastAdmin, ActiveAdmins, SuperAdmins, Exists
<1>3. HandlerInv(p)'
  BY <1>1, Zenon DEF HandlerInv, Guarded
<1>4. ASSUME NEW o \in Handlers \ {p} PROVE HandlerInv(o)'
  BY <1>1, OtherHandler, NoHandlerAssumption, Zenon
     DEF AdminInv, Rollback, Finish, NextStmt, ReleaseLocks, TInv, UsersTypeOK
<1> QED
  BY <1>2, <1>3, <1>4, Zenon DEF AdminInv

\* A commit, when no admin is granted, makes nobody a super_admin.
LEMMA CommitGrantsNothing ==
  ASSUME NEW p \in Handlers, TInv, AdminInv, Commit(p), NoAdminGranted
  PROVE  /\ SuperAdmins' \subseteq SuperAdmins
         /\ target[p] \in Users
         /\ \A u \in Users \ {target[p]} : role'[u] = role[u] /\ status'[u] = status[u]
         /\ role[target[p]] = "user" => role'[target[p]] = "user"
<1>1. target[p] \in Users /\ call[p] \in Requests /\ stmt[p] = "commit"
  BY Zenon DEF Commit, TInv, BusyOK
<1>2. \A u \in Users \ {target[p]} : role'[u] = role[u] /\ status'[u] = status[u]
  BY <1>1, Zenon DEF Commit, TInv, UsersTypeOK
<1>3. role'[target[p]] = NewRole(p) /\ status'[target[p]] = NewStatus(p)
  BY <1>1, Zenon DEF Commit, TInv, UsersTypeOK
<1>4. NewRole(p) = "user" \/ NewRole(p) = role[target[p]]
  BY <1>1, RequestsAssumption, Zenon DEF NewRole, NoAdminGranted, Calls, Ops
<1>5. Writable(p)
  BY <1>1, Zenon DEF AdminInv, HandlerInv
<1>6. NewRole(p) = "super_admin" => call[p].op # "create"
  BY <1>1, RequestsAssumption, Zenon DEF NewRole, NoAdminGranted
<1>7. target[p] \in SuperAdmins' => target[p] \in SuperAdmins
  BY <1>1, <1>3, <1>4, <1>5, <1>6, Zenon DEF SuperAdmins, Writable
<1> QED
  BY <1>1, <1>2, <1>3, <1>4, <1>7, Zenon DEF SuperAdmins, Exists

\* A commit that removes an administrator has counted another one, under the
\* locks that it still holds.
LEMMA CommitStep ==
  ASSUME NEW p \in Handlers, TInv, AdminInv, Commit(p), NoAdminGranted
  PROVE  AdminInv'
<1>1. /\ SuperAdmins' \subseteq SuperAdmins
      /\ target[p] \in Users
      /\ \A u \in Users \ {target[p]} : role'[u] = role[u] /\ status'[u] = status[u]
      /\ role[target[p]] = "user" => role'[target[p]] = "user"
  BY CommitGrantsNothing, Zenon
<1>2. /\ stmt[p] = "commit" /\ rowLock[target[p]] = p /\ Writable(p)
      /\ RemovesAdmin(p) => RemainingActiveSuperAdmins(p) # {}
      /\ HandlerInv(p) /\ call[p] \in Requests
  BY Zenon DEF Commit, AdminInv, HandlerInv, TInv, BusyOK
<1>3. stmt'[p] = "idle" /\ \A o \in Handlers \ {p} :
        /\ stmt'[o] = stmt[o] /\ call'[o] = call[o] /\ target'[o] = target[o]
        /\ seen'[o] = seen[o] /\ toLock'[o] = toLock[o]
        /\ \A u \in Users : rowLock[u] = o => rowLock'[u] = o
  BY Zenon DEF Commit, Finish, NextStmt, ReleaseLocks, TInv, UsersTypeOK
<1>4. LastAdmin'
  <2>1. CASE RemovesAdmin(p)
    <3>1. PICK u \in Users : u \in RemainingActiveSuperAdmins(p)
      BY <1>2, <2>1, Zenon DEF RemainingActiveSuperAdmins
    <3>2. role'[target[p]] = NewRole(p) /\ status'[target[p]] = NewStatus(p)
      BY <1>1, Zenon DEF Commit, TInv, UsersTypeOK
    <3>3. u \in ActiveAdmins'
      BY <1>1, <3>1, <3>2, Zenon
         DEF RemainingActiveSuperAdmins, ActiveAdmins, SuperAdmins, Exists
    <3> QED
      BY <3>3, Zenon DEF LastAdmin
  <2>2. CASE ~RemovesAdmin(p)
    <3>1. PICK u \in ActiveAdmins : TRUE
      BY Zenon DEF AdminInv, LastAdmin
    <3>2. CASE u # target[p]
      BY <1>1, <3>1, <3>2, Zenon DEF LastAdmin, ActiveAdmins, SuperAdmins, Exists
    <3>3. CASE u = target[p]
      <4>1. role[target[p]] = "super_admin" /\ status[target[p]] = "active"
        BY <3>1, <3>3, Zenon DEF ActiveAdmins, SuperAdmins
      <4>2. call[p].op # "create"
        BY <1>2, <4>1, Zenon DEF Writable
      <4>3. seen[p] = "super_admin"
        BY <1>2, <4>1, <4>2, Zenon DEF HandlerInv, TInv, UsersTypeOK, Roles
      <4>4. call[p].op = "enable"
        BY <1>2, <2>2, <4>2, <4>3, RequestsAssumption, Zenon
           DEF RemovesAdmin, Demoting, NoAdminGranted, Calls, Ops
      <4>5. NewRole(p) = "super_admin" /\ NewStatus(p) = "active"
        BY <1>2, <4>1, <4>4, RequestsAssumption, Zenon DEF NewRole, NewStatus
      <4>6. u \in ActiveAdmins'
        BY <1>1, <3>3, <4>5, Zenon DEF Commit, ActiveAdmins, SuperAdmins, Exists, TInv,
           UsersTypeOK
      <4> QED
        BY <4>6, Zenon DEF LastAdmin
    <3> QED
      BY <3>2, <3>3, Zenon
  <2> QED
    BY <2>1, <2>2, Zenon
<1>5. HandlerInv(p)'
  BY <1>3, Zenon DEF HandlerInv, Guarded
<1>6. ASSUME NEW o \in Handlers \ {p} PROVE HandlerInv(o)'
  <2>1. HandlerInv(o)
    BY Zenon DEF AdminInv
  <2>2. /\ stmt'[o] = stmt[o] /\ call'[o] = call[o] /\ target'[o] = target[o]
        /\ seen'[o] = seen[o] /\ toLock'[o] = toLock[o]
        /\ \A u \in Users : rowLock[u] = o => rowLock'[u] = o
    BY <1>3, Zenon
  <2>3. Demoting(o, seen[o])' = Demoting(o, seen[o]) /\ Guarded(o)' = Guarded(o)
        /\ RemovesAdmin(o)' = RemovesAdmin(o)
    BY <2>2, Zenon DEF Demoting, Guarded, RemovesAdmin
  <2>4. stmt[o] # "idle" => target[o] \in Users
    BY Zenon DEF TInv, BusyOK
  <2>5. stmt[o] \in {"count", "commit"} => target[o] # target[p]
    BY <1>2, <2>1, Zenon DEF HandlerInv
  <2>6. stmt[o] \in {"count", "commit"} => rowLock'[target[o]] = o /\ Writable(o)'
    <3>1. stmt[o] \in {"count", "commit"} => rowLock'[target[o]] = o /\ Writable(o)
      BY <2>1, <2>2, <2>4, Zenon DEF HandlerInv
    <3>2. stmt[o] \in {"count", "commit"} => status'[target[o]] = status[target[o]]
      BY <1>1, <2>4, <2>5, Zenon
    <3> QED
      BY <2>2, <3>1, <3>2, Zenon DEF Writable, Exists
  <2>7. \A u \in SuperAdmins' : u \in SuperAdmins /\ u \in Users
    BY <1>1, Zenon DEF SuperAdmins
  <2>8. stmt[o] = "commit" /\ RemovesAdmin(o) => RemainingActiveSuperAdmins(o)' # {}
    <3> SUFFICES ASSUME stmt[o] = "commit", RemovesAdmin(o)
                 PROVE  RemainingActiveSuperAdmins(o)' # {}
      BY Zenon
    <3>1. Guarded(o)
      BY Zenon DEF Guarded, RemovesAdmin
    <3>2. target[p] \notin SuperAdmins
      BY <1>2, <2>1, <3>1, Zenon DEF HandlerInv
    <3>3. PICK u \in Users : u \in RemainingActiveSuperAdmins(o)
      BY <2>1, Zenon DEF HandlerInv, RemainingActiveSuperAdmins
    <3>4. NewRole(o)' = NewRole(o) /\ NewStatus(o)' = NewStatus(o)
      <4>1. role'[target[o]] = role[target[o]] /\ status'[target[o]] = status[target[o]]
        BY <1>1, <2>4, <2>5, Zenon
      <4> QED
        BY <2>2, <4>1, Zenon DEF NewRole, NewStatus
    <3>5. u # target[p]
      BY <2>5, <3>2, <3>3, Zenon DEF RemainingActiveSuperAdmins, ActiveAdmins
    <3>6. u \in ActiveAdmins => u \in ActiveAdmins'
      BY <1>1, <3>5, Zenon DEF ActiveAdmins, SuperAdmins, Exists
    <3>7. u \in RemainingActiveSuperAdmins(o)'
      BY <2>2, <3>3, <3>4, <3>6, Zenon DEF RemainingActiveSuperAdmins
    <3> QED
      BY <3>7, Zenon
  <2>9. stmt[o] \in {"write", "count", "commit"} /\ call[o].op # "create" /\ seen[o] = "user"
          => role'[target[o]] = "user"
    BY <1>1, <2>1, <2>4, Zenon DEF HandlerInv
  <2> QED
    BY <2>1, <2>2, <2>3, <2>6, <2>7, <2>8, <2>9, Zenon DEF HandlerInv
<1> QED
  BY <1>4, <1>5, <1>6, Zenon DEF AdminInv

\* The steps of one handler that leave the table as it is.
LEMMA LocalStep ==
  ASSUME NEW p \in Handlers, TInv, AdminInv, NoAdminGranted,
         role' = role, status' = status, HandlerInv(p)',
         \A o \in Handlers \ {p} :
            /\ stmt'[o] = stmt[o] /\ call'[o] = call[o] /\ target'[o] = target[o]
            /\ seen'[o] = seen[o] /\ toLock'[o] = toLock[o]
            /\ \A u \in Users : rowLock[u] = o => rowLock'[u] = o
  PROVE  AdminInv'
<1>1. LastAdmin'
  BY Zenon DEF AdminInv, LastAdmin, ActiveAdmins, SuperAdmins, Exists
<1>2. ASSUME NEW o \in Handlers \ {p} PROVE HandlerInv(o)'
  BY OtherHandler, Zenon DEF AdminInv
<1> QED
  BY <1>1, <1>2, Zenon DEF AdminInv

\* One case per action, when no request grants the role super_admin.
LEMMA AdminStep == TInv /\ AdminInv /\ NoAdminGranted /\ [UsersNext]_usersVars => AdminInv'
<1> SUFFICES ASSUME TInv, AdminInv, NoAdminGranted, [UsersNext]_usersVars PROVE AdminInv'
  BY Zenon
<1>1. ASSUME NEW p \in Handlers, Request(p) PROVE AdminInv'
  <2>1. PICK op \in Ops, first \in {"write", "read", "select"} :
           /\ Enter(p, op, first)
           /\ first = "write" => op = "create"
           /\ first = "read" => op \in {"update", "enable"}
           /\ first = "select" => op \in {"disable", "delete"}
    BY <1>1, Zenon DEF Request, Create, Update, Disable, Enable, Delete, Ops
  <2>2. PICK q \in Requests : /\ call' = [call EXCEPT ![p] = q]
                              /\ q.op = op
                              /\ \E t \in Users : target' = [target EXCEPT ![p] = t]
    BY <2>1, Zenon DEF Enter
  <2>3. stmt'[p] = first /\ call'[p] = q /\ seen' = seen
    BY <2>1, <2>2, Zenon DEF Enter, NextStmt, TInv, UsersTypeOK
  <2>4. HandlerInv(p)'
    BY <2>1, <2>2, <2>3, Zenon DEF HandlerInv, Guarded, Demoting
  <2> QED
    BY <2>1, <2>2, <2>4, LocalStep, Zenon DEF Enter, NextStmt, TInv, UsersTypeOK
<1>2. ASSUME NEW p \in Handlers, Read(p) PROVE AdminInv'
  <2>1. CASE Rollback(p)
    BY <2>1, RollbackStep, Zenon
  <2>2. CASE /\ seen' = [seen EXCEPT ![p] = role[target[p]]]
             /\ NextStmt(p, IF Demoting(p, role[target[p]]) THEN "select" ELSE "write")
             /\ UNCHANGED <<role, status, rowLock, target, call, toLock>>
    <3>1. stmt[p] = "read" /\ target[p] \in Users /\ HandlerInv(p)
      BY <1>2, Zenon DEF Read, AdminInv, TInv, BusyOK
    <3>2. /\ seen'[p] = role[target[p]] /\ role' = role /\ target' = target /\ call' = call
          /\ stmt'[p] = IF Demoting(p, role[target[p]]) THEN "select" ELSE "write"
          /\ rowLock' = rowLock
      BY <2>2, Zenon DEF NextStmt, TInv, UsersTypeOK
    <3>3. SuperAdmins' = SuperAdmins
      BY <2>2, Zenon DEF SuperAdmins, Exists
    <3>4. Demoting(p, seen[p])' <=> Demoting(p, role[target[p]])
      BY <3>2, Zenon DEF Demoting
    <3>5. HandlerInv(p)'
      BY <3>1, <3>2, <3>3, <3>4, Zenon DEF HandlerInv, Guarded
    <3> QED
      BY <2>2, <3>5, LocalStep, Zenon DEF NextStmt, TInv, UsersTypeOK
  <2> QED
    BY <1>2, <2>1, <2>2, Zenon DEF Read
<1>3. ASSUME NEW p \in Handlers, SelectSuperAdmins(p) PROVE AdminInv'
  <2>1. toLock'[p] = SuperAdmins /\ stmt'[p] = "lock" /\ SuperAdmins' = SuperAdmins
    BY <1>3, Zenon DEF SelectSuperAdmins, NextStmt, TInv, UsersTypeOK, SuperAdmins, Exists
  <2>2. HandlerInv(p)'
    BY <1>3, <2>1, Zenon DEF SelectSuperAdmins, AdminInv, HandlerInv, Guarded, Demoting
  <2> QED
    BY <1>3, <2>2, LocalStep, Zenon DEF SelectSuperAdmins, NextStmt, TInv, UsersTypeOK
<1>4. ASSUME NEW p \in Handlers, NEW u \in Users, LockSuperAdmin(p, u) PROVE AdminInv'
  <2>1. toLock'[p] = toLock[p] \ {u} /\ stmt' = stmt /\ SuperAdmins' = SuperAdmins
    BY <1>4, Zenon DEF LockSuperAdmin, TInv, UsersTypeOK, SuperAdmins, Exists
  <2>2. \A v \in Users : rowLock'[v] = IF v = u /\ u \in SuperAdmins THEN p ELSE rowLock[v]
    BY <1>4, Zenon DEF LockSuperAdmin, TInv, UsersTypeOK
  <2>3. \A v \in SuperAdmins : v \in Users
    BY Zenon DEF SuperAdmins
  <2>4. HandlerInv(p)'
    <3>1. HandlerInv(p) /\ stmt[p] = "lock" /\ call' = call /\ seen' = seen
      BY <1>4, Zenon DEF LockSuperAdmin, AdminInv
    <3>2. \A v \in SuperAdmins : v \in toLock'[p] \/ rowLock'[v] = p
      BY <2>1, <2>2, <2>3, <3>1, Zenon DEF HandlerInv
    <3>3. call[p].op \in {"disable", "delete"} \/ Demoting(p, seen[p])'
      BY <3>1, Zenon DEF HandlerInv, Demoting
    <3> QED
      BY <2>1, <3>1, <3>2, <3>3, Zenon DEF HandlerInv, Guarded
  <2>5. \A o \in Handlers \ {p} : \A v \in Users : rowLock[v] = o => rowLock'[v] = o
    BY <1>4, <2>2, NoHandlerAssumption, Zenon DEF LockSuperAdmin, Free
  <2> QED
    BY <1>4, <2>4, <2>5, LocalStep, Zenon DEF LockSuperAdmin, TInv, UsersTypeOK
<1>5. ASSUME NEW p \in Handlers, SuperAdminsLocked(p) PROVE AdminInv'
  <2>1. stmt'[p] = (IF call[p].op = "update" THEN "write" ELSE "read")
        /\ SuperAdmins' = SuperAdmins /\ rowLock' = rowLock /\ call' = call /\ seen' = seen
    BY <1>5, Zenon DEF SuperAdminsLocked, Continue, NextStmt, TInv, UsersTypeOK, SuperAdmins,
       Exists
  <2>2. \A v \in SuperAdmins : rowLock[v] = p
    BY <1>5, Zenon DEF SuperAdminsLocked, AdminInv, HandlerInv
  <2>3. call[p].op \in {"disable", "delete"} \/ Demoting(p, seen[p])
    BY <1>5, Zenon DEF SuperAdminsLocked, AdminInv, HandlerInv
  <2>4. HandlerInv(p)'
    BY <2>1, <2>2, <2>3, Zenon DEF HandlerInv, Guarded, Demoting
  <2> QED
    BY <1>5, <2>4, LocalStep, Zenon DEF SuperAdminsLocked, Continue, NextStmt, TInv, UsersTypeOK
<1>6. ASSUME NEW p \in Handlers, Write(p) PROVE AdminInv'
  <2>1. CASE ~Writable(p)
    BY <1>6, <2>1, RollbackStep, Zenon DEF Write
  <2>2. CASE Writable(p)
    <3>1. /\ rowLock' = [rowLock EXCEPT ![target[p]] = p]
          /\ stmt' = [stmt EXCEPT ![p] = IF RemovesAdmin(p) THEN "count" ELSE "commit"]
          /\ UNCHANGED <<role, status, target, call, seen, toLock>>
      BY <1>6, <2>2, Zenon DEF Write, Continue, NextStmt
    <3>2. stmt[p] = "write" /\ Free(p, target[p]) /\ target[p] \in Users
      BY <1>6, Zenon DEF Write, TInv, BusyOK
    <3>3. \A v \in Users : rowLock'[v] = IF v = target[p] THEN p ELSE rowLock[v]
      BY <3>1, Zenon DEF TInv, UsersTypeOK
    <3>4. SuperAdmins' = SuperAdmins /\ \A v \in SuperAdmins : v \in Users
      BY <3>1, Zenon DEF SuperAdmins, Exists
    <3>5. stmt'[p] = IF RemovesAdmin(p) THEN "count" ELSE "commit"
      BY <3>1, Zenon DEF TInv, UsersTypeOK
    <3>6. RemovesAdmin(p)' = RemovesAdmin(p) /\ Writable(p)' /\ Guarded(p)' = Guarded(p)
      BY <2>2, <3>1, <3>2, <3>5, Zenon DEF RemovesAdmin, Demoting, Writable, Exists, Guarded
    <3>7. HandlerInv(p)'
      <4>1. HandlerInv(p)
        BY Zenon DEF AdminInv
      <4>2. Guarded(p)' => \A v \in SuperAdmins' : rowLock'[v] = p
        BY <3>3, <3>4, <3>6, <4>1, Zenon DEF HandlerInv
      <4>3. call[p].op # "create" /\ seen[p] = "user" => role'[target[p]] = "user"
        BY <3>1, <3>2, <4>1, Zenon DEF HandlerInv
      <4>4. rowLock'[target[p]] = p
        BY <3>2, <3>3, Zenon
      <4>5. stmt'[p] \in {"count", "commit"} /\ (stmt'[p] = "commit" => ~RemovesAdmin(p)')
        BY <3>5, <3>6, Zenon
      <4> QED
        BY <3>1, <3>6, <4>2, <4>3, <4>4, <4>5, Zenon DEF HandlerInv
    <3>8. \A o \in Handlers \ {p} : \A v \in Users : rowLock[v] = o => rowLock'[v] = o
      BY <3>2, <3>3, NoHandlerAssumption, Zenon DEF Free
    <3> QED
      BY <3>1, <3>7, <3>8, LocalStep, Zenon DEF TInv, UsersTypeOK
  <2> QED
    BY <2>1, <2>2, Zenon
<1>7. ASSUME NEW p \in Handlers, EnforceLastAdminLockout(p) PROVE AdminInv'
  <2>1. CASE Rollback(p)
    BY <2>1, RollbackStep, Zenon
  <2>2. CASE /\ RemainingActiveSuperAdmins(p) # {}
             /\ Continue(p, "commit")
             /\ UNCHANGED <<role, status, rowLock>>
    <3>1. stmt[p] = "count" /\ stmt'[p] = "commit" /\ HandlerInv(p)
      BY <1>7, <2>2, Zenon DEF EnforceLastAdminLockout, Continue, NextStmt, TInv,
         UsersTypeOK, AdminInv
    <3>2. SuperAdmins' = SuperAdmins /\ ActiveAdmins' = ActiveAdmins
      BY <2>2, Zenon DEF SuperAdmins, ActiveAdmins, Exists
    <3>3. RemainingActiveSuperAdmins(p)' = RemainingActiveSuperAdmins(p)
      BY <2>2, <3>2, Zenon DEF Continue, RemainingActiveSuperAdmins, NewRole, NewStatus
    <3>4. HandlerInv(p)'
      BY <2>2, <3>1, <3>2, <3>3, Zenon
         DEF Continue, HandlerInv, Guarded, Demoting, Writable, Exists
    <3> QED
      BY <2>2, <3>4, LocalStep, Zenon DEF Continue, NextStmt, TInv, UsersTypeOK
  <2> QED
    BY <1>7, <2>1, <2>2, Zenon DEF EnforceLastAdminLockout
<1>8. ASSUME NEW p \in Handlers, Commit(p) PROVE AdminInv'
  BY <1>8, CommitStep, Zenon
<1>9. ASSUME NEW p \in Handlers, FailTx(p) PROVE AdminInv'
  BY <1>9, RollbackStep, Zenon DEF FailTx
<1>10. CASE UNCHANGED usersVars
  <2>1. UNCHANGED <<role, status, rowLock, stmt, target, call, seen, toLock>>
    BY <1>10, Zenon DEF usersVars
  <2>2. LastAdmin'
    BY <2>1, Zenon DEF AdminInv, LastAdmin, ActiveAdmins, SuperAdmins, Exists
  <2>3. ASSUME NEW o \in Handlers PROVE HandlerInv(o)'
    BY <2>1, OtherHandler, Zenon DEF AdminInv
  <2> QED
    BY <2>2, <2>3, Zenon DEF AdminInv
<1> QED
  BY <1>1, <1>2, <1>3, <1>4, <1>5, <1>6, <1>7, <1>8, <1>9, <1>10, Zenon DEF UsersNext

\* Last-admin protection of Disable, Delete and a demoting Update: as long as
\* no request in flight makes a super_admin, the lock on all super_admin rows
\* followed by the count keeps an active super_admin, for any number of users
\* and of concurrent requests, with any of them failing at any statement.
THEOREM LastAdminProtected == NoAdminGranted => (UsersSpec => []LastAdmin)
<1> SUFFICES ASSUME NoAdminGranted PROVE UsersSpec => []LastAdmin
  BY Zenon
<1>1. UsersInit => TInv /\ AdminInv
  BY TypeInit, AdminInit, Zenon
<1>2. (TInv /\ AdminInv) /\ [UsersNext]_usersVars => (TInv /\ AdminInv)'
  BY TypeStep, AdminStep, Zenon
<1>3. AdminInv => LastAdmin
  BY Zenon DEF AdminInv
<1> QED
  BY <1>1, <1>2, <1>3, PTL DEF UsersSpec

=============================================================================
