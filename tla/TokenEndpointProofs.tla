------------------------- MODULE TokenEndpointProofs -------------------------
(***************************************************************************)
(* Proofs about TokenEndpoint, for any number of handlers and tokens and   *)
(* any lifetimes.  TokenInv is inductive; it is proved part by part, the   *)
(* typing of the handlers' locals first because every other part uses it.  *)
(***************************************************************************)
EXTENDS TokenEndpoint, TLAPS

LOCAL TInv == TypeOK /\ HandlersOK

\* The labels of the handlers, kept folded where only the domain of pc matters.
LOCAL Labels == CodeSteps \cup RefreshSteps \cup RevokeSteps \cup {"idle"}

\* The initial state satisfies every part of the invariant.
LEMMA TokenInit == Init => TokenInv
<1> SUFFICES ASSUME Init PROVE TokenInv
  BY Zenon
<1> USE ProcAssumption, BoundsAssumption DEF Init, Minted
<1>1. TypeOK
  <2>1. active \in BOOLEAN /\ dead \in BOOLEAN
    BY Zenon
  <2>2. members \in [Procs -> SUBSET Tokens]
    BY Zenon
  <2> QED
    BY <2>1, <2>2 DEF TypeOK, Reasons, CodeSteps, RefreshSteps, RevokeSteps
<1>2. HandlersOK
  BY Zenon DEF HandlersOK, RefreshSteps
<1>3. CodeInv /\ CutoffInv /\ AbsoluteExpiry
  BY DEF CodeInv, CutoffInv, AbsoluteExpiry, CodeExchangedOnce, CutoffRespected
<1>4. RotationInv
  BY Zenon DEF RotationInv, RotatedOnce, RefreshSteps
<1>5. FamilyInv
  BY Zenon DEF FamilyInv, RevokedFamilyStaysDead, Live, Reading, RefreshSteps, RevokeSteps
<1> QED
  BY <1>1, <1>2, <1>3, <1>4, <1>5, Zenon DEF TokenInv

\* Arithmetic of the clock.
LEMMA ClockArithmetic ==
    /\ \A n \in Nat : n >= n /\ n + 1 \in Nat /\ n + 1 >= n
    /\ \A m, n, k \in Nat : m >= n /\ n >= k => m >= k
    /\ CodeTTL \in Nat /\ \A n \in 0..MaxClock : n \in Nat
BY BoundsAssumption, SMT

\* The first exchange is OneShot's Spend.
LEMMA FirstExchange ==
    ASSUME code = "unused", exchanges = 0, code' = "used", exchanges' = 1
    PROVE  CodeSpec!Spend("code")
<1>1. codeState = [i \in {"code"} |-> "live"] /\ codeState' = [i \in {"code"} |-> "spent"]
  BY DEF codeState
<1>2. codeUses = [i \in {"code"} |-> 0] /\ codeUses' = [i \in {"code"} |-> 1]
  BY Zenon DEF codeUses
<1>3. codeState["code"] = "live" /\ codeState' = [codeState EXCEPT !["code"] = "spent"]
  BY <1>1, Zenon
<1>4. codeUses' = [codeUses EXCEPT !["code"] = codeUses["code"] + 1]
  BY <1>2
<1> QED
  BY <1>3, <1>4, Zenon DEF CodeSpec!Spend

\* Every step keeps the types, and handlers know only minted tokens: one case
\* per action of Next.
LEMMA TypeStep == TInv /\ [Next]_vars => TInv'
<1> SUFFICES ASSUME TInv, [Next]_vars PROVE TInv'
  BY Zenon
<1> USE ProcAssumption, BoundsAssumption DEF TInv, TypeOK, HandlersOK, Minted,
      CodeSteps, RefreshSteps, RevokeSteps, Reasons, races, Upset
<1>1. CASE Tick
  BY <1>1 DEF Tick, valkey, locals
<1>2. CASE RevokeBeforeSetNow
  BY <1>2 DEF RevokeBeforeSetNow, valkey, locals
<1>3. CASE SetStatus
  BY <1>3 DEF SetStatus, valkey, locals
<1>4. ASSUME NEW t \in Tokens, Expire(t) PROVE TInv'
  BY <1>4 DEF Expire, locals
<1>5. ASSUME NEW p \in Procs, Handler(p) PROVE TInv'
  <2> USE DEF Goto, Step, Revoke, Respond, valkey, locals
  <2>1. CASE PresentCode(p) \/ ConsumeOnce(p)
    BY <2>1 DEF PresentCode, ConsumeOnce
  <2>2. CASE AlreadyUsed(p) \/ AcceptCode(p)
    BY <2>2 DEF AlreadyUsed, AcceptCode
  <2>3. CASE RejectCode(p)
    BY <2>3 DEF RejectCode
  <2>4. CASE CommitCode(p)
    BY <2>4 DEF CommitCode
  <2>5. CASE CommitAnswerLost(p)
    BY <2>5 DEF CommitAnswerLost
  <2>6. CASE Fail(p)
    BY <2>6 DEF Fail
  <2>7. CASE MintForCode(p)
    BY <2>7 DEF MintForCode, Create
  <2>8. CASE Rotate(p)
    BY <2>8 DEF Rotate, Create
  <2>9. CASE Consume(p)
    BY <2>9 DEF Consume
  <2>10. CASE ReuseDetected(p) \/ UnknownOrExpired(p)
    BY <2>10 DEF ReuseDetected, UnknownOrExpired, vars
  <2>11. CASE CheckUser(p) \/ CheckCutoff(p) \/ CutoffFailsOpen(p)
    BY <2>11 DEF CheckUser, CheckCutoff, CutoffFailsOpen
  <2>12. CASE MarkGet(p) \/ MarkSet(p)
    BY <2>12 DEF MarkGet, MarkSet
  <2>13. CASE MarkFails(p)
    BY <2>13 DEF MarkFails
  <2>14. CASE AuditRefresh(p)
    BY <2>14 DEF AuditRefresh
  <2>15. CASE ReadFamily(p)
    BY <2>15 DEF ReadFamily
  <2>16. CASE DeleteFamily(p)
    BY <2>16 DEF DeleteFamily, Reading
  <2> QED
    BY <1>5, <2>1, <2>2, <2>3, <2>4, <2>5, <2>6, <2>7, <2>8, <2>9, <2>10, <2>11, <2>12, <2>13,
       <2>14, <2>15, <2>16, Zenon DEF Handler, CodeGrant, RefreshGrant
<1>6. CASE UNCHANGED vars
  BY <1>6, Zenon DEF vars
<1> QED
  BY <1>1, <1>2, <1>3, <1>4, <1>5, <1>6, Zenon DEF Next

\* Refresh tokens are stored, marked and deleted by four steps, and the code
\* is used up by three.
LEMMA StoreUntouched ==
    ASSUME NEW p \in Procs, Handler(p),
           ~MintForCode(p), ~Rotate(p), ~MarkSet(p), ~DeleteFamily(p)
    PROVE  UNCHANGED <<clock, valkey>>
<1> USE DEF valkey
<1>1. CASE PresentCode(p) \/ ConsumeOnce(p) \/ AlreadyUsed(p) \/ RejectCode(p) \/ AcceptCode(p)
  BY <1>1, Zenon DEF PresentCode, ConsumeOnce, AlreadyUsed, RejectCode, AcceptCode
<1>2. CASE CommitCode(p) \/ CommitAnswerLost(p) \/ Fail(p) \/ ReadFamily(p)
  BY <1>2, Zenon DEF CommitCode, CommitAnswerLost, Fail, ReadFamily
<1>3. CASE Consume(p) \/ ReuseDetected(p) \/ UnknownOrExpired(p) \/ CheckUser(p) \/ CheckCutoff(p)
  BY <1>3, Zenon DEF Consume, ReuseDetected, UnknownOrExpired, CheckUser, CheckCutoff, vars
<1>4. CASE CutoffFailsOpen(p) \/ MarkGet(p) \/ MarkFails(p) \/ AuditRefresh(p)
  BY <1>4, Zenon DEF CutoffFailsOpen, MarkGet, MarkFails, AuditRefresh
<1> QED
  BY <1>1, <1>2, <1>3, <1>4, Zenon DEF Handler, CodeGrant, RefreshGrant

\* Only three steps of a handler touch the code: its rejection and the two
\* outcomes of the commit of an exchange.
LEMMA CodeUntouched ==
    ASSUME NEW p \in Procs, Handler(p), ~RejectCode(p), ~CommitCode(p), ~CommitAnswerLost(p)
    PROVE  UNCHANGED <<code, exchanges>>
<1>1. CASE PresentCode(p) \/ ConsumeOnce(p) \/ AlreadyUsed(p) \/ AcceptCode(p) \/ MintForCode(p)
  BY <1>1, Zenon DEF PresentCode, ConsumeOnce, AlreadyUsed, AcceptCode, MintForCode
<1>2. CASE Consume(p) \/ ReuseDetected(p) \/ UnknownOrExpired(p) \/ CheckUser(p) \/ CheckCutoff(p)
  BY <1>2, Zenon DEF Consume, ReuseDetected, UnknownOrExpired, CheckUser, CheckCutoff, vars
<1>3. CASE CutoffFailsOpen(p) \/ Rotate(p) \/ MarkGet(p) \/ MarkSet(p) \/ MarkFails(p)
  BY <1>3, Zenon DEF CutoffFailsOpen, Rotate, MarkGet, MarkSet, MarkFails
<1>4. CASE AuditRefresh(p) \/ ReadFamily(p) \/ DeleteFamily(p) \/ Fail(p)
  BY <1>4, Zenon DEF AuditRefresh, ReadFamily, DeleteFamily, Fail
<1> QED
  BY <1>1, <1>2, <1>3, <1>4, Zenon DEF Handler, CodeGrant, RefreshGrant

\* The code row is touched by the steps of handleAuthorizationCode and by the
\* rollback of a failed request; the other steps leave CodeInv alone.
LEMMA CodeStep == TInv /\ CodeInv /\ [Next]_vars => CodeInv'
<1> SUFFICES ASSUME TInv, CodeInv, [Next]_vars PROVE CodeInv'
  BY Zenon
<1> USE ProcAssumption DEF TInv, TypeOK, CodeInv, CodeExchangedOnce
<1>1. CASE Tick \/ RevokeBeforeSetNow \/ SetStatus \/ \E t \in Tokens : Expire(t)
  BY <1>1, Zenon DEF Tick, RevokeBeforeSetNow, SetStatus, Expire
<1>2. ASSUME NEW p \in Procs, Handler(p) PROVE CodeInv'
  <2> USE DEF Goto, Step, Revoke, Respond
  <2>1. CASE PresentCode(p) \/ AlreadyUsed(p) \/ AcceptCode(p) \/ MintForCode(p)
    BY <2>1 DEF PresentCode, AlreadyUsed, AcceptCode, MintForCode
  <2>2. CASE ConsumeOnce(p)
    BY <2>2, Zenon DEF ConsumeOnce
  <2>3. CASE RejectCode(p) \/ CommitAnswerLost(p)
    BY <2>3 DEF RejectCode, CommitAnswerLost
  <2>4. CASE CommitCode(p)
    BY <2>4 DEF CommitCode
  <2>5. CASE Fail(p)
    BY <2>5, Zenon DEF Fail
  <2>6. CASE Consume(p) \/ ReuseDetected(p) \/ UnknownOrExpired(p) \/ CheckUser(p) \/ CheckCutoff(p)
    BY <2>6 DEF Consume, ReuseDetected, UnknownOrExpired, CheckUser, CheckCutoff, vars
  <2>7. CASE CutoffFailsOpen(p) \/ Rotate(p) \/ MarkGet(p) \/ MarkSet(p) \/ MarkFails(p)
    BY <2>7 DEF CutoffFailsOpen, Rotate, MarkGet, MarkSet, MarkFails
  <2>8. CASE AuditRefresh(p) \/ ReadFamily(p) \/ DeleteFamily(p)
    BY <2>8 DEF AuditRefresh, ReadFamily, DeleteFamily
  <2> QED
    BY <1>2, <2>1, <2>2, <2>3, <2>4, <2>5, <2>6, <2>7, <2>8, Zenon
       DEF Handler, CodeGrant, RefreshGrant
<1>3. CASE UNCHANGED vars
  BY <1>3, Zenon DEF vars
<1> QED
  BY <1>1, <1>2, <1>3, Zenon DEF Next

\* A step that leaves the cutoff alone and brings no handler to "rotate".
LEMMA CutoffFrame ==
    ASSUME CutoffInv, UNCHANGED <<clock, created, before, cutoff>>,
           \A q \in Procs : pc'[q] = "rotate" =>
             pc[q] = "rotate" /\ old'[q] = old[q] /\ (q \in late => q \in late')
    PROVE  CutoffInv'
BY Zenon DEF CutoffInv, CutoffRespected

\* CheckCutoff is the only way to "rotate" for a handler that is not late, and
\* it compares with a cutoff above every token in before.
LEMMA CutoffStep == TInv /\ CutoffInv /\ [Next]_vars => CutoffInv'
<1> SUFFICES ASSUME TInv, CutoffInv, [Next]_vars PROVE CutoffInv'
  BY Zenon
<1> USE ProcAssumption, BoundsAssumption DEF TInv, TypeOK, CutoffInv, CutoffRespected
<1>1. CASE Tick \/ SetStatus \/ \E t \in Tokens : Expire(t)
  BY <1>1 DEF Tick, SetStatus, Expire, valkey, locals
<1>2. CASE RevokeBeforeSetNow
  BY <1>2 DEF RevokeBeforeSetNow, valkey, locals
<1>3. ASSUME NEW p \in Procs, Handler(p) PROVE CutoffInv'
  <2> USE DEF Goto, Step, Revoke, Respond, valkey, locals
  <2>1. CASE MintForCode(p)
    BY <2>1 DEF MintForCode, Create, HandlersOK, Minted
  <2>8. CASE Rotate(p)
    BY <2>8 DEF Rotate, Create, HandlersOK, Minted
  <2>2. CASE CheckCutoff(p)
    <3>1. old[p] \in Tokens
      BY <2>2, Zenon DEF CheckCutoff, HandlersOK, RefreshSteps
    <3> QED
      BY <2>2, <3>1 DEF CheckCutoff
  <2>3. CASE CutoffFailsOpen(p)
    BY <2>3, Zenon DEF CutoffFailsOpen
  <2> HIDE ProcAssumption, BoundsAssumption
         DEF TInv, TypeOK, CutoffInv, CutoffRespected, Goto, Step, Revoke, Respond
  <2> DEFINE Calm == \A q \in Procs : pc'[q] = "rotate" =>
                       pc[q] = "rotate" /\ old'[q] = old[q] /\ (q \in late => q \in late')
  <2>a. pc \in [Procs -> Labels] /\ old \in [Procs -> Tokens \cup {NoToken}]
    BY Zenon DEF TInv, TypeOK, Labels
  <2>b. ASSUME NEW label, label # "rotate", Step(p, label) PROVE Calm
    BY <2>a, <2>b, Zenon DEF Step, Goto
  <2>c. ASSUME NEW why, Revoke(p, why) PROVE Calm
    BY <2>a, <2>c, Zenon DEF Revoke, Goto
  <2>d. ASSUME Respond(p) PROVE Calm
    BY <2>a, <2>d, Zenon DEF Respond, Goto
  <2>e. ASSUME Calm, UNCHANGED <<clock, created, before, cutoff>> PROVE CutoffInv'
    BY <2>e, CutoffFrame, Zenon
  <2> HIDE DEF Calm
  <2>4. CASE PresentCode(p) \/ ConsumeOnce(p) \/ AlreadyUsed(p) \/ RejectCode(p)
             \/ AcceptCode(p) \/ CommitCode(p) \/ CommitAnswerLost(p)
    <3>1. UNCHANGED <<clock, created, before, cutoff>>
      BY <2>4, Zenon DEF PresentCode, ConsumeOnce, AlreadyUsed, RejectCode, AcceptCode, CommitCode,
         CommitAnswerLost
    <3>2. Calm
      BY <2>4, <2>b, <2>c, <2>d, Zenon DEF PresentCode, ConsumeOnce, AlreadyUsed, RejectCode,
         AcceptCode, CommitCode, CommitAnswerLost
    <3> QED
      BY <2>e, <3>1, <3>2, Zenon
  <2>5. CASE Consume(p) \/ ReuseDetected(p) \/ UnknownOrExpired(p) \/ CheckUser(p)
    <3>1. UNCHANGED <<clock, created, before, cutoff>>
      BY <2>5, Zenon DEF Consume, ReuseDetected, UnknownOrExpired, CheckUser, vars
    <3>2. CASE Consume(p)
      BY <2>a, <2>e, <3>1, <3>2, Zenon DEF Consume, Goto, Calm
    <3>3. CASE UnknownOrExpired(p)
      BY <2>e, <3>1, <3>3, Zenon DEF UnknownOrExpired, vars, Calm
    <3>4. CASE ReuseDetected(p) \/ CheckUser(p)
      <4>1. Calm
        BY <3>4, <2>b, <2>c, Zenon DEF ReuseDetected, CheckUser
      <4> QED
        BY <2>e, <3>1, <4>1, Zenon
    <3> QED
      BY <2>5, <3>2, <3>3, <3>4, Zenon
  <2>6. CASE MarkGet(p) \/ MarkSet(p) \/ MarkFails(p) \/ AuditRefresh(p)
    <3>1. UNCHANGED <<clock, created, before, cutoff>>
      BY <2>6, Zenon DEF MarkGet, MarkSet, MarkFails, AuditRefresh
    <3>2. Calm
      BY <2>6, <2>b, <2>d, Zenon DEF MarkGet, MarkSet, MarkFails, AuditRefresh
    <3> QED
      BY <2>e, <3>1, <3>2, Zenon
  <2>7. CASE ReadFamily(p) \/ DeleteFamily(p) \/ Fail(p)
    <3>1. UNCHANGED <<clock, created, before, cutoff>>
      BY <2>7, Zenon DEF ReadFamily, DeleteFamily, Fail
    <3>2. Calm
      <4>1. CASE ReadFamily(p)
        BY <2>a, <4>1, Zenon DEF ReadFamily, Goto, Calm
      <4> QED
        BY <2>7, <2>d, <4>1, Zenon DEF DeleteFamily, Fail
    <3> QED
      BY <2>e, <3>1, <3>2, Zenon
  <2> QED
    BY <1>3, <2>1, <2>2, <2>3, <2>4, <2>5, <2>6, <2>7, <2>8, Zenon
       DEF Handler, CodeGrant, RefreshGrant
<1>4. CASE UNCHANGED vars
  BY <1>4, Zenon DEF vars
<1> QED
  BY <1>1, <1>2, <1>3, <1>4, Zenon DEF Next

\* A step that mints nothing and rewrites no payload keeps every expiry.
LEMMA ExpiryFrame ==
    ASSUME AbsoluteExpiry, UNCHANGED <<created, exp, parent>>,
           \A t \in Tokens : Minted(t)' <=> Minted(t)
    PROVE  AbsoluteExpiry'
BY Zenon DEF AbsoluteExpiry, Minted

\* A code exchange mints a root, and a rotation inherits the expiry of a token
\* whose root is known.
LEMMA ExpiryStep == TInv /\ AbsoluteExpiry /\ [Next]_vars => AbsoluteExpiry'
<1> SUFFICES ASSUME TInv, AbsoluteExpiry, [Next]_vars PROVE AbsoluteExpiry'
  BY Zenon
<1> USE ProcAssumption, BoundsAssumption DEF TInv, TypeOK
<1>1. CASE Tick \/ RevokeBeforeSetNow \/ SetStatus \/ UNCHANGED vars
  BY <1>1, ExpiryFrame, Zenon DEF Tick, RevokeBeforeSetNow, SetStatus, vars, valkey, Minted
<1>2. ASSUME NEW t \in Tokens, Expire(t) PROVE AbsoluteExpiry'
  BY <1>2, ExpiryFrame, Zenon DEF Expire, Minted
<1>3. ASSUME NEW p \in Procs, Handler(p) PROVE AbsoluteExpiry'
  <2> USE DEF valkey
  <2>1. CASE MintForCode(p)
    <3> PICK t \in Tokens, ttl \in RefreshTTLs : Create(p, t, clock + ttl, NoToken)
      BY <2>1, Zenon DEF MintForCode
    <3> QED
      BY DEF Create, AbsoluteExpiry, Minted
  <2>2. CASE Rotate(p)
    <3>1. old[p] \in Tokens /\ Minted(old[p])
      BY <2>2, Zenon DEF Rotate, HandlersOK, RefreshSteps
    <3>2. PICK t \in Tokens : Create(p, t, exp[old[p]], old[p])
      BY <2>2, Zenon DEF Rotate
    <3> QED
      BY <3>1, <3>2 DEF Create, AbsoluteExpiry, Minted
  <2>3. CASE MarkSet(p)
    BY <2>3, ExpiryFrame, Zenon DEF MarkSet, HandlersOK, RefreshSteps, Minted
  <2>4. CASE DeleteFamily(p)
    BY <2>4, ExpiryFrame, Zenon DEF DeleteFamily, HandlersOK, Minted
  <2>5. CASE UNCHANGED <<clock, valkey>>
    BY <2>5, ExpiryFrame, Zenon DEF Minted
  <2> QED
    BY <1>3, <2>1, <2>2, <2>3, <2>4, <2>5, StoreUntouched, Zenon
<1> QED
  BY <1>1, <1>2, <1>3, Zenon DEF Next

-----------------------------------------------------------------------------
(* Rotation and revocation of the family. *)

\* A token is minted once, keeps its payload, and is never revived.
LEMMA TokenKept ==
    ASSUME TInv, [Next]_vars
    PROVE  \A t \in Tokens : Minted(t) =>
             /\ Minted(t)' /\ parent'[t] = parent[t] /\ created'[t] = created[t]
             /\ Live(t)' => Live(t)
<1> USE ProcAssumption, BoundsAssumption DEF TInv, TypeOK, HandlersOK, Minted, Live, Readable,
      valkey, RefreshSteps
<1>1. CASE Tick \/ RevokeBeforeSetNow \/ SetStatus \/ UNCHANGED vars
  BY <1>1 DEF Tick, RevokeBeforeSetNow, SetStatus, vars
<1>2. ASSUME NEW t \in Tokens, Expire(t)
      PROVE  \A u \in Tokens : Minted(u) =>
               /\ Minted(u)' /\ parent'[u] = parent[u] /\ created'[u] = created[u]
               /\ Live(u)' => Live(u)
  BY <1>2, Zenon DEF Expire
<1>3. ASSUME NEW p \in Procs, Handler(p)
      PROVE  \A u \in Tokens : Minted(u) =>
               /\ Minted(u)' /\ parent'[u] = parent[u] /\ created'[u] = created[u]
               /\ Live(u)' => Live(u)
  <2>1. CASE MintForCode(p)
    BY <2>1 DEF MintForCode, Create
  <2>2. CASE Rotate(p)
    BY <2>2 DEF Rotate, Create
  <2>3. CASE MarkSet(p)
    BY <2>3, Zenon DEF MarkSet
  <2>4. CASE DeleteFamily(p)
    BY <2>4, Zenon DEF DeleteFamily
  <2>5. CASE UNCHANGED <<clock, valkey>>
    BY <2>5, Zenon
  <2> QED
    BY <1>3, <2>1, <2>2, <2>3, <2>4, <2>5, StoreUntouched, Zenon
<1> QED
  BY <1>1, <1>2, <1>3, Zenon DEF Next

LOCAL LocalsTyped ==
    /\ pc \in [Procs -> Labels]
    /\ old \in [Procs -> Tokens \cup {NoToken}] /\ new \in [Procs -> Tokens \cup {NoToken}]
    /\ members \in [Procs -> SUBSET Tokens] /\ reason \in [Procs -> Reasons]

LOCAL SameLocals(q) ==
    /\ pc'[q] = pc[q] /\ old'[q] = old[q] /\ new'[q] = new[q]
    /\ members'[q] = members[q] /\ reason'[q] = reason[q]

\* A step of one handler is none of another.
LEMMA OthersKept ==
    ASSUME LocalsTyped, NEW p \in Procs, Handler(p)
    PROVE  \A q \in Procs \ {p} : SameLocals(q)
<1> DEFINE Kept == \A q \in Procs \ {p} : SameLocals(q)
<1>a. ASSUME NEW label, Step(p, label) PROVE Kept
  BY <1>a, Zenon DEF LocalsTyped, SameLocals, Goto, Step, locals
<1>b. ASSUME NEW why, Revoke(p, why) PROVE Kept
  BY <1>b, Zenon DEF LocalsTyped, SameLocals, Goto, Revoke
<1>c. ASSUME Respond(p) PROVE Kept
  BY <1>c, Zenon DEF LocalsTyped, SameLocals, Goto, Respond
<1>d. ASSUME NEW label, Goto(p, label), locals' = locals PROVE Kept
  BY <1>d, Zenon DEF LocalsTyped, SameLocals, Goto, locals
<1> SUFFICES Kept
  BY Zenon
<1> HIDE DEF Kept
<1>1. CASE PresentCode(p) \/ ConsumeOnce(p) \/ AlreadyUsed(p) \/ RejectCode(p)
  BY <1>1, <1>a, <1>b, <1>c, Zenon DEF PresentCode, ConsumeOnce, AlreadyUsed, RejectCode
<1>2. CASE AcceptCode(p) \/ CommitCode(p) \/ CommitAnswerLost(p) \/ Fail(p)
  BY <1>2, <1>a, <1>c, Zenon DEF AcceptCode, CommitCode, CommitAnswerLost, Fail
<1>3. CASE MintForCode(p) \/ Rotate(p)
  BY <1>3, Zenon DEF MintForCode, Rotate, Create, Goto, Kept, LocalsTyped, SameLocals
<1>4. CASE Consume(p) \/ ReuseDetected(p) \/ UnknownOrExpired(p)
  <2>1. CASE Consume(p)
    BY <2>1, Zenon DEF Consume, Goto, Kept, LocalsTyped, SameLocals
  <2>2. CASE UnknownOrExpired(p)
    BY <2>2, Zenon DEF UnknownOrExpired, vars, Kept, SameLocals
  <2> QED
    BY <1>4, <1>b, <2>1, <2>2, Zenon DEF ReuseDetected
<1>5. CASE CheckUser(p) \/ CheckCutoff(p) \/ CutoffFailsOpen(p)
  BY <1>5, <1>a, <1>b, <1>d, Zenon DEF CheckUser, CheckCutoff, CutoffFailsOpen
<1>6. CASE MarkGet(p) \/ MarkSet(p) \/ MarkFails(p) \/ AuditRefresh(p)
  BY <1>6, <1>a, <1>c, Zenon DEF MarkGet, MarkSet, MarkFails, AuditRefresh
<1>7. CASE ReadFamily(p) \/ DeleteFamily(p)
  BY <1>7, <1>c, Zenon DEF ReadFamily, DeleteFamily, Goto, Kept, LocalsTyped, SameLocals
<1> QED
  BY <1>1, <1>2, <1>3, <1>4, <1>5, <1>6, <1>7, Zenon DEF Handler, CodeGrant, RefreshGrant

\* The part of TypeOK about the handlers.
LEMMA TypesOfLocals == TInv => LocalsTyped
BY Zenon DEF TInv, TypeOK, LocalsTyped, Labels

LOCAL Stored == {"markGet", "markSet", "audit"}

\* What HandlersOK says of the tokens that rotations deal with.
LOCAL Known ==
    /\ NoToken \notin Tokens /\ \A t \in delivered : t \in Tokens /\ Minted(t)
    /\ \A q \in Procs : /\ pc[q] \in RefreshSteps => old[q] \in Tokens /\ Minted(old[q])
                        /\ new[q] # NoToken => new[q] \in Tokens /\ Minted(new[q])
                        /\ pc[q] \in Stored => new[q] # NoToken

\* It follows from the types and from HandlersOK.
LEMMA KnownTokens == LocalsTyped /\ HandlersOK => Known
BY ProcAssumption, Zenon DEF HandlersOK, LocalsTyped, Stored, Known

\* A step that mints and delivers nothing keeps the rotations apart, if its
\* handler begins none and leaves MarkUsed only with the token marked or known.
LEMMA RotationFrame ==
    ASSUME LocalsTyped, HandlersOK, RotationInv, parent \in [Tokens -> Tokens \cup {NoToken}],
           \A t \in Tokens : Minted(t)' <=> Minted(t),
           \A t \in Tokens : Minted(t) => parent'[t] = parent[t] /\ (Live(t)' => Live(t)),
           delivered' = delivered, again \subseteq again',
           NEW p, \A q \in Procs \ {p} : SameLocals(q),
           p \in Procs =>
             /\ pc'[p] \in RefreshSteps => pc[p] \in RefreshSteps /\ old'[p] = old[p]
             /\ pc'[p] \in Stored => pc[p] \in Stored /\ new'[p] = new[p]
             /\ pc'[p] = "audit" => pc[p] = "audit" \/ old[p] \in again' \/ ~Live(old[p])'
             /\ pc'[p] = "codeCommit" => new'[p] = NoToken
    PROVE  RotationInv'
<1>a. /\ NoToken \notin Tokens /\ \A t \in delivered : t \in Tokens /\ Minted(t)
      /\ \A q \in Procs : /\ pc[q] \in RefreshSteps => old[q] \in Tokens /\ Minted(old[q])
                          /\ new[q] # NoToken => new[q] \in Tokens /\ Minted(new[q])
                          /\ pc[q] \in Stored => new[q] # NoToken
  BY KnownTokens, Zenon DEF Known
<1>b. /\ \A t \in Tokens : Minted(t) /\ parent[t] # NoToken => Minted(parent[t])
      /\ \A t \in delivered : parent[t] \in Tokens \ again => ~Live(parent[t])
      /\ \A q \in Procs :
           /\ pc[q] = "codeCommit" /\ new[q] # NoToken => parent[new[q]] = NoToken
           /\ pc[q] \in Stored => parent[new[q]] = old[q]
           /\ pc[q] \in RefreshSteps /\ old[q] \notin again =>
                /\ \A r \in Procs \ {q} : pc[r] \in RefreshSteps => old[r] # old[q]
                /\ \A t \in delivered : parent[t] # old[q]
                /\ pc[q] = "audit" => ~Live(old[q])
  BY Zenon DEF RotationInv, Stored
<1>1. \A t \in delivered : parent'[t] = parent[t]
  BY <1>a, Zenon
<1>2. ASSUME NEW t \in delivered, NEW u \in delivered, parent'[t] = parent'[u], t # u
      PROVE  parent'[t] \in again' \cup {NoToken}
  <2>1. parent'[t] = parent[t] /\ parent[t] = parent[u]
    BY <1>1, <1>2, Zenon
  <2>2. parent[t] \in again \cup {NoToken}
    BY <1>2, <2>1, Zenon DEF RotationInv, RotatedOnce
  <2> QED
    BY <2>1, <2>2, Zenon
<1>3. ASSUME NEW t \in Tokens, Minted(t)', parent'[t] # NoToken PROVE rt'[parent'[t]] # "unminted"
  <2>1. Minted(t) /\ parent'[t] = parent[t]
    BY <1>3, Zenon
  <2>2. parent[t] \in Tokens
    BY <1>3, <2>1, Zenon
  <2>3. Minted(parent[t])
    BY <1>a, <1>3, <2>1, <2>2, Zenon DEF RotationInv
  <2> QED
    BY <2>1, <2>2, <2>3, Zenon DEF Minted
<1>4. ASSUME NEW t \in delivered, parent'[t] \in Tokens \ again' PROVE ~Live(parent[t])'
  <2>1. parent[t] \in Tokens \ again /\ parent'[t] = parent[t]
    BY <1>1, <1>4, Zenon
  <2>2. Minted(parent[t]) /\ ~Live(parent[t])
    BY <1>a, <1>b, <2>1, Zenon
  <2>3. ASSUME NEW u \in Tokens, Minted(u), ~Live(u), u = parent'[t] PROVE ~Live(parent[t])'
    <3>1. ~Live(u)'
      BY <2>3, Zenon
    <3> QED
      BY <2>3, <3>1, Zenon DEF Live, Readable
  <2> QED
    BY <2>1, <2>2, <2>3, Zenon
<1>5. ASSUME NEW q \in Procs
      PROVE  /\ pc'[q] = "codeCommit" /\ new'[q] # NoToken => parent'[new'[q]] = NoToken
             /\ pc'[q] \in Stored => parent'[new'[q]] = old'[q]
  <2>1. CASE q = p
    <3>1. pc'[q] = "codeCommit" => new'[q] = NoToken
      BY <2>1, Zenon
    <3>2. pc'[q] \in Stored => pc[q] \in Stored /\ new'[q] = new[q] /\ old'[q] = old[q]
      BY <2>1, Zenon DEF Stored, RefreshSteps
    <3>3. pc[q] \in Stored => parent'[new[q]] = parent[new[q]]
      BY <1>a, Zenon
    <3> QED
      BY <1>b, <3>1, <3>2, <3>3, Zenon
  <2>2. CASE q # p
    <3>1. pc'[q] = pc[q] /\ new'[q] = new[q] /\ old'[q] = old[q]
      BY <2>2, Zenon DEF SameLocals
    <3>2. new[q] # NoToken => parent'[new[q]] = parent[new[q]]
      BY <1>a, Zenon
    <3> QED
      BY <1>a, <1>b, <3>1, <3>2, Zenon
  <2> QED
    BY <2>1, <2>2, Zenon
<1>6. ASSUME NEW q \in Procs, pc'[q] \in RefreshSteps
      PROVE  pc[q] \in RefreshSteps /\ old'[q] = old[q]
  BY <1>6, Zenon DEF SameLocals
<1>7. ASSUME NEW q \in Procs, pc'[q] \in RefreshSteps, old'[q] \notin again'
      PROVE  /\ \A r \in Procs \ {q} : pc'[r] \in RefreshSteps => old'[r] # old'[q]
             /\ \A t \in delivered : parent'[t] # old'[q]
             /\ pc'[q] = "audit" => ~Live(old[q])'
  <2>1. pc[q] \in RefreshSteps /\ old'[q] = old[q] /\ old[q] \notin again
    BY <1>6, <1>7, Zenon
  <2>a. /\ \A r \in Procs \ {q} : pc[r] \in RefreshSteps => old[r] # old[q]
        /\ \A t \in delivered : parent[t] # old[q]
    BY <1>b, <2>1, Zenon
  <2>2. \A r \in Procs \ {q} : pc'[r] \in RefreshSteps => old'[r] # old'[q]
    BY <1>6, <2>1, <2>a, Zenon
  <2>3. \A t \in delivered : parent'[t] # old'[q]
    BY <1>1, <2>1, <2>a, Zenon
  <2>4. pc'[q] = "audit" => ~Live(old[q])'
    <3>1. old[q] \in Tokens /\ Minted(old[q])
      BY <1>a, <2>1, Zenon
    <3>2. \A t \in Tokens : t = old[q] /\ ~Live(t)' => ~Live(old[q])'
      BY <2>1, Zenon DEF Live, Readable
    <3>3. pc[q] = "audit" => ~Live(old[q])'
      BY <1>b, <2>1, <3>1, <3>2, Zenon
    <3>4. pc'[q] = "audit" => pc[q] = "audit" \/ ~Live(old[q])'
      BY <1>7, <2>1, Zenon DEF SameLocals
    <3> QED
      BY <3>3, <3>4, Zenon
  <2> QED
    BY <2>2, <2>3, <2>4, Zenon
<1>8. RotatedOnce'
  BY <1>2, Zenon DEF RotatedOnce
<1> QED
  BY <1>8, <1>3, <1>4, <1>5, <1>7, Zenon DEF RotationInv, Stored, Minted

\* A token that is minted for the code or by a rotation is nobody else's.
LEMMA RotationGrown ==
    ASSUME Known, RotationInv, parent \in [Tokens -> Tokens \cup {NoToken}],
           NEW t \in Tokens, ~Minted(t), Minted(t)',
           \A u \in Tokens \ {t} : /\ (Live(u)' => Live(u)) /\ (Minted(u)' <=> Minted(u))
                                   /\ parent'[u] = parent[u],
           UNCHANGED <<delivered, again>>,
           NEW p \in Procs, \A q \in Procs \ {p} : SameLocals(q), new'[p] = t, old'[p] = old[p],
           \/ pc'[p] = "codeCommit" /\ parent'[t] = NoToken
           \/ pc'[p] = "markGet" /\ pc[p] = "rotate" /\ parent'[t] = old[p]
    PROVE  RotationInv'
<1>a. /\ \A u \in Tokens : Minted(u) /\ parent[u] # NoToken => Minted(parent[u])
      /\ \A u \in delivered : parent[u] \in Tokens \ again => ~Live(parent[u])
  BY Zenon DEF RotationInv
<1>b. ASSUME NEW q \in Procs, pc'[q] \in RefreshSteps
      PROVE  pc[q] \in RefreshSteps /\ old'[q] = old[q] /\ old[q] \in Tokens \ {t}
  <2>1. pc[q] \in RefreshSteps /\ old'[q] = old[q]
    BY <1>b, Zenon DEF SameLocals, RefreshSteps
  <2> QED
    BY <2>1, Zenon DEF Known
<1>1. \A u \in delivered : u \in Tokens \ {t} /\ Minted(u) /\ parent'[u] = parent[u]
  BY Zenon DEF Known
<1>2. ASSUME NEW u \in delivered, NEW w \in delivered, parent'[u] = parent'[w], u # w
      PROVE  parent'[u] \in again' \cup {NoToken}
  <2>1. parent'[u] = parent[u] /\ parent[u] = parent[w]
    BY <1>1, <1>2, Zenon
  <2>2. parent[u] \in again \cup {NoToken}
    BY <1>2, <2>1, Zenon DEF RotationInv, RotatedOnce
  <2> QED
    BY <2>1, <2>2, Zenon
<1>3. ASSUME NEW u \in Tokens, Minted(u)', parent'[u] # NoToken PROVE rt'[parent'[u]] # "unminted"
  <2>1. CASE u = t
    <3>1. parent'[u] = old[p] /\ old[p] \in Tokens /\ Minted(old[p])
      BY <1>3, <2>1, Zenon DEF Known, RefreshSteps
    <3> QED
      BY <3>1, Zenon DEF Minted
  <2>2. CASE u # t
    <3>a. Minted(u) /\ parent'[u] = parent[u] /\ parent[u] \in Tokens \cup {NoToken}
      BY <1>3, <2>2, Zenon
    <3>1. parent'[u] = parent[u] /\ parent[u] \in Tokens /\ Minted(parent[u])
      BY <1>3, <1>a, <3>a, Zenon
    <3> QED
      BY <3>1, Zenon DEF Minted
  <2> QED
    BY <2>1, <2>2, Zenon
<1>4. ASSUME NEW u \in delivered, parent'[u] \in Tokens \ again' PROVE ~Live(parent[u])'
  <2>a. parent'[u] = parent[u] /\ parent[u] \in Tokens \ again /\ u \in Tokens /\ Minted(u)
    BY <1>1, <1>4, Zenon
  <2>1. parent'[u] = parent[u] /\ parent[u] \in Tokens /\ Minted(parent[u]) /\ ~Live(parent[u])
    BY <1>a, <2>a, Zenon DEF Known
  <2>2. \A w \in Tokens \ {t} : ~Live(w) /\ w = parent'[u] => ~Live(parent[u])'
    BY Zenon DEF Live, Readable
  <2> QED
    BY <2>1, <2>2, Zenon
<1>5. ASSUME NEW q \in Procs
      PROVE  /\ pc'[q] = "codeCommit" /\ new'[q] # NoToken => parent'[new'[q]] = NoToken
             /\ pc'[q] \in Stored => parent'[new'[q]] = old'[q]
  <2>1. CASE q = p
    BY <2>1, Zenon DEF Stored
  <2>2. CASE q # p
    <3>1. SameLocals(q)
      BY <2>2, Zenon
    <3>2. new[q] # NoToken => parent'[new[q]] = parent[new[q]]
      BY Zenon DEF Known
    <3>3. /\ pc[q] = "codeCommit" /\ new[q] # NoToken => parent[new[q]] = NoToken
          /\ pc[q] \in Stored => new[q] # NoToken /\ parent[new[q]] = old[q]
      BY Zenon DEF Known, RotationInv, Stored
    <3> QED
      BY <3>1, <3>2, <3>3, Zenon DEF SameLocals
  <2> QED
    BY <2>1, <2>2, Zenon
<1>6. ASSUME NEW q \in Procs, pc'[q] \in RefreshSteps, old'[q] \notin again'
      PROVE  /\ \A w \in Procs \ {q} : pc'[w] \in RefreshSteps => old'[w] # old'[q]
             /\ \A u \in delivered : parent'[u] # old'[q]
             /\ pc'[q] = "audit" => ~Live(old[q])'
  <2>1. pc[q] \in RefreshSteps /\ old'[q] = old[q] /\ old[q] \in Tokens \ {t} /\ old[q] \notin again
    BY <1>6, <1>b, Zenon
  <2>2. /\ \A w \in Procs \ {q} : pc[w] \in RefreshSteps => old[w] # old[q]
        /\ \A u \in delivered : parent[u] # old[q]
        /\ pc[q] = "audit" => ~Live(old[q])
    BY <2>1, Zenon DEF RotationInv
  <2>3. pc'[q] = "audit" => pc[q] = "audit"
    BY Zenon DEF SameLocals
  <2>4. \A w \in Tokens \ {t} : w = old[q] /\ ~Live(w) => ~Live(old[q])'
    BY <2>1, Zenon DEF Live, Readable
  <2>5. pc'[q] = "audit" => ~Live(old[q])'
    BY <2>1, <2>2, <2>3, <2>4, Zenon
  <2>6. \A w \in Procs \ {q} : pc'[w] \in RefreshSteps => old'[w] # old'[q]
    BY <1>b, <2>1, <2>2, Zenon
  <2> QED
    BY <1>1, <2>1, <2>2, <2>5, <2>6, Zenon
<1>7. RotatedOnce'
  BY <1>2, Zenon DEF RotatedOnce
<1> QED
  BY <1>7, <1>3, <1>4, <1>5, <1>6, Zenon DEF RotationInv, Stored, Minted

\* The response delivers the token that the handler has stored.
LEMMA RotationDelivered ==
    ASSUME Known, RotationInv, UNCHANGED <<clock, rt, exp, parent, again>>,
           NEW p \in Procs, \A q \in Procs \ {p} : SameLocals(q),
           pc[p] \in {"codeCommit", "audit"}, pc'[p] = "idle", new'[p] = NoToken,
           delivered' = delivered \cup ({new[p]} \ {NoToken})
    PROVE  RotationInv'
<1>a. /\ \A t \in Tokens : (Live(t)' <=> Live(t)) /\ (Minted(t)' <=> Minted(t))
      /\ \A q \in Procs : pc'[q] # "idle" => q # p /\ SameLocals(q)
  BY Zenon DEF Live, Readable, Minted
<1>b. ASSUME new[p] # NoToken
      PROVE  \/ pc[p] = "codeCommit" /\ parent[new[p]] = NoToken
             \/ /\ pc[p] \in RefreshSteps /\ parent[new[p]] = old[p]
                /\ old[p] \notin again => ~Live(old[p]) /\ \A t \in delivered : parent[t] # old[p]
  BY <1>b, Zenon DEF RotationInv, RefreshSteps
<1>1. RotatedOnce'
  <2>1. ASSUME NEW t \in delivered, new[p] # NoToken, parent[t] = parent[new[p]]
        PROVE  parent[t] \in again \cup {NoToken}
    BY <1>b, <2>1, Zenon
  <2>2. ASSUME NEW t \in delivered, NEW u \in delivered, parent[t] = parent[u], t # u
        PROVE  parent[t] \in again \cup {NoToken}
    BY <2>2, Zenon DEF RotationInv, RotatedOnce
  <2>3. ASSUME NEW t \in delivered', NEW u \in delivered', parent[t] = parent[u], t # u
        PROVE  parent[t] \in again \cup {NoToken}
    <3>1. CASE t \in delivered /\ u \in delivered
      BY <2>2, <2>3, <3>1, Zenon
    <3>2. CASE t = new[p] /\ u \in delivered /\ new[p] # NoToken
      BY <2>1, <2>3, <3>2, Zenon
    <3>3. CASE u = new[p] /\ t \in delivered /\ new[p] # NoToken
      BY <2>1, <2>3, <3>3, Zenon
    <3> QED
      BY <2>3, <3>1, <3>2, <3>3, Zenon
  <2>4. parent' = parent /\ again' = again
    BY Zenon
  <2> QED
    BY ONLY <2>3, <2>4, Zenon DEF RotatedOnce
<1>2. \A t \in Tokens : (Minted(t) /\ parent[t] # NoToken => Minted(parent[t]))'
  BY Zenon DEF RotationInv, Minted
<1>3. ASSUME NEW t \in delivered', parent[t] \in Tokens \ again PROVE ~Live(parent[t])'
  <2>1. ~Live(parent[t])
    <3>1. CASE t \in delivered
      BY <1>3, <3>1, Zenon DEF RotationInv
    <3>2. CASE t = new[p] /\ new[p] # NoToken
      BY <1>3, <1>b, <3>2, Zenon DEF Known
    <3> QED
      BY <3>1, <3>2, Zenon
  <2> QED
    BY <2>1, Zenon DEF Live, Readable
<1>4. ASSUME NEW q \in Procs, pc'[q] # "idle"
      PROVE  /\ pc'[q] = "codeCommit" /\ new'[q] # NoToken => parent'[new'[q]] = NoToken
             /\ pc'[q] \in Stored => parent'[new'[q]] = old'[q]
  <2>1. SameLocals(q)
    BY <1>a, <1>4, Zenon
  <2> QED
    BY <2>1, Zenon DEF RotationInv, Stored, SameLocals
<1>5. ASSUME NEW q \in Procs, pc'[q] \in RefreshSteps, old'[q] \notin again'
      PROVE  /\ \A w \in Procs \ {q} : pc'[w] \in RefreshSteps => old'[w] # old'[q]
             /\ \A t \in delivered' : parent[t] # old'[q]
             /\ pc'[q] = "audit" => ~Live(old[q])'
  <2>1. \A w \in Procs : pc'[w] \in RefreshSteps => w # p /\ pc[w] \in RefreshSteps /\ old'[w] = old[w]
    BY <1>a, Zenon DEF RefreshSteps, SameLocals
  <2>2. /\ \A w \in Procs \ {q} : pc[w] \in RefreshSteps => old[w] # old[q]
        /\ \A t \in delivered : parent[t] # old[q]
        /\ pc[q] = "audit" => ~Live(old[q])
        /\ old[q] \in Tokens
    BY <1>5, <2>1, Zenon DEF RotationInv, Known
  <2>3. new[p] # NoToken => parent[new[p]] # old[q]
    <3>1. q # p
      BY <1>5, <2>1, Zenon
    <3> QED
      BY <1>b, <2>2, <3>1, Zenon DEF Known
  <2>4. pc'[q] = "audit" => ~Live(old[q])'
    <3>1. pc'[q] = "audit" => pc[q] = "audit"
      BY <1>a, Zenon DEF SameLocals
    <3>2. old'[q] = old[q]
      BY <1>5, <2>1, Zenon
    <3> QED
      BY <2>2, <3>1, <3>2, Zenon DEF Live, Readable
  <2> QED
    BY <1>5, <2>1, <2>2, <2>3, <2>4, Zenon
<1>6. /\ pc'[p] # "codeCommit" /\ pc'[p] \notin RefreshSteps
      /\ "idle" \notin Stored \cup RefreshSteps \cup {"codeCommit"}
  BY Zenon DEF RefreshSteps, Stored
<1> QED
  BY <1>1, <1>2, <1>3, <1>4, <1>5, <1>6, Zenon DEF RotationInv, Stored

\* A handler that reads a token which no other rotation has in hand is alone
\* with it; otherwise the token is in again.
LEMMA RotationBegun ==
    ASSUME Known, RotationInv, UNCHANGED <<clock, rt, exp, parent, delivered>>,
           NEW p \in Procs, \A q \in Procs \ {p} : SameLocals(q),
           NEW t \in delivered, Live(t), pc'[p] = "user", old'[p] = t, pc[p] = "idle",
           again \subseteq again', t \in again' \/ \A q \in Procs : Rotating(q) => old[q] # t
    PROVE  RotationInv'
<1>a. /\ \A u \in Tokens : (Live(u)' <=> Live(u)) /\ (Minted(u)' <=> Minted(u))
      /\ \A q \in Procs : q # p => pc'[q] = pc[q] /\ old'[q] = old[q] /\ new'[q] = new[q]
  BY Zenon DEF Live, Readable, Minted, SameLocals
<1>b. t \in Tokens /\ Minted(t)
  BY Zenon DEF Known
<1>1. RotatedOnce'
  BY Zenon DEF RotationInv, RotatedOnce
<1>2. \A u \in Tokens : (Minted(u) /\ parent[u] # NoToken => Minted(parent[u]))'
  BY Zenon DEF RotationInv, Minted
<1>3. ASSUME NEW u \in delivered, parent[u] \in Tokens \ again' PROVE ~Live(parent[u])'
  <2>1. ~Live(parent[u])
    BY <1>3, Zenon DEF RotationInv
  <2> QED
    BY <2>1, Zenon DEF Live, Readable
<1>4. ASSUME NEW q \in Procs
      PROVE  /\ pc'[q] = "codeCommit" /\ new'[q] # NoToken => parent'[new'[q]] = NoToken
             /\ pc'[q] \in Stored => parent'[new'[q]] = old'[q]
  <2>1. CASE q = p
    BY <2>1, Zenon DEF Stored
  <2>2. CASE q # p
    <3>1. pc'[q] = pc[q] /\ old'[q] = old[q] /\ new'[q] = new[q]
      BY <1>a, <2>2, Zenon
    <3> QED
      BY <3>1, Zenon DEF RotationInv, Stored
  <2> QED
    BY <2>1, <2>2, Zenon
<1>5. ASSUME t \notin again'
      PROVE  /\ \A q \in Procs : pc[q] \in RefreshSteps => old[q] # t
             /\ \A u \in delivered : parent[u] # t
  <2>1. t \notin again /\ \A q \in Procs : Rotating(q) => old[q] # t
    BY <1>5, Zenon
  <2>2. ASSUME NEW q \in Procs, pc[q] = "audit", old[q] = t PROVE FALSE
    <3>1. pc[q] \in RefreshSteps /\ old[q] \notin again
      BY <2>1, <2>2, Zenon DEF RefreshSteps
    <3>2. ~Live(old[q])
      BY <2>2, <3>1, Zenon DEF RotationInv
    <3> QED
      BY <2>2, <3>2, Zenon
  <2>3. \A q \in Procs : pc[q] \in RefreshSteps => Rotating(q) \/ pc[q] = "audit"
    BY Zenon DEF RefreshSteps, Rotating, Reading
  <2>4. \A u \in delivered : parent[u] # t
    BY <1>b, <2>1, Zenon DEF RotationInv
  <2> QED
    BY <2>1, <2>2, <2>3, <2>4, Zenon
<1>6. ASSUME NEW q \in Procs, pc'[q] \in RefreshSteps, old'[q] \notin again'
      PROVE  /\ \A w \in Procs \ {q} : pc'[w] \in RefreshSteps => old'[w] # old'[q]
             /\ \A u \in delivered : parent[u] # old'[q]
             /\ pc'[q] = "audit" => ~Live(old[q])'
  <2>1. CASE q = p
    BY <1>a, <1>5, <1>6, <2>1, Zenon
  <2>2. CASE q # p
    <3>1. pc[q] \in RefreshSteps /\ old'[q] = old[q] /\ pc'[q] = pc[q] /\ old[q] \notin again
      BY <1>a, <1>6, <2>2, Zenon
    <3>2. /\ \A w \in Procs \ {q} : pc[w] \in RefreshSteps => old[w] # old[q]
          /\ \A u \in delivered : parent[u] # old[q]
          /\ pc[q] = "audit" => ~Live(old[q])
      BY <3>1, Zenon DEF RotationInv
    <3>3. old'[p] # old'[q]
      BY <1>5, <1>6, <3>1, Zenon
    <3>4. \A w \in Procs \ {q} : pc'[w] \in RefreshSteps => old'[w] # old'[q]
      BY <1>a, <3>1, <3>2, <3>3, Zenon
    <3>5. pc'[q] = "audit" => ~Live(old[q])'
      BY <3>1, <3>2, Zenon DEF Live, Readable
    <3> QED
      BY <3>1, <3>2, <3>4, <3>5, Zenon
  <2> QED
    BY <2>1, <2>2, Zenon
<1> QED
  BY <1>1, <1>2, <1>3, <1>4, <1>6, Zenon DEF RotationInv, Stored

\* Consume finds out about an overlapping rotation, MarkUsed ends a rotation,
\* and a delivered token is the only one in place of its parent.
LEMMA RotationStep == TInv /\ RotationInv /\ [Next]_vars => RotationInv'
<1> SUFFICES ASSUME TInv, RotationInv, [Next]_vars PROVE RotationInv'
  BY Zenon
<1> DEFINE Quiet(p) ==
      /\ \A t \in Tokens : Minted(t)' <=> Minted(t)
      /\ delivered' = delivered /\ again \subseteq again'
      /\ pc'[p] \in RefreshSteps => pc[p] \in RefreshSteps /\ old'[p] = old[p]
      /\ pc'[p] \in Stored => pc[p] \in Stored /\ new'[p] = new[p]
      /\ pc'[p] = "audit" => pc[p] = "audit" \/ old[p] \in again' \/ ~Live(old[p])'
      /\ pc'[p] = "codeCommit" => new'[p] = NoToken
<1>a. LocalsTyped /\ HandlersOK
  BY TypesOfLocals, Zenon DEF TInv
<1>b. /\ parent \in [Tokens -> Tokens \cup {NoToken}]
      /\ rt \in [Tokens -> {"unminted", "fresh", "used", "gone"}]
      /\ created \in [Tokens -> Nat] /\ exp \in [Tokens -> Nat]
      /\ delivered \subseteq Tokens /\ again \subseteq Tokens
  BY Zenon DEF TInv, TypeOK
<1>c. \A t \in Tokens : Minted(t) => Minted(t)' /\ parent'[t] = parent[t] /\ (Live(t)' => Live(t))
  BY TokenKept, Zenon
<1>1. CASE Tick \/ RevokeBeforeSetNow \/ SetStatus \/ UNCHANGED vars \/ \E t \in Tokens : Expire(t)
  <2>1. UNCHANGED <<pc, locals, delivered, again>>
    BY <1>1, Zenon DEF Tick, RevokeBeforeSetNow, SetStatus, Expire, vars, locals, races
  <2>2. \A t \in Tokens : Minted(t)' <=> Minted(t)
    BY <1>1, <1>b, Zenon DEF Tick, RevokeBeforeSetNow, SetStatus, Expire, vars, valkey, Minted
  <2>3. NoProc \notin Procs /\ \A q \in Procs \ {NoProc} : SameLocals(q)
    BY <2>1, ProcAssumption, Zenon DEF locals, SameLocals
  <2> QED
    BY <1>a, <1>b, <1>c, <2>1, <2>2, <2>3, RotationFrame, Zenon
<1>2. ASSUME NEW p \in Procs, Handler(p) PROVE RotationInv'
  <2>a. \A q \in Procs \ {p} : SameLocals(q)
    BY <1>a, <1>2, OthersKept, Zenon
  <2>b. Quiet(p) => RotationInv'
    BY <1>a, <1>b, <1>c, <2>a, RotationFrame, Zenon
  <2> USE <1>a, <1>b DEF LocalsTyped, Goto, Step, Revoke, Respond, valkey, locals, races, Stored,
         RefreshSteps, Minted
  <2>1. ASSUME PresentCode(p) \/ ConsumeOnce(p) \/ AlreadyUsed(p) PROVE Quiet(p)
    BY <2>1, Zenon DEF PresentCode, ConsumeOnce, AlreadyUsed
  <2>2. ASSUME RejectCode(p) \/ CommitAnswerLost(p) \/ Fail(p) PROVE Quiet(p)
    BY <2>2, Zenon DEF RejectCode, CommitAnswerLost, Fail
  <2>3. ASSUME AcceptCode(p) PROVE Quiet(p)
    <3>1. new[p] = NoToken
      BY <2>3, Zenon DEF AcceptCode, HandlersOK
    <3> QED
      BY <2>3, <3>1, Zenon DEF AcceptCode
  <2>4. ASSUME ReuseDetected(p) \/ UnknownOrExpired(p) \/ ReadFamily(p) PROVE Quiet(p)
    BY <2>4, Zenon DEF ReuseDetected, UnknownOrExpired, ReadFamily, vars
  <2>5. ASSUME CheckUser(p) \/ CheckCutoff(p) \/ CutoffFailsOpen(p) PROVE Quiet(p)
    <3>1. CASE CheckUser(p)
      BY <3>1, Zenon DEF CheckUser
    <3>2. CASE CheckCutoff(p)
      BY <3>2, Zenon DEF CheckCutoff
    <3>3. CASE CutoffFailsOpen(p)
      BY <3>3, Zenon DEF CutoffFailsOpen
    <3> QED
      BY <2>5, <3>1, <3>2, <3>3, Zenon
  <2>6. ASSUME DeleteFamily(p) PROVE Quiet(p)
    BY <2>6, Zenon DEF DeleteFamily, HandlersOK
  <2>7. ASSUME MarkGet(p) \/ MarkFails(p) PROVE Quiet(p)
    BY <2>7, Zenon DEF MarkGet, MarkFails, Live, Readable
  <2>8. ASSUME MarkSet(p) PROVE Quiet(p)
    <3>1. old[p] \in Tokens /\ Minted(old[p])
      BY <2>8, Zenon DEF MarkSet, HandlersOK
    <3> QED
      BY <2>8, <3>1, Zenon DEF MarkSet, Live
  <2> HIDE <1>a, <1>b DEF Quiet, LocalsTyped, Goto, Step, Revoke, Respond, valkey, locals, races,
         Stored, RefreshSteps, Minted
  <2>c. Known
    BY <1>a, KnownTokens, Zenon
  <2>d. /\ pc \in [Procs -> Labels] /\ old \in [Procs -> Tokens \cup {NoToken}]
        /\ new \in [Procs -> Tokens \cup {NoToken}]
    BY <1>a, Zenon DEF LocalsTyped
  <2>e. ASSUME NEW t \in Tokens, NEW expires, NEW from, Create(p, t, expires, from)
        PROVE  /\ ~Minted(t) /\ Minted(t)' /\ parent'[t] = from /\ new'[p] = t
               /\ \A u \in Tokens \ {t} : /\ (Live(u)' => Live(u)) /\ (Minted(u)' <=> Minted(u))
                                          /\ parent'[u] = parent[u]
    <3>1. /\ ~Minted(t) /\ Minted(t)' /\ parent'[t] = from /\ new'[p] = t
          /\ \A u \in Tokens \ {t} : rt'[u] = rt[u] /\ exp'[u] = exp[u] /\ parent'[u] = parent[u]
      BY <1>b, <2>d, <2>e, Zenon DEF Create, Minted
    <3>2. \A u \in Tokens \ {t} : (Minted(u)' <=> Minted(u)) /\ (Live(u)' => Live(u))
      BY <1>c, <3>1, Zenon DEF Minted, Live
    <3> QED
      BY <3>1, <3>2, Zenon
  <2>9. CASE MintForCode(p)
    <3>1. PICK t \in Tokens : \E ttl \in RefreshTTLs : Create(p, t, clock + ttl, NoToken)
      BY <2>9, Zenon DEF MintForCode
    <3>2. UNCHANGED <<delivered, again>> /\ old'[p] = old[p] /\ pc'[p] = "codeCommit"
      BY <2>9, <2>d, Zenon DEF MintForCode, Goto, races
    <3>3. /\ ~Minted(t) /\ Minted(t)' /\ parent'[t] = NoToken /\ new'[p] = t
          /\ \A u \in Tokens \ {t} : /\ (Live(u)' => Live(u)) /\ (Minted(u)' <=> Minted(u))
                                     /\ parent'[u] = parent[u]
      BY <2>e, <3>1, Zenon
    <3> QED
      BY <1>b, <2>a, <2>c, <3>2, <3>3, RotationGrown, Zenon
  <2>10. CASE CommitCode(p)
    <3>1. /\ UNCHANGED <<clock, rt, exp, parent, again>> /\ pc[p] = "codeCommit" /\ pc'[p] = "idle"
          /\ new'[p] = NoToken /\ delivered' = delivered \cup ({new[p]} \ {NoToken})
      BY <2>10, <2>d, Zenon DEF CommitCode, Respond, Goto, valkey, races
    <3> QED
      BY <2>a, <2>c, <3>1, RotationDelivered, Zenon
  <2>11. CASE Consume(p)
    <3>1. PICK t \in delivered : /\ Live(t) /\ old' = [old EXCEPT ![p] = t]
                                 /\ again' = IF \E q \in Procs : Rotating(q) /\ old[q] = t
                                             THEN again \cup {t} ELSE again
      BY <2>11, Zenon DEF Consume
    <3>2. /\ UNCHANGED <<clock, rt, exp, parent, delivered>> /\ pc[p] = "idle" /\ pc'[p] = "user"
          /\ old'[p] = t
      BY <2>11, <2>d, <3>1, Zenon DEF Consume, Goto, valkey
    <3>3. again \subseteq again' /\ (t \in again' \/ \A q \in Procs : Rotating(q) => old[q] # t)
      BY <3>1, Zenon
    <3> QED
      BY <2>a, <2>c, <3>1, <3>2, <3>3, RotationBegun, Zenon
  <2>12. CASE Rotate(p)
    <3>1. PICK t \in Tokens : Create(p, t, exp[old[p]], old[p])
      BY <2>12, Zenon DEF Rotate
    <3>2. UNCHANGED <<delivered, again>> /\ old'[p] = old[p] /\ pc[p] = "rotate" /\ pc'[p] = "markGet"
      BY <2>12, <2>d, Zenon DEF Rotate, Goto
    <3>3. /\ ~Minted(t) /\ Minted(t)' /\ parent'[t] = old[p] /\ new'[p] = t
          /\ \A u \in Tokens \ {t} : /\ (Live(u)' => Live(u)) /\ (Minted(u)' <=> Minted(u))
                                     /\ parent'[u] = parent[u]
      BY <2>e, <3>1, Zenon
    <3> QED
      BY <1>b, <2>a, <2>c, <3>2, <3>3, RotationGrown, Zenon
  <2>13. CASE AuditRefresh(p)
    <3>1. /\ UNCHANGED <<clock, rt, exp, parent, again>> /\ pc[p] = "audit" /\ pc'[p] = "idle"
          /\ new'[p] = NoToken /\ delivered' = delivered \cup {new[p]}
      BY <2>13, <2>d, Zenon DEF AuditRefresh, Respond, Goto, valkey, races
    <3>2. new[p] # NoToken
      BY <2>c, <3>1, Zenon DEF Known, Stored
    <3>3. delivered' = delivered \cup ({new[p]} \ {NoToken})
      BY <3>1, <3>2, Zenon
    <3> QED
      BY <2>a, <2>c, <3>1, <3>3, RotationDelivered, Zenon
  <2> QED
    BY <1>2, <2>1, <2>2, <2>3, <2>4, <2>5, <2>6, <2>7, <2>8, <2>9, <2>10, <2>11, <2>12, <2>13,
       <2>b, Zenon DEF Handler, CodeGrant, RefreshGrant
<1> QED
  BY <1>1, <1>2, Zenon DEF Next

\* A step that stores and deletes no token keeps the index complete, if its
\* handler reads no token of a dead family and knows of a used code.
LEMMA FamilyFrame ==
    ASSUME FamilyInv, UNCHANGED <<created, fam, parent, raced, dead>>,
           clock' >= clock, clock \in Nat, clock' \in Nat, CodeTTL \in Nat,
           \A t \in Tokens : Live(t)' => Live(t), \A t \in Tokens : Minted(t) => Minted(t)',
           raced \subseteq Tokens,
           code = "used" => code' = "used", delivered' # {} => code' = "used",
           NEW p, \A q \in Procs \ {p} : SameLocals(q),
           p \in Procs =>
             /\ Reading(p)' /\ dead => old'[p] \in raced
             /\ pc'[p] \in RefreshSteps => code' = "used"
             /\ pc'[p] \in RevokeSteps =>
                  code' = "used" \/ (reason'[p] # "misuse" /\ clock >= CodeTTL)
             /\ pc'[p] = "del" => members'[p] = fam
    PROVE  FamilyInv'
<1>a. clock >= CodeTTL => clock' >= CodeTTL
  BY ClockArithmetic, Zenon
<1> USE DEF FamilyInv, SameLocals
<1>1. RevokedFamilyStaysDead'
  BY Zenon DEF RevokedFamilyStaysDead
<1>2. (/\ \A t \in raced : Minted(t)
       /\ \A t \in Tokens : Live(t) => t \in fam \cup raced
       /\ \A t \in raced : parent[t] = NoToken /\ Live(t) => created[t] >= CodeTTL
       /\ dead \/ delivered # {} => code = "used")'
  BY Zenon
<1>3. ASSUME NEW q \in Procs
      PROVE  (/\ dead /\ Reading(q) => old[q] \in raced
              /\ pc[q] \in RefreshSteps => code = "used"
              /\ pc[q] \in RevokeSteps => code = "used" \/ (reason[q] # "misuse" /\ clock >= CodeTTL)
              /\ pc[q] = "del" =>
                   \A t \in fam \ members[q] : parent[t] = NoToken => created[t] >= CodeTTL)'
  <2>1. CASE q = p
    <3>1. \A t \in fam \ fam : parent[t] = NoToken => created[t] >= CodeTTL
      BY Zenon
    <3> HIDE DEF FamilyInv
    <3> QED
      BY <1>a, <2>1, <3>1, Zenon
  <2>2. CASE q # p
    <3>1. SameLocals(q)
      BY <2>2, Zenon
    <3>2. (dead /\ Reading(q) => old[q] \in raced)'
      BY <3>1, Zenon DEF Reading
    <3>3. pc[q] \in RevokeSteps => code = "used" \/ (reason[q] # "misuse" /\ clock' >= CodeTTL)
      BY <1>a, Zenon
    <3> QED
      BY <3>1, <3>2, <3>3, Zenon
  <2> QED
    BY <2>1, <2>2, Zenon
<1> QED
  BY <1>1, <1>2, <1>3, Zenon

\* A step that stores one token puts it into the index.  A token of a dead family
\* has raced, and one that answers the code is not overlooked by a RevokeFamily
\* unless the code has expired.
LEMMA FamilyGrown ==
    ASSUME FamilyInv, NEW t \in Tokens, ~Minted(t), Minted(t)', fam \subseteq Tokens,
           raced \subseteq Tokens,
           \A u \in Tokens \ {t} : /\ (Live(u)' => Live(u)) /\ (Minted(u) => Minted(u)')
                                   /\ parent'[u] = parent[u] /\ created'[u] = created[u],
           UNCHANGED <<dead, code, clock, delivered>>,
           fam' = fam \cup {t}, raced' \in {raced, raced \cup {t}},
           dead => t \in raced', t \in raced' => parent'[t] # NoToken,
           NEW p \in Procs, \A q \in Procs \ {p} : SameLocals(q),
           pc'[p] = "codeCommit" \/ (pc'[p] = "markGet" /\ code = "used"),
           parent'[t] = NoToken => \A q \in Procs : pc[q] = "del" => created'[t] >= CodeTTL
    PROVE  FamilyInv'
<1>1. RevokedFamilyStaysDead'
  BY Zenon DEF FamilyInv, RevokedFamilyStaysDead
<1>2. \A u \in raced' : Minted(u)'
  BY Zenon DEF FamilyInv
<1>3. \A u \in Tokens : Live(u)' => u \in fam' \cup raced'
  BY Zenon DEF FamilyInv
<1>4. \A u \in raced' : parent'[u] = NoToken /\ Live(u)' => created'[u] >= CodeTTL
  BY Zenon DEF FamilyInv
<1>5. ASSUME NEW q \in Procs
      PROVE  (/\ dead /\ Reading(q) => old[q] \in raced
              /\ pc[q] \in RefreshSteps => code = "used"
              /\ pc[q] \in RevokeSteps => code = "used" \/ (reason[q] # "misuse" /\ clock >= CodeTTL)
              /\ pc[q] = "del" =>
                   \A u \in fam \ members[q] : parent[u] = NoToken => created[u] >= CodeTTL)'
  <2>1. CASE q = p
    <3>1. pc'[q] \in {"codeCommit", "markGet"} /\ (pc'[q] \in RefreshSteps => code' = "used")
      BY <2>1, Zenon DEF RefreshSteps
    <3> QED
      BY <3>1, Zenon DEF Reading, RevokeSteps
  <2>2. CASE q # p
    <3>1. SameLocals(q)
      BY <2>2, Zenon
    <3>2. pc'[q] = "del" => \A u \in fam' \ members'[q] : parent'[u] = NoToken => created'[u] >= CodeTTL
      <4>1. pc'[q] = pc[q] /\ members'[q] = members[q]
        BY <3>1, Zenon DEF SameLocals
      <4>2. pc[q] = "del" => \A u \in fam \ members[q] : parent[u] = NoToken => created[u] >= CodeTTL
        BY Zenon DEF FamilyInv
      <4>3. \A u \in fam' \ members'[q] : u = t \/ (u \in fam \ members[q] /\ u \in Tokens \ {t})
        BY <4>1, Zenon
      <4> QED
        BY <4>1, <4>2, <4>3, Zenon
    <3>3. (dead /\ Reading(q) => old[q] \in raced)'
      BY <3>1, Zenon DEF FamilyInv, SameLocals, Reading
    <3> QED
      BY <3>1, <3>2, <3>3, Zenon DEF FamilyInv, SameLocals
  <2> QED
    BY <2>1, <2>2, Zenon
<1> QED
  BY <1>1, <1>2, <1>3, <1>4, <1>5, Zenon DEF FamilyInv

\* A live token is in the index until a RevokeFamily deletes it with the
\* index or overlaps with the rotation that stored it.
LEMMA FamilyStep == TInv /\ CodeInv /\ FamilyInv /\ [Next]_vars => FamilyInv'
<1> SUFFICES ASSUME TInv, CodeInv, FamilyInv, [Next]_vars PROVE FamilyInv'
  BY Zenon
<1> DEFINE Quiet(p) ==
      /\ UNCHANGED <<clock, valkey, raced, dead>>
      /\ code = "used" => code' = "used"
      /\ delivered' # {} => code' = "used"
      /\ Reading(p)' /\ dead => old'[p] \in raced
      /\ pc'[p] \in RefreshSteps => code' = "used"
      /\ pc'[p] \in RevokeSteps => code' = "used" \/ (reason'[p] # "misuse" /\ clock >= CodeTTL)
      /\ pc'[p] = "del" => members'[p] = fam
<1>a. LocalsTyped /\ HandlersOK
  BY TypesOfLocals, Zenon DEF TInv
<1>b. /\ parent \in [Tokens -> Tokens \cup {NoToken}]
      /\ rt \in [Tokens -> {"unminted", "fresh", "used", "gone"}]
      /\ created \in [Tokens -> Nat] /\ exp \in [Tokens -> Nat]
      /\ delivered \subseteq Tokens /\ raced \subseteq Tokens /\ fam \subseteq Tokens
      /\ clock \in Nat /\ CodeTTL \in Nat /\ code \in {"unused", "used"}
  <2>1. clock \in Nat /\ CodeTTL \in Nat
    BY ClockArithmetic, Zenon DEF TInv, TypeOK
  <2> QED
    BY <2>1, Zenon DEF TInv, TypeOK
<1>c. \A t \in Tokens : Minted(t) =>
        Minted(t)' /\ parent'[t] = parent[t] /\ created'[t] = created[t] /\ (Live(t)' => Live(t))
  BY TokenKept, Zenon
<1>d. (delivered # {} => code = "used") /\ (\A p \in Procs : pc[p] \in RefreshSteps => code = "used")
  BY Zenon DEF FamilyInv
<1>e. clock >= clock /\ clock + 1 \in Nat /\ clock + 1 >= clock
  BY <1>b, ClockArithmetic, Zenon
<1>1. CASE Tick \/ RevokeBeforeSetNow \/ SetStatus \/ UNCHANGED vars
  <2>1. UNCHANGED <<pc, locals, delivered, valkey, raced, dead, code>>
    BY <1>1, Zenon DEF Tick, RevokeBeforeSetNow, SetStatus, vars, locals, races, valkey
  <2>2. clock' \in Nat /\ clock' >= clock
    BY <1>1, <1>b, <1>e, Zenon DEF Tick, RevokeBeforeSetNow, SetStatus, vars
  <2>3. NoProc \notin Procs /\ \A q \in Procs \ {NoProc} : SameLocals(q)
    BY <2>1, ProcAssumption, Zenon DEF locals, SameLocals
  <2>4. \A t \in Tokens : (Live(t)' => Live(t)) /\ (Minted(t) => Minted(t)')
    BY <1>c, <2>1, Zenon DEF Minted, Live, valkey
  <2>5. UNCHANGED <<created, fam, parent, raced, dead>>
    BY <2>1, Zenon DEF valkey
  <2> QED
    BY <1>b, <1>d, <2>1, <2>2, <2>3, <2>4, <2>5, FamilyFrame, Zenon
<1>2. ASSUME NEW t \in Tokens, Expire(t) PROVE FamilyInv'
  <2>1. /\ UNCHANGED <<pc, old, reason, members, delivered, fam, parent, created, raced, dead, code, clock>>
        /\ \A u \in Tokens : (Live(u)' => Live(u)) /\ (Minted(u) => Minted(u)')
    BY <1>2, <1>b, <1>c, Zenon DEF Expire, locals, races, Live, Readable, Minted
  <2> QED
    BY <1>b, <2>1, Zenon DEF FamilyInv, RevokedFamilyStaysDead, Reading
<1>3. ASSUME NEW p \in Procs, Handler(p) PROVE FamilyInv'
  <2>a. \A q \in Procs \ {p} : SameLocals(q)
    BY <1>a, <1>3, OthersKept, Zenon
  <2>b. ASSUME Quiet(p) PROVE FamilyInv'
    <3>1. \A t \in Tokens : (Live(t)' => Live(t)) /\ (Minted(t) => Minted(t)')
      BY <2>b, Zenon DEF Live, Readable, Minted, valkey
    <3>2. UNCHANGED <<created, fam, parent, raced, dead>>
      BY <2>b, Zenon DEF valkey
    <3>3. clock' \in Nat /\ clock' >= clock
      BY <1>b, <1>e, <2>b, Zenon
    <3> QED
      BY <1>b, <2>a, <2>b, <3>1, <3>2, <3>3, FamilyFrame, Zenon
  <2> USE <1>a, <1>b, <1>d DEF LocalsTyped, Goto, Step, Revoke, Respond, valkey, locals, races,
         RefreshSteps, RevokeSteps, Reading
  <2>1. ASSUME PresentCode(p) \/ ConsumeOnce(p) \/ AlreadyUsed(p) \/ AcceptCode(p) PROVE Quiet(p)
    BY <2>1, Zenon DEF PresentCode, ConsumeOnce, AlreadyUsed, AcceptCode
  <2>2. ASSUME RejectCode(p) \/ CommitCode(p) \/ CommitAnswerLost(p) \/ Fail(p) PROVE Quiet(p)
    <3>1. CASE RejectCode(p)
      BY <3>1, Zenon DEF RejectCode
    <3>2. CASE CommitCode(p)
      BY <3>2, Zenon DEF CommitCode
    <3>3. CASE CommitAnswerLost(p)
      BY <3>3, Zenon DEF CommitAnswerLost
    <3>4. CASE Fail(p)
      BY <3>4, Zenon DEF Fail
    <3> QED
      BY <2>2, <3>1, <3>2, <3>3, <3>4, Zenon
  <2>3. ASSUME CheckUser(p) \/ CheckCutoff(p) \/ CutoffFailsOpen(p) PROVE Quiet(p)
    <3>1. CASE CheckUser(p)
      BY <3>1, Zenon DEF CheckUser, FamilyInv
    <3>2. CASE CheckCutoff(p)
      BY <3>2, Zenon DEF CheckCutoff, FamilyInv
    <3>3. CASE CutoffFailsOpen(p)
      BY <3>3, Zenon DEF CutoffFailsOpen, FamilyInv
    <3> QED
      BY <2>3, <3>1, <3>2, <3>3, Zenon
  <2>4. ASSUME ReuseDetected(p) \/ UnknownOrExpired(p) \/ ReadFamily(p) PROVE Quiet(p)
    BY <2>4, Zenon DEF ReuseDetected, UnknownOrExpired, ReadFamily, FamilyInv, vars
  <2>5. ASSUME Consume(p) PROVE Quiet(p)
    BY <2>5, Zenon DEF Consume, FamilyInv, RevokedFamilyStaysDead
  <2>6. ASSUME MarkGet(p) \/ MarkFails(p) \/ AuditRefresh(p) PROVE Quiet(p)
    BY <2>6, Zenon DEF MarkGet, MarkFails, AuditRefresh
  <2> HIDE <1>a, <1>b, <1>d DEF Quiet, LocalsTyped, Goto, Step, Revoke, Respond, valkey, locals,
         races, RefreshSteps, RevokeSteps, Reading
  <2>c. pc \in [Procs -> Labels] /\ old \in [Procs -> Tokens \cup {NoToken}]
    BY <1>a, Zenon DEF LocalsTyped
  <2>7. CASE MarkSet(p)
    <3>1. /\ pc[p] = "markSet" /\ pc'[p] = "audit"
          /\ UNCHANGED <<created, fam, parent, raced, dead, clock, code, delivered, old, reason, members>>
      BY <2>7, <2>c, Zenon DEF MarkSet, Step, Goto, races, locals
    <3>2. \A t \in Tokens : (Live(t)' => Live(t)) /\ (Minted(t) => Minted(t)')
      BY <2>7, <1>b, Zenon DEF MarkSet, Live, Readable, Minted
    <3>3. code = "used" /\ ~Reading(p)' /\ pc'[p] \notin RevokeSteps /\ pc'[p] # "del"
      BY <1>d, <3>1, Zenon DEF Reading, RefreshSteps, RevokeSteps
    <3> QED
      BY <1>b, <1>e, <2>a, <3>1, <3>2, <3>3, FamilyFrame, Zenon
  <2>8. CASE MintForCode(p)
    <3>1. PICK t \in Tokens : \E ttl \in RefreshTTLs : Create(p, t, clock + ttl, NoToken)
      BY <2>8, Zenon DEF MintForCode
    <3>2. /\ ~Minted(t) /\ Minted(t)' /\ fam' = fam \cup {t} /\ parent'[t] = NoToken
          /\ created'[t] = clock
          /\ \A u \in Tokens \ {t} : /\ (Live(u)' => Live(u)) /\ (Minted(u) => Minted(u)')
                                     /\ parent'[u] = parent[u] /\ created'[u] = created[u]
      BY <1>b, <1>c, <3>1, Zenon DEF Create, Minted, Live
    <3>3. /\ UNCHANGED <<dead, code, clock, delivered, raced>>
          /\ pc'[p] = "codeCommit" /\ pc[p] = "mint"
      BY <2>8, <2>c, Zenon DEF MintForCode, Goto, races
    <3>4. code = "unused"
      BY <3>3, ProcAssumption, Zenon DEF CodeInv
    <3>5. ~dead /\ t \notin raced /\ \A q \in Procs : pc[q] = "del" => clock >= CodeTTL
      BY <3>2, <3>4, Zenon DEF FamilyInv, RevokeSteps
    <3> QED
      BY <1>b, <2>a, <3>2, <3>3, <3>5, FamilyGrown, Zenon
  <2>9. CASE Rotate(p)
    <3>1. PICK t \in Tokens : /\ Create(p, t, exp[old[p]], old[p])
                             /\ raced' = IF old[p] \in raced THEN raced \cup {t} ELSE raced
      BY <2>9, Zenon DEF Rotate
    <3>2. /\ ~Minted(t) /\ Minted(t)' /\ fam' = fam \cup {t} /\ parent'[t] = old[p]
          /\ \A u \in Tokens \ {t} : /\ (Live(u)' => Live(u)) /\ (Minted(u) => Minted(u)')
                                     /\ parent'[u] = parent[u] /\ created'[u] = created[u]
      BY <1>b, <1>c, <3>1, Zenon DEF Create, Minted, Live
    <3>3. /\ UNCHANGED <<dead, code, clock, delivered>>
          /\ pc'[p] = "markGet" /\ pc[p] = "rotate" /\ Reading(p)
      BY <2>9, <2>c, Zenon DEF Rotate, Goto, Reading
    <3>4. code = "used" /\ old[p] # NoToken
      BY <1>a, <1>d, <3>3, ProcAssumption, Zenon DEF RefreshSteps, HandlersOK
    <3>5. (dead => old[p] \in raced) /\ raced' \in {raced, raced \cup {t}} /\ (dead => t \in raced')
      BY <3>1, <3>3, Zenon DEF FamilyInv
    <3> QED
      BY <1>b, <2>a, <3>2, <3>3, <3>4, <3>5, FamilyGrown, Zenon
  <2>10. CASE DeleteFamily(p)
    <3>1. /\ pc[p] = "del" /\ pc'[p] = "idle" /\ fam' = {}
          /\ UNCHANGED <<clock, code, created, exp, delivered, parent>>
          /\ dead' = (dead \/ reason[p] = "misuse")
          /\ \A t \in Tokens : rt'[t] = IF t \in members[p] THEN "gone" ELSE rt[t]
          /\ raced' = raced \cup (fam \ members[p]) \cup {old[q] : q \in {q \in Procs : Reading(q)}}
      BY <2>10, <2>c, Zenon DEF DeleteFamily, Respond, Goto
    <3>2. \A t \in Tokens : Live(t)' => t \in (fam \ members[p]) \cup raced
      BY <3>1, Zenon DEF FamilyInv, Live, Readable
    <3>3. \A t \in raced' : t \in Tokens /\ Minted(t)'
      <4>1. /\ \A t \in fam \cup raced : t \in Tokens /\ Minted(t)
            /\ \A q \in Procs : Reading(q) => old[q] \in Tokens /\ Minted(old[q])
        BY <1>a, <1>b, Zenon DEF HandlersOK, FamilyInv, Reading, RefreshSteps
      <4>2. \A t \in raced' : t \in Tokens /\ Minted(t)
        BY <3>1, <4>1, Zenon
      <4> QED
        BY <4>2, <1>c, Zenon
    <3>4. \A t \in Tokens : parent'[t] = NoToken /\ Live(t)' => created'[t] >= CodeTTL
      <4>1. \A t \in fam \ members[p] : parent[t] = NoToken => created[t] >= CodeTTL
        BY <3>1, Zenon DEF FamilyInv
      <4>2. \A t \in raced : parent[t] = NoToken /\ Live(t) => created[t] >= CodeTTL
        BY Zenon DEF FamilyInv
      <4>3. \A t \in Tokens : Live(t)' => Live(t)
        BY <3>1, Zenon DEF Live, Readable
      <4> QED
        BY <3>1, <3>2, <4>1, <4>2, <4>3, Zenon
    <3>5. dead' => code' = "used"
      BY <3>1, Zenon DEF FamilyInv, RevokeSteps
    <3>6. ASSUME NEW q \in Procs, pc'[q] # "idle" PROVE SameLocals(q)
      BY <2>a, <3>1, <3>6, Zenon
    <3>7. \A q \in Procs : Reading(q)' => old'[q] \in raced'
      <4>1. ASSUME NEW q \in Procs, Reading(q)' PROVE Reading(q) /\ old'[q] = old[q]
        BY <4>1, <3>6, Zenon DEF Reading, SameLocals
      <4> QED
        BY <3>1, <4>1, Zenon
    <3>8. \A q \in Procs :
            /\ pc'[q] \in RefreshSteps => code' = "used"
            /\ pc'[q] \in RevokeSteps => code' = "used" \/ (reason'[q] # "misuse" /\ clock' >= CodeTTL)
      <4>1. ASSUME NEW q \in Procs, pc'[q] \in RefreshSteps \cup RevokeSteps PROVE SameLocals(q)
        BY <4>1, <3>6, Zenon DEF RefreshSteps, RevokeSteps
      <4> QED
        BY <3>1, <4>1, Zenon DEF FamilyInv, SameLocals
    <3>9. delivered' # {} => code' = "used"
      BY <1>d, <3>1, Zenon
    <3> QED
      BY <3>1, <3>2, <3>3, <3>4, <3>5, <3>7, <3>8, <3>9, Zenon DEF FamilyInv, RevokedFamilyStaysDead
  <2> QED
    BY <1>3, <2>1, <2>2, <2>3, <2>4, <2>5, <2>6, <2>7, <2>8, <2>9, <2>10, <2>b, Zenon
       DEF Handler, CodeGrant, RefreshGrant
<1> QED
  BY <1>1, <1>2, <1>3, Zenon DEF Next

\* TokenInv is an invariant: it holds initially and every step keeps it.
THEOREM TokenInvariant == Spec => []TokenInv
<1>1. TokenInv /\ [Next]_vars => TokenInv'
  BY TypeStep, CodeStep, CutoffStep, ExpiryStep, RotationStep, FamilyStep, Zenon
     DEF TokenInv, TInv
<1> QED
  BY TokenInit, <1>1, PTL DEF Spec

\* An authorization code yields tokens at most once, for any number of
\* concurrent requests that present it (ConsumeOnce and its transaction).
THEOREM ExchangedOnce == Spec => []CodeExchangedOnce
<1>1. TokenInv => CodeExchangedOnce
  BY Zenon DEF TokenInv, CodeInv
<1> QED
  BY TokenInvariant, <1>1, PTL

\* A token that existed when revoke_before was written is rotated only by a
\* request that had already passed, or could not make, the cutoff check.
THEOREM CutoffEnforced == Spec => []CutoffRespected
<1>1. TokenInv => CutoffRespected
  BY Zenon DEF TokenInv, CutoffInv
<1> QED
  BY TokenInvariant, <1>1, PTL

\* No chain of rotations outlives the expiry its code exchange set.
THEOREM ExpiryPreserved == Spec => []AbsoluteExpiry
<1>1. TokenInv => AbsoluteExpiry
  BY Zenon DEF TokenInv
<1> QED
  BY TokenInvariant, <1>1, PTL

\* Two delivered tokens with one parent show an overlap or a MarkUsed that did
\* not take place, for any number of requests and tokens.
THEOREM RotatedOnceUnlessRaced == Spec => []RotatedOnce
<1>1. TokenInv => RotatedOnce
  BY Zenon DEF TokenInv, RotationInv
<1> QED
  BY TokenInvariant, <1>1, PTL

\* Only tokens of a rotation that overlapped with a RevokeFamily outlive it.
THEOREM FamilyStaysDead == Spec => []RevokedFamilyStaysDead
<1>1. TokenInv => RevokedFamilyStaysDead
  BY Zenon DEF TokenInv, FamilyInv
<1> QED
  BY TokenInvariant, <1>1, PTL

\* A token that answered the code outlives a replay only if it was stored
\* after the code had expired.
THEOREM ReplayKills == Spec => []ReplayKillsExchange
<1>1. TokenInv => ReplayKillsExchange
  BY Zenon DEF TokenInv, FamilyInv, RevokedFamilyStaysDead, ReplayKillsExchange
<1> QED
  BY TokenInvariant, <1>1, PTL

-----------------------------------------------------------------------------
(* The code implements OneShot. *)

\* The code has been issued and not used.
LEMMA CodeSpecInit == Init => CodeSpec!Init
BY Zenon DEF Init, CodeSpec!Init, codeState, codeUses

\* CommitCode spends the code, the other commits withdraw it.
LEMMA CodeSpecStep ==
    TInv /\ CodeInv /\ CodeInv' /\ [Next]_vars => [CodeSpec!Next]_(CodeSpec!vars)
<1> SUFFICES ASSUME TInv, CodeInv, CodeInv', [Next]_vars
             PROVE  CodeSpec!Next \/ UNCHANGED CodeSpec!vars
  BY Zenon
<1>1. ASSUME NEW p \in Procs, CommitCode(p) PROVE CodeSpec!Next
  <2>1. pc[p] = "codeCommit" /\ code' = "used" /\ exchanges' = exchanges + 1
    BY <1>1, Zenon DEF CommitCode
  <2>2. code = "unused" /\ exchanges = 0
    BY <2>1, ProcAssumption, Zenon DEF CodeInv
  <2>3. CodeSpec!Spend("code")
    <3>1. exchanges' = 1
      BY <2>1, <2>2
    <3> QED
      BY <2>1, <2>2, <3>1, FirstExchange, Zenon
  <2> QED
    BY <2>3, Zenon DEF CodeSpec!Next
<1>2. ASSUME NEW p \in Procs, RejectCode(p) \/ CommitAnswerLost(p) PROVE CodeSpec!Next
  <2>1. pc[p] \in {"checks", "codeCommit"} /\ code' = "used" /\ exchanges' = exchanges
    BY <1>2, Zenon DEF RejectCode, CommitAnswerLost
  <2>2. code = "unused" /\ exchanges = 0
    BY <2>1, ProcAssumption, Zenon DEF CodeInv
  <2>3. CodeSpec!Withdraw({"code"})
    BY <2>1, <2>2, Zenon DEF CodeSpec!Withdraw, codeState, codeUses
  <2> QED
    BY <2>3, Zenon DEF CodeSpec!Next
<1>3. CASE UNCHANGED <<code, exchanges>>
  BY <1>3, Zenon DEF CodeSpec!vars, codeState, codeUses
<1>4. CASE Tick \/ RevokeBeforeSetNow \/ SetStatus \/ UNCHANGED vars \/ \E t \in Tokens : Expire(t)
  <2>1. UNCHANGED <<code, exchanges>>
    BY <1>4, Zenon DEF Tick, RevokeBeforeSetNow, SetStatus, Expire, vars
  <2> QED
    BY <2>1, <1>3, Zenon
<1> QED
  BY <1>1, <1>2, <1>3, <1>4, CodeUntouched, Zenon DEF Next

\* TokenEndpoint implements OneShot: the code gives tokens away in the one step
\* that commits its row as used.
THEOREM CodeImplementsOneShot == Spec => CodeIsOneShot
<1>1. TokenInv /\ TokenInv' /\ [Next]_vars => [CodeSpec!Next]_(CodeSpec!vars)
  BY CodeSpecStep, Zenon DEF TokenInv, TInv
<1> QED
  BY TokenInvariant, CodeSpecInit, <1>1, PTL DEF Spec, CodeIsOneShot, CodeSpec!Spec

=============================================================================
