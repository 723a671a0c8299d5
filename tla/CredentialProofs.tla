-------------------------- MODULE CredentialProofs --------------------------
(***************************************************************************)
(* Proofs about what a request shows to be served: a session (Sessions) or *)
(* a token that a signing key has signed (SigningKeys).  The two modules   *)
(* have different names for everything, so that one can hold both proofs.  *)
(***************************************************************************)
EXTENDS Sessions, SigningKeys, TLAPS

-----------------------------------------------------------------------------
(* Types *)

\* The sessions of a user begin with their types.
LEMMA TypeInit == Init => TypeOK
<1> SUFFICES ASSUME Init PROVE TypeOK
  BY Zenon
<1>1. /\ off \in [Procs -> BOOLEAN]
      /\ seen \in [Procs -> SUBSET Tokens]
  BY Zenon DEF Init
<1> QED
  BY <1>1, SessionsAssumption DEF Init, TypeOK, Steps, ServedSteps, Entries

\* Every step of a request, an administrator or the clock keeps SessionInv.
LEMMA InvStep == SessionInv /\ [Next]_vars => SessionInv'
<1> SUFFICES ASSUME SessionInv, [Next]_vars PROVE SessionInv'
  BY Zenon
<1> USE SessionsAssumption DEF SessionInv, Covered, Tracked, EndedStaysEnded,
       DisabledNeverServed, TypeOK, Steps, ServedSteps, Entries, store, locals, Live, Goto
<1>1. CASE Tick
  BY <1>1 DEF Tick
<1>2. CASE Enable
  BY <1>2, Zenon DEF Enable
<1>3. ASSUME NEW t \in Tokens, TerminateSession(t) PROVE SessionInv'
  BY <1>3 DEF TerminateSession, DeleteSession
<1>4. ASSUME NEW p \in Procs, Request(p) PROVE SessionInv'
  BY <1>4 DEF Request, Start
<1>5. ASSUME NEW p \in Procs, Get(p) PROVE SessionInv'
  <2>1. CASE Live(tok[p])
    BY <1>5, <2>1 DEF Get
  <2>2. CASE ~Live(tok[p])
    <3>1. Return(p) /\ UNCHANGED <<store, made, known, status, ended>>
      BY <1>5, <2>2, Zenon DEF Get
    <3> QED
      BY <2>2, <3>1 DEF Return
  <2> QED
    BY <2>1, <2>2, Zenon
<1>6. ASSUME NEW p \in Procs, Slide(p) PROVE SessionInv'
  BY <1>6 DEF Slide, SlideSession, SlideSessionFails
<1>7. ASSUME NEW p \in Procs, Middleware(p) PROVE SessionInv'
  BY <1>7 DEF Middleware
<1>8. ASSUME NEW p \in Procs, OptionalMiddleware(p) PROVE SessionInv'
  BY <1>8 DEF OptionalMiddleware
<1>9. ASSUME NEW p \in Procs, Reject(p) PROVE SessionInv'
  BY <1>9 DEF Reject, DeleteSession, Return
<1>10. ASSUME NEW p \in Procs, Serve(p) PROVE SessionInv'
  BY <1>10 DEF Serve, Return
<1>11. ASSUME NEW p \in Procs, PostLogout(p) PROVE SessionInv'
  BY <1>11 DEF PostLogout, DeleteSession, Return
<1>12. ASSUME NEW p \in Procs, GetAgain(p) PROVE SessionInv'
  BY <1>12 DEF GetAgain
<1>13. ASSUME NEW p \in Procs, SlideAgain(p) PROVE SessionInv'
  BY <1>13 DEF SlideAgain, SlideSession, SlideSessionFails
<1>14. ASSUME NEW p \in Procs, PostChangePassword(p) PROVE SessionInv'
  BY <1>14 DEF PostChangePassword
<1>15. ASSUME NEW p \in Procs, DeleteOld(p) PROVE SessionInv'
  BY <1>15 DEF DeleteOld, DeleteSession, Finish
<1>16. ASSUME NEW p \in Procs, PostDisableMfa(p) PROVE SessionInv'
  BY <1>16, Zenon DEF PostDisableMfa, Finish
<1>17. ASSUME NEW p \in Procs, PostLogin(p) PROVE SessionInv'
  BY <1>17 DEF PostLogin, Start
<1>18. ASSUME NEW p \in Procs, Create(p) PROVE SessionInv'
  <2>1. PICK t \in Tokens : CreateSession(t) /\ known' = known \cup {t}
    BY <1>18, Zenon DEF Create
  <2>2. /\ pc[p] = "create" /\ Return(p)
        /\ UNCHANGED <<status, ended>>
    BY <1>18, Zenon DEF Create
  <2>3. TypeOK'
    BY <2>1, <2>2 DEF CreateSession, Return
  <2>4. Tracked'
    BY <2>1, <2>2 DEF CreateSession, Return
  <2>5. Covered'
    <3>1. CASE Deleting
      BY <2>1, <2>2, <3>1 DEF CreateSession, Return
    <3>2. CASE ~Deleting
      BY <2>1, <2>2, <3>2 DEF CreateSession, Return, Deleting
    <3> QED
      BY <3>1, <3>2, Zenon
  <2>6. EndedStaysEnded'
    BY <2>1, <2>2, Zenon DEF CreateSession
  <2> QED
    BY <2>2, <2>3, <2>4, <2>5, <2>6 DEF Return
<1>19. ASSUME NEW p \in Procs, CreateFails(p) PROVE SessionInv'
  BY <1>19 DEF CreateFails, Return
<1>20. ASSUME NEW p \in Procs, Disable(p) PROVE SessionInv'
  BY <1>20 DEF Disable, Start
<1>21. ASSUME NEW p \in Procs, Delete(p) PROVE SessionInv'
  BY <1>21 DEF Delete, Start
<1>22. ASSUME NEW p \in Procs, ResetPassword(p) PROVE SessionInv'
  BY <1>22 DEF ResetPassword, Start
<1>23. ASSUME NEW p \in Procs, ResetMFA(p) PROVE SessionInv'
  BY <1>23 DEF ResetMFA, Start
<1>24. ASSUME NEW p \in Procs, TerminateAllSessions(p) PROVE SessionInv'
  BY <1>24 DEF TerminateAllSessions, Start
<1>25. ASSUME NEW p \in Procs, SMembers(p) PROVE SessionInv'
  BY <1>25 DEF SMembers
<1>26. ASSUME NEW p \in Procs, DeleteAll(p) PROVE SessionInv'
  BY <1>26 DEF DeleteAll, Return
<1>27. ASSUME NEW p \in Procs, Fail(p) PROVE SessionInv'
  BY <1>27 DEF Fail, Return
<1>28. ASSUME NEW p \in Procs, PostConfirm(p) PROVE SessionInv'
  BY <1>28 DEF PostConfirm, Start
<1>29. ASSUME NEW p \in Procs, DeleteAllFails(p) PROVE SessionInv'
  BY <1>29 DEF DeleteAllFails, Return
<1>30. CASE UNCHANGED vars
  BY <1>30, Zenon DEF vars
<1>31. ASSUME NEW p \in Procs, CheckMaxAge(p) PROVE SessionInv'
  BY <1>31 DEF CheckMaxAge
<1>32. ASSUME NEW p \in Procs, SlideMaxAge(p) PROVE SessionInv'
  BY <1>32 DEF SlideMaxAge, SlideSession, SlideSessionFails
<1>33. ASSUME NEW p \in Procs, ForceReauth(p) PROVE SessionInv'
  BY <1>33 DEF ForceReauth, DeleteSession, Return
<1> QED
  BY <1>1, <1>2, <1>3, <1>4, <1>5, <1>6, <1>7, <1>8, <1>9, <1>10, <1>11, <1>12,
     <1>13, <1>14, <1>15, <1>16, <1>17, <1>18, <1>19, <1>20, <1>21, <1>22, <1>23,
     <1>24, <1>25, <1>26, <1>27, <1>28, <1>29, <1>30, <1>31, <1>32, <1>33, Zenon DEF Next

-----------------------------------------------------------------------------
(* Theorems *)

\* The invariant behind the results below holds in every reachable state:
\* what the store's pipelines and the interleaved deletions leave behind is
\* typed, indexed, and ended where it was ended.
THEOREM SessionInvariant == Spec => []SessionInv
<1>1. Init => SessionInv
  BY TypeInit DEF Init, SessionInv, TypeOK, Covered, Tracked, EndedStaysEnded,
     DisabledNeverServed, Live, ServedSteps, Entries
<1> QED
  BY <1>1, InvStep, PTL DEF Spec

\* Middleware and OptionalMiddleware never hand on a request of a user who
\* has been disabled or deleted since before it began.
THEOREM DisabledIsOut == Spec => []DisabledNeverServed
<1>1. SessionInv => DisabledNeverServed
  BY Zenon DEF SessionInv
<1> QED
  BY <1>1, SessionInvariant, PTL

\* Outside the races and half pipelines that astray records, the index of a
\* user lists every live session, whatever Create, Get and Delete do to the
\* two lifetimes.
THEOREM IndexIsComplete == Spec => []IndexCovers
<1>1. SessionInv => IndexCovers
  BY Zenon DEF SessionInv, Covered, IndexCovers
<1> QED
  BY <1>1, SessionInvariant, PTL

\* A session that was ended, or is older than a DeleteAllForUser, is live only
\* if a Get wrote it back, or a race or half a pipeline led it astray.
THEOREM EndedSessionsStayDead == Spec => []EndedStaysEnded
<1>1. SessionInv => EndedStaysEnded
  BY Zenon DEF SessionInv
<1> QED
  BY <1>1, SessionInvariant, PTL

-----------------------------------------------------------------------------
(***************************************************************************)
(* SigningKeys, for any keys, requests and times that satisfy              *)
(* TimeAssumption.  KeyInv is inductive; its timing part follows the age   *)
(* of what each request has read.                                          *)
(***************************************************************************)

\* The initial state: no key, no request, the server down.
LEMMA KeyInvInit == KeysInit => KeyInv
BY KeyAssumption, TimeAssumption
   DEF KeysInit, KeyInv, LifeInv, RotationInv, OneActiveKey, KeysTypeOK, RequestInv, AgeInv,
   SweepInv, Active

\* One case per action; the arithmetic is that of TimeAssumption.
LEMMA LifeStep == LifeInv /\ [KeysNext]_keysVars => LifeInv'
<1> SUFFICES ASSUME LifeInv, [KeysNext]_keysVars PROVE LifeInv'
  BY Zenon
<1> USE KeyAssumption, TimeAssumption DEF LifeInv, KeysTypeOK, RequestInv, AgeInv, SweepInv,
      Active, history
<1>1. CASE KeysTick
  BY <1>1 DEF KeysTick
<1>2. CASE Bootstrap
  BY <1>2 DEF Bootstrap
<1>3. CASE BootSweep
  BY <1>3 DEF BootSweep, ListRetirable
<1>4. CASE Crash
  BY <1>4, Zenon DEF Crash
<1>5. ASSUME NEW k \in Keys, EmergencyRetire(k) PROVE LifeInv'
  BY <1>5 DEF EmergencyRetire
<1>6. ASSUME NEW p \in Tasks, TokenRequest(p) \/ RotateBegin(p) PROVE LifeInv'
  BY <1>6 DEF TokenRequest, RotateBegin, GetActive, Move
<1>7. ASSUME NEW p \in Tasks, Sign(p) PROVE LifeInv'
  BY <1>7 DEF Sign, Done, Move
<1>8. ASSUME NEW p \in Tasks, RotateCommit(p) PROVE LifeInv'
  BY <1>8 DEF RotateCommit, Move
<1>9. ASSUME NEW p \in Tasks, SweepList(p) PROVE LifeInv'
  BY <1>9 DEF SweepList, ListRetirable, Move
<1>10. ASSUME NEW p \in Tasks, NEW k \in Keys, SweepOne(p, k) PROVE LifeInv'
  BY <1>10 DEF SweepOne
<1>11. ASSUME NEW p \in Tasks, EndRequest(p) PROVE LifeInv'
  BY <1>11 DEF EndRequest, Done, Move
<1>12. CASE UNCHANGED keysVars
  BY <1>12 DEF keysVars
<1> QED
  BY <1>1, <1>2, <1>3, <1>4, <1>5, <1>6, <1>7, <1>8, <1>9, <1>10, <1>11, <1>12, Zenon
     DEF KeysNext, Handler

\* A second active key needs a rotation whose key another has replaced.
LEMMA RotationStep == LifeInv /\ RotationInv /\ [KeysNext]_keysVars => RotationInv'
<1> SUFFICES ASSUME LifeInv, RotationInv, [KeysNext]_keysVars, shared' = {}
             PROVE  /\ \A k, l \in Active' : k = l
                    /\ \A p, q \in Tasks : stage'[p] = "rotate" /\ stage'[q] = "rotate" => p = q
                    /\ \A p \in Tasks : stage'[p] = "rotate" => keyStatus'[key'[p]] = "active"
  BY Zenon DEF RotationInv, OneActiveKey
<1>0. /\ \A k, l \in Active : shared = {} => k = l
      /\ \A p, q \in Tasks : shared = {} /\ stage[p] = "rotate" /\ stage[q] = "rotate" => p = q
      /\ \A p \in Tasks : shared = {} /\ stage[p] = "rotate" => keyStatus[key[p]] = "active"
  BY Zenon DEF RotationInv, OneActiveKey
<1> USE KeyAssumption DEF LifeInv, KeysTypeOK, RequestInv, Active, history
<1>1. CASE KeysTick \/ UNCHANGED keysVars
  BY <1>0, <1>1, Zenon DEF KeysTick, keysVars
<1>2. CASE Bootstrap
  BY <1>0, <1>2 DEF Bootstrap
<1>3. CASE BootSweep
  BY <1>0, <1>3 DEF BootSweep, ListRetirable
<1>4. CASE Crash
  BY <1>0, <1>4, Zenon DEF Crash
<1>5. CASE \E k \in Keys : EmergencyRetire(k)
  BY <1>0, <1>5 DEF EmergencyRetire
<1>6. CASE \E p \in Tasks : TokenRequest(p) \/ Sign(p) \/ SweepList(p) \/ EndRequest(p)
  BY <1>0, <1>6 DEF TokenRequest, GetActive, Sign, SweepList, EndRequest, Done, Move
<1>7. ASSUME NEW p \in Tasks, RotateBegin(p)
      PROVE  /\ \A k, l \in Active' : k = l
             /\ \A r, q \in Tasks : stage'[r] = "rotate" /\ stage'[q] = "rotate" => r = q
             /\ \A q \in Tasks : stage'[q] = "rotate" => keyStatus'[key'[q]] = "active"
  <2>1. shared = {} /\ key'[p] \in Active
    BY <1>7, Zenon DEF RotateBegin, GetActive
  <2>2. \A q \in Tasks : stage[q] # "rotate"
    BY <1>0, <1>7, <2>1 DEF RotateBegin
  <2> QED
    BY <1>0, <1>7, <2>1, <2>2 DEF RotateBegin, GetActive, Move
<1>8. CASE \E p \in Tasks : RotateCommit(p)
  BY <1>0, <1>8 DEF RotateCommit, Move
<1>9. CASE \E p \in Tasks, k \in Keys : SweepOne(p, k)
  BY <1>0, <1>9 DEF SweepOne
<1> QED
  BY <1>1, <1>2, <1>3, <1>4, <1>5, <1>6, <1>7, <1>8, <1>9, Zenon DEF KeysNext, Handler

\* KeyInv holds in every reachable state.
THEOREM KeyInvariant == KeysSpec => []KeyInv
<1>1. KeyInv /\ [KeysNext]_keysVars => KeyInv'
  BY LifeStep, RotationStep, Zenon DEF KeyInv
<1> QED
  BY KeyInvInit, <1>1, PTL DEF KeysSpec

\* A running server always has an active signing key.
THEOREM AlwaysAKey == KeysSpec => []KeyAvailable
<1>1. KeyInv => KeyAvailable
  BY Zenon DEF KeyInv, LifeInv, KeyAvailable
<1> QED
  BY KeyInvariant, <1>1, PTL

\* No token outlives the publication of its key, unless the key was retired in
\* an emergency: the grace period covers the token's lifetime and the delays
\* of the request that signed it and of the rotation.
THEOREM TokensVerifiable == KeysSpec => []Verifiable
<1>1. KeyInv => Verifiable
  BY TimeAssumption DEF KeyInv, LifeInv, KeysTypeOK, AgeInv, Verifiable, Publishable
<1> QED
  BY KeyInvariant, <1>1, PTL

\* Keys never move backwards: Rotate's UPDATE is conditional on the status.
THEOREM KeysMoveForward == KeysSpec => Lifecycle
<1>1. KeyInv /\ [KeysNext]_keysVars =>
        [\A k \in Keys :
          /\ keyStatus[k] = "retired" => keyStatus'[k] = "retired"
          /\ keyStatus[k] = "retiring" => keyStatus'[k] \in {"retiring", "retired"}
          /\ keyStatus[k] = "active" => keyStatus'[k] \in {"active", "retiring"}]_keysVars
  <2> SUFFICES ASSUME KeyInv, [KeysNext]_keysVars, NEW k \in Keys
               PROVE  /\ keyStatus[k] = "retired" => keyStatus'[k] = "retired"
                      /\ keyStatus[k] = "retiring" => keyStatus'[k] \in {"retiring", "retired"}
                      /\ keyStatus[k] = "active" => keyStatus'[k] \in {"active", "retiring"}
    BY Zenon
  <2> USE DEF KeyInv, LifeInv, KeysTypeOK
  <2>1. CASE KeysTick \/ Crash \/ UNCHANGED keysVars
    BY <2>1, Zenon DEF KeysTick, Crash, keysVars
  <2>2. CASE Bootstrap
    BY <2>2, Zenon DEF Bootstrap
  <2>3. CASE BootSweep
    BY <2>3, Zenon DEF BootSweep, ListRetirable
  <2>4. CASE \E j \in Keys : EmergencyRetire(j)
    BY <2>4, Zenon DEF EmergencyRetire
  <2>5. ASSUME NEW p \in Tasks, RotateCommit(p)
        PROVE  /\ keyStatus[k] = "retired" => keyStatus'[k] = "retired"
               /\ keyStatus[k] = "retiring" => keyStatus'[k] \in {"retiring", "retired"}
               /\ keyStatus[k] = "active" => keyStatus'[k] \in {"active", "retiring"}
    BY <2>5, Zenon DEF RotateCommit, RequestInv
  <2>6. ASSUME NEW p \in Tasks, NEW j \in Keys, SweepOne(p, j)
        PROVE  /\ keyStatus[k] = "retired" => keyStatus'[k] = "retired"
               /\ keyStatus[k] = "retiring" => keyStatus'[k] \in {"retiring", "retired"}
               /\ keyStatus[k] = "active" => keyStatus'[k] \in {"active", "retiring"}
    BY <2>6, Zenon DEF SweepOne
  <2>7. ASSUME NEW p \in Tasks,
               TokenRequest(p) \/ Sign(p) \/ RotateBegin(p) \/ SweepList(p) \/ EndRequest(p)
        PROVE  keyStatus' = keyStatus
    BY <2>7, Zenon DEF TokenRequest, Sign, RotateBegin, GetActive, SweepList, EndRequest
  <2> QED
    BY <2>1, <2>2, <2>3, <2>4, <2>5, <2>6, <2>7, Zenon DEF KeysNext, Handler
<1> QED
  BY KeyInvariant, <1>1, PTL DEF KeysSpec, Lifecycle

\* Only rotations that overlap leave more than one active key.
THEOREM OneActive == KeysSpec => []OneActiveKey
<1>1. KeyInv => OneActiveKey
  BY Zenon DEF KeyInv, RotationInv, OneActiveKey
<1> QED
  BY KeyInvariant, <1>1, PTL

=============================================================================
