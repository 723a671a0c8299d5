--------------------------- MODULE ChallengeProofs ---------------------------
(***************************************************************************)
(* Proofs about Challenge, for any requests, challenges, recovery codes    *)
(* and number of attempts.  ChallengeInv is inductive, and AttemptsInv is  *)
(* inductive relative to it.                                               *)
(***************************************************************************)
EXTENDS Challenge, TLAPS

\* The initial state: the account is enrolled and nothing has been issued.
LEMMA ChallengeInit == Init => ChallengeInv
<1> SUFFICES ASSUME Init PROVE ChallengeInv
  BY Zenon
<1> USE ChallengeAssumption DEF Init
<1>1. TypeOK
  <2>1. enrolled \in BOOLEAN /\ crossed \in BOOLEAN
    BY Zenon
  <2> QED
    BY <2>1 DEF TypeOK, Periods, Steps
<1>2. FactorInv /\ RecoveryCodeBurnsOnce
  BY DEF FactorInv, RecoveryCodeBurnsOnce
<1> QED
  BY <1>1, <1>2 DEF ChallengeInv

\* One case per group of actions.
LEMMA ChallengeStep == ChallengeInv /\ [Next]_vars => ChallengeInv'
<1> SUFFICES ASSUME ChallengeInv, [Next]_vars PROVE ChallengeInv'
  BY Zenon
<1> USE ChallengeAssumption DEF ChallengeInv, TypeOK, FactorInv, RecoveryCodeBurnsOnce, Periods,
      Steps, account, keys, locals, history, totpHistory
<1>1. CASE Tick
  BY <1>1 DEF Tick
<1>2. CASE ResetMFA
  <2>1. enrolled' \in BOOLEAN
    BY <1>2, Zenon DEF ResetMFA
  <2>2. counter' = 0 /\ highest' = 0 /\ unused' = {} /\ UNCHANGED <<now, issued, keys, pc, locals>>
        /\ UNCHANGED <<tried, uses, crossed>>
    BY <1>2, Zenon DEF ResetMFA
  <2> QED
    BY <2>1, <2>2
<1>3. CASE UNCHANGED vars
  BY <1>3, Zenon DEF vars
<1>4. ASSUME NEW c \in Challenges, IssueChallenge(c) \/ Expire(c) PROVE ChallengeInv'
  BY <1>4 DEF IssueChallenge, Expire
<1>5. ASSUME NEW p \in Procs, PostChallenge(p) PROVE ChallengeInv'
  BY <1>5 DEF PostChallenge, Goto
<1>6. ASSUME NEW p \in Procs, Decrement(p) PROVE ChallengeInv'
  BY <1>6 DEF Decrement, Goto, OneLess
<1>7. ASSUME NEW p \in Procs, DropChallenge(p) PROVE ChallengeInv'
  BY <1>7 DEF DropChallenge, DelChallenge, Return, Goto
<1>8. ASSUME NEW p \in Procs, CompleteChallenge(p) PROVE ChallengeInv'
  BY <1>8 DEF CompleteChallenge, DelChallenge, Return, Goto
<1>9. ASSUME NEW p \in Procs, LoadChallenge(p) \/ ReadUser(p) PROVE ChallengeInv'
  BY <1>9 DEF LoadChallenge, ReadUser, Goto
<1>10. ASSUME NEW p \in Procs, ChallengeExpired(p) \/ Fail(p) PROVE ChallengeInv'
  BY <1>10 DEF ChallengeExpired, Fail, Return, Goto
<1>11. ASSUME NEW p \in Procs, AcceptTOTP(p) PROVE ChallengeInv'
  BY <1>11 DEF AcceptTOTP, CountTry, Valid, Goto
<1>12. ASSUME NEW p \in Procs, RejectTOTP(p) PROVE ChallengeInv'
  <2>1. tried' \in [Challenges -> Nat] /\ UNCHANGED <<now, account, issued, keys, uses, totpHistory>>
    BY <1>12 DEF RejectTOTP, CountTry
  <2>2. CASE Goto(p, "drop") /\ UNCHANGED locals
    BY <1>12, <2>1, <2>2 DEF RejectTOTP, Goto
  <2>3. CASE Return(p)
    BY <2>1, <2>3 DEF Return, Goto
  <2> QED
    BY <1>12, <2>2, <2>3, Zenon DEF RejectTOTP
<1>13. ASSUME NEW p \in Procs, AdvanceTOTPCounter(p) PROVE ChallengeInv'
  <2>1. code[p] > last[p] /\ code[p] \in Periods /\ last[p] \in Periods
    BY <1>13, Zenon DEF AdvanceTOTPCounter
  <2>2. crossed' \in BOOLEAN /\ (~crossed' => ~crossed /\ counter = last[p])
    BY <1>13, Zenon DEF AdvanceTOTPCounter
  <2>3. counter' \in Periods /\ highest' \in Periods
    BY <1>13, <2>1, Zenon DEF AdvanceTOTPCounter
  <2>4. ~crossed' => counter' = highest'
    <3>1. ~crossed' => code[p] > highest
      <4>1. ~crossed' => highest = last[p]
        BY <2>2, Zenon
      <4> QED
        BY <2>1, <4>1, Zenon
    <3>2. counter' = code[p] /\ highest' = IF code[p] > highest THEN code[p] ELSE highest
      BY <1>13, Zenon DEF AdvanceTOTPCounter
    <3> HIDE DEF ChallengeInv, TypeOK, FactorInv
    <3> QED
      BY <3>1, <3>2, Zenon
  <2>5. pc' = [pc EXCEPT ![p] = "done"] /\ pc[p] = "advance" /\ rem[p] >= 0
    BY <1>13, Zenon DEF AdvanceTOTPCounter, Goto
  <2>6. UNCHANGED <<now, enrolled, unused, issued, keys, locals, tried, uses>>
    BY <1>13, Zenon DEF AdvanceTOTPCounter
  <2>7. TypeOK'
    <3>1. TypeOK /\ pc' \in [Procs -> Steps]
      BY <2>5, Zenon
    <3> HIDE DEF ChallengeInv, Periods, Steps
    <3> QED
      BY <2>2, <2>3, <2>6, <3>1, Zenon
  <2>8. \A q \in Procs : pc'[q] = IF q = p THEN "done" ELSE pc[q]
    BY <2>5, Zenon
  <2>9. FactorInv' /\ RecoveryCodeBurnsOnce'
    BY <2>4, <2>6, <2>8, Zenon
  <2>10. \A q \in Procs :
           /\ pc'[q] # "idle" => ch'[q] \in issued'
           /\ pc'[q] \in Steps \ {"idle", "decrement", "drop"} => rem'[q] >= 0
    BY <2>5, <2>6, <2>8
  <2> QED
    BY <2>6, <2>7, <2>9, <2>10, Zenon
<1>14. ASSUME NEW p \in Procs, MarkUsed(p) PROVE ChallengeInv'
  BY <1>14 DEF MarkUsed, Goto
<1>15. ASSUME NEW p \in Procs, RejectRecoveryCode(p) PROVE ChallengeInv'
  BY <1>15 DEF RejectRecoveryCode, CountTry, Return, Goto
<1>16. ASSUME NEW p \in Procs, ListUnused(p) PROVE ChallengeInv'
  BY <1>16 DEF ListUnused, CountTry, Goto
<1> QED
  BY <1>1, <1>2, <1>3, <1>4, <1>5, <1>6, <1>7, <1>8, <1>9, <1>10, <1>11, <1>12, <1>13, <1>14,
     <1>15, <1>16, Zenon DEF Next

\* ChallengeInv holds in every reachable state.
THEOREM ChallengeInvariant == Spec => []ChallengeInv
BY ChallengeInit, ChallengeStep, PTL DEF Spec

\* A recovery code completes at most one login.
THEOREM RecoveryCodesBurn == Spec => []RecoveryCodeBurnsOnce
<1>1. ChallengeInv => RecoveryCodeBurnsOnce
  BY Zenon DEF ChallengeInv
<1> QED
  BY ChallengeInvariant, <1>1, PTL

\* Without crossing requests every accepted TOTP code is later than the last.
THEOREM TOTPOnlyForward == Spec => TOTPReplayNeedsCrossing
<1>1. ChallengeInv /\ [Next]_vars =>
        [\A p \in Procs : pc[p] = "advance" /\ pc'[p] = "done" =>
            code[p] > highest \/ crossed']_vars
  <2> SUFFICES ASSUME ChallengeInv, Next, NEW p \in Procs, pc[p] = "advance", pc'[p] = "done",
                      ~crossed'
               PROVE  code[p] > highest
    BY Zenon
  <2>a. pc \in [Procs -> Steps]
    BY Zenon DEF ChallengeInv, TypeOK
  <2>b. ASSUME NEW q \in Procs, PostChallenge(q) \/ Decrement(q) \/ DropChallenge(q)
                 \/ LoadChallenge(q) \/ ChallengeExpired(q) \/ ReadUser(q) \/ AcceptTOTP(q)
        PROVE  FALSE
    BY <2>a, <2>b, Zenon DEF PostChallenge, Decrement, DropChallenge, LoadChallenge,
       ChallengeExpired, ReadUser, AcceptTOTP, Return, Goto
  <2>c. ASSUME NEW q \in Procs, RejectTOTP(q) \/ ListUnused(q) \/ RejectRecoveryCode(q)
                 \/ MarkUsed(q) \/ CompleteChallenge(q) \/ Fail(q)
        PROVE  FALSE
    BY <2>a, <2>c, Zenon DEF RejectTOTP, ListUnused, RejectRecoveryCode, MarkUsed,
       CompleteChallenge, Fail, Return, Goto
  <2>d. ASSUME NEW q \in Procs, AdvanceTOTPCounter(q) PROVE q = p
    BY <2>a, <2>d, Zenon DEF AdvanceTOTPCounter, Goto
  <2>1. AdvanceTOTPCounter(p)
    BY <2>b, <2>c, <2>d, Zenon DEF Next, Tick, ResetMFA, IssueChallenge, Expire
  <2> QED
    BY <2>1, Zenon DEF ChallengeInv, FactorInv, TypeOK, AdvanceTOTPCounter
<1> QED
  BY ChallengeInvariant, <1>1, PTL DEF Spec, TOTPReplayNeedsCrossing

-----------------------------------------------------------------------------
(* The recovery codes implement OneShot. *)

\* All recovery codes are live.
LEMMA RecoveryInit == Init => RecoverySpec!Init
BY Zenon DEF Init, RecoverySpec!Init, recoveryState

\* Burning an unused code is OneShot's Spend, deleting the unused ones its
\* Withdraw.
LEMMA BurnSpends ==
    ASSUME NEW r \in unused, unused \subseteq Codes, uses \in [Codes -> Nat],
           unused' = unused \ {r}, uses' = [uses EXCEPT ![r] = uses[r] + 1]
    PROVE  RecoverySpec!Next
<1>1. recoveryState[r] = "live"
  BY Zenon DEF recoveryState
<1>2. recoveryState' = [recoveryState EXCEPT ![r] = "spent"]
  <2>1. uses'[r] # 0 /\ \A q \in Codes \ {r} : uses'[q] = uses[q]
    OBVIOUS
  <2>2. \A q \in Codes : q \in unused' <=> q \in unused /\ q # r
    BY Zenon
  <2> QED
    BY <2>1, <2>2, Zenon DEF recoveryState
<1>3. RecoverySpec!Spend(r)
  BY <1>1, <1>2, Zenon DEF RecoverySpec!Spend
<1> QED
  BY <1>3, Zenon DEF RecoverySpec!Next

\* The codes that are left when the account's factor is reset.
LEMMA DeletionWithdraws ==
    ASSUME unused \subseteq Codes, unused' = {}, uses' = uses, \A r \in unused : uses[r] = 0
    PROVE  RecoverySpec!Next
<1>1. \A r \in unused : recoveryState[r] = "live"
  BY Zenon DEF recoveryState
<1>2. recoveryState' = [r \in Codes |-> IF r \in unused THEN "void" ELSE recoveryState[r]]
  BY Zenon DEF recoveryState
<1>3. RecoverySpec!Withdraw(unused)
  BY <1>1, <1>2, Zenon DEF RecoverySpec!Withdraw
<1>4. unused \in SUBSET Codes
  BY Zenon
<1> QED
  BY <1>3, <1>4, Zenon DEF RecoverySpec!Next

\* MarkUsed spends a code, ResetMFA withdraws those that are left.
LEMMA RecoveryStep == ChallengeInv /\ [Next]_vars => [RecoverySpec!Next]_(RecoverySpec!vars)
<1> SUFFICES ASSUME ChallengeInv, [Next]_vars
             PROVE  RecoverySpec!Next \/ UNCHANGED RecoverySpec!vars
  BY Zenon
<1> USE DEF ChallengeInv, TypeOK, FactorInv
<1>1. ASSUME NEW p \in Procs, MarkUsed(p) PROVE RecoverySpec!Next
  BY <1>1, BurnSpends, Zenon DEF MarkUsed
<1>2. CASE ResetMFA
  BY <1>2, DeletionWithdraws, Zenon DEF ResetMFA
<1>3. CASE UNCHANGED <<unused, uses>>
  BY <1>3, Zenon DEF RecoverySpec!vars, recoveryState
<1> QED
  BY <1>1, <1>2, <1>3, Zenon DEF Next, Tick, IssueChallenge, Expire, PostChallenge, Decrement,
     DropChallenge, LoadChallenge, ChallengeExpired, ReadUser, AcceptTOTP, RejectTOTP,
     AdvanceTOTPCounter, ListUnused, RejectRecoveryCode, CompleteChallenge, Fail, vars,
     account, history

\* Challenge implements OneShot: a recovery code is spent in the step that
\* completes its login, and never comes back.
THEOREM RecoveryImplementsOneShot == Spec => RecoveryCodesAreOneShot
BY ChallengeInvariant, RecoveryInit, RecoveryStep, PTL
   DEF Spec, RecoveryCodesAreOneShot, RecoverySpec!Spec

-----------------------------------------------------------------------------
(* The attempts bound the verifications.  Only these proofs need the library *)
(* of finite sets.                                                          *)

FS == INSTANCE FiniteSetTheorems

\* The library's finite sets are those of FiniteSets.
LEMMA SameSets ==
  ASSUME NEW S
  PROVE  (FS!IsFiniteSet(S) <=> IsFiniteSet(S)) /\ FS!Cardinality(S) = Cardinality(S)
BY Zenon DEF IsFiniteSet, FS!IsFiniteSet, Cardinality, FS!Cardinality

\* Sets of requests are finite, and grow and shrink by one.
LEMMA Requests ==
    ASSUME NEW S \in SUBSET Procs, NEW p \in Procs
    PROVE  /\ Cardinality(S) \in Nat
           /\ p \notin S => Cardinality(S \cup {p}) = Cardinality(S) + 1
           /\ p \in S => Cardinality(S \ {p}) = Cardinality(S) - 1
<1>1. FS!IsFiniteSet(S)
  BY ChallengeAssumption, SameSets, FS!FS_Subset, Zenon
<1>2. /\ FS!Cardinality(S) \in Nat
      /\ p \notin S => FS!Cardinality(S \cup {p}) = FS!Cardinality(S) + 1
      /\ p \in S => FS!Cardinality(S \ {p}) = FS!Cardinality(S) - 1
  BY <1>1, FS!FS_CardinalityType, FS!FS_AddElement, FS!FS_RemoveElement, Zenon
<1> QED
  BY <1>2, SameSets, Zenon

\* No requests are counted as none.
LEMMA NoRequests == Cardinality({}) = 0
<1>1. FS!Cardinality({}) = 0
  BY FS!FS_EmptySet, Zenon
<1> QED
  BY <1>1, SameSets, Zenon

\* A set of verifying requests has a size, even if there are no requests at all.
LEMMA VerifyingSize == ASSUME NEW c PROVE Cardinality(Verifying(c)) \in Nat
<1>1. FS!IsFiniteSet(Verifying(c))
  BY SameSets, FS!FS_Subset, ChallengeAssumption, Zenon DEF Verifying
<1> QED
  BY <1>1, SameSets, FS!FS_CardinalityType, Zenon

\* No attempt has been taken at the beginning.
LEMMA AttemptsInit == Init => AttemptsInv
<1> SUFFICES ASSUME Init, NEW c \in Challenges
             PROVE  /\ tried[c] + Cardinality(Verifying(c))
                         + (IF left[c] > 0 THEN left[c] ELSE 0) <= Attempts
                    /\ c \notin issued => tried[c] = 0
  BY Zenon DEF AttemptsInv
<1>1. Verifying(c) = {}
  BY Zenon DEF Init, Verifying
<1> QED
  BY <1>1, NoRequests, ChallengeAssumption DEF Init

\* HINCRBY moves an attempt from the key to its request, and the verification
\* from the request to the count.
LEMMA AttemptsStep == ChallengeInv /\ AttemptsInv /\ [Next]_vars => AttemptsInv'
<1> SUFFICES ASSUME ChallengeInv, AttemptsInv, [Next]_vars, NEW c \in Challenges
             PROVE  /\ tried'[c] + Cardinality(Verifying(c)')
                         + (IF left'[c] > 0 THEN left'[c] ELSE 0) <= Attempts
                    /\ c \notin issued' => tried'[c] = 0
  BY Zenon DEF AttemptsInv
<1> DEFINE n == Cardinality(Verifying(c))
           Room(l) == IF l > 0 THEN l ELSE 0
           Goal == /\ tried'[c] + Cardinality(Verifying(c)') + Room(left'[c]) <= Attempts
                   /\ c \notin issued' => tried'[c] = 0
           Spared == left'[c] \in Int /\ Room(left'[c]) <= Room(left[c]) /\ issued \subseteq issued'
<1>0. /\ tried[c] \in Nat /\ n \in Nat /\ left[c] \in Int /\ Attempts \in Nat \ {0}
      /\ tried[c] + n + Room(left[c]) <= Attempts
      /\ c \notin issued => tried[c] = 0
  <2>1. n \in Nat
    BY VerifyingSize, Zenon
  <2> QED
    BY <2>1, ChallengeAssumption DEF AttemptsInv, ChallengeInv, TypeOK
<1>1. ASSUME Verifying(c)' = Verifying(c), tried'[c] = tried[c], Spared PROVE Goal
  BY <1>0, <1>1
<1>2. ASSUME NEW p \in Procs, p \in Verifying(c), Verifying(c)' = Verifying(c) \ {p},
             tried'[c] \in {tried[c], tried[c] + 1}, c \in issued, Spared
      PROVE  Goal
  <2>1. Cardinality(Verifying(c)') = n - 1
    BY <1>2, Requests, Zenon DEF Verifying
  <2> QED
    BY <1>0, <1>2, <2>1
<1> HIDE DEF n
<1>3. ASSUME NEW p \in Procs, Decrement(p), ch[p] = c, left[c] > 0 PROVE Goal
  <2>1. Verifying(c)' = Verifying(c) \cup {p} /\ p \notin Verifying(c)
    BY <1>3 DEF Decrement, Goto, Verifying, ChallengeInv, TypeOK
  <2>2. Cardinality(Verifying(c)') = n + 1
    BY <2>1, Requests, Zenon DEF Verifying, n
  <2>3. left'[c] = left[c] - 1 /\ tried' = tried /\ issued' = issued
    BY <1>3, Zenon DEF Decrement, OneLess, history, ChallengeInv, TypeOK
  <2> QED
    BY <1>0, <1>3, <2>2, <2>3
<1>4. ASSUME NEW p \in Procs,
             AcceptTOTP(p) \/ RejectTOTP(p) \/ ListUnused(p) \/ RejectRecoveryCode(p), ch[p] = c
      PROVE  Goal
  <2>1. p \in Verifying(c) /\ Verifying(c)' = Verifying(c) \ {p} /\ c \in issued
    BY <1>4, ChallengeAssumption DEF AcceptTOTP, RejectTOTP, ListUnused, RejectRecoveryCode,
       Goto,
       Return, locals, Verifying, ChallengeInv, TypeOK
  <2>2. tried'[c] = tried[c] + 1 /\ Spared
    BY <1>4, <1>0 DEF AcceptTOTP, RejectTOTP, ListUnused, RejectRecoveryCode, CountTry, keys,
       ChallengeInv, TypeOK
  <2> QED
    BY <1>2, <2>1, <2>2, Zenon
<1>5. ASSUME NEW p \in Procs, ChallengeExpired(p) \/ Fail(p), p \in Verifying(c) PROVE Goal
  <2>1. Verifying(c)' = Verifying(c) \ {p} /\ c \in issued
    BY <1>5, ChallengeAssumption DEF ChallengeExpired, Fail, Goto, Return, Verifying,
       ChallengeInv,
       TypeOK
  <2>2. tried'[c] = tried[c] /\ Spared
    BY <1>5, <1>0 DEF ChallengeExpired, Fail, keys, history
  <2> QED
    BY <1>2, <1>5, <2>1, <2>2, Zenon
<1>6. ASSUME IssueChallenge(c) PROVE Goal
  <2>1. \A p \in Procs : ch[p] = c => pc[p] = "idle"
    BY <1>6, Zenon DEF IssueChallenge, ChallengeInv
  <2>2. Verifying(c)' = {}
    BY <1>6, <2>1, Zenon DEF IssueChallenge, Verifying, locals
  <2>3. tried'[c] = 0 /\ left'[c] = Attempts /\ c \in issued'
    BY <1>6, <1>0, Zenon DEF IssueChallenge, history, ChallengeInv, TypeOK
  <2> QED
    BY <1>0, <2>2, <2>3, NoRequests
<1>7. ASSUME UNCHANGED vars \/ Tick \/ ResetMFA PROVE Goal
  <2>1. Verifying(c)' = Verifying(c) /\ tried'[c] = tried[c] /\ Spared
    BY <1>7, <1>0 DEF vars, Tick, ResetMFA, locals, keys, history, Verifying
  <2> QED
    BY <1>1, <2>1, Zenon
<1>8. ASSUME NEW d \in Challenges, Expire(d) \/ (IssueChallenge(d) /\ d # c) PROVE Goal
  <2>1. Verifying(c)' = Verifying(c) /\ tried'[c] = tried[c] /\ Spared
    BY <1>8, <1>0 DEF Expire, IssueChallenge, locals, history, Verifying, ChallengeInv, TypeOK
  <2> QED
    BY <1>1, <2>1, Zenon
<1>9. ASSUME NEW p \in Procs, PostChallenge(p) \/ LoadChallenge(p) \/ ReadUser(p)
             \/ AdvanceTOTPCounter(p) \/ MarkUsed(p)
      PROVE  Goal
  <2>1. Verifying(c)' = Verifying(c)
    BY <1>9 DEF PostChallenge, LoadChallenge, ReadUser, AdvanceTOTPCounter, MarkUsed, Goto,
       locals,
       Verifying, ChallengeInv, TypeOK
  <2>2. tried'[c] = tried[c] /\ Spared
    BY <1>9, <1>0 DEF PostChallenge, LoadChallenge, ReadUser, AdvanceTOTPCounter, MarkUsed,
       keys,
       history
  <2> QED
    BY <1>1, <2>1, <2>2, Zenon
<1>10. ASSUME NEW p \in Procs, DropChallenge(p) \/ CompleteChallenge(p) PROVE Goal
  <2>1. Verifying(c)' = Verifying(c)
    BY <1>10, ChallengeAssumption DEF DropChallenge, CompleteChallenge, Return, Goto, Verifying,
       ChallengeInv, TypeOK
  <2>2. tried'[c] = tried[c] /\ Spared
    BY <1>10, <1>0 DEF DropChallenge, CompleteChallenge, DelChallenge, history, ChallengeInv,
       TypeOK
  <2> QED
    BY <1>1, <2>1, <2>2, Zenon
<1>11. ASSUME NEW p \in Procs, Decrement(p), ch[p] # c \/ ~(left[c] > 0) PROVE Goal
  <2>1. Verifying(c)' = Verifying(c)
    BY <1>11 DEF Decrement, Goto, Verifying, ChallengeInv, TypeOK
  <2>2. tried'[c] = tried[c] /\ Spared
    BY <1>11, <1>0 DEF Decrement, OneLess, history, ChallengeInv, TypeOK
  <2> QED
    BY <1>1, <2>1, <2>2, Zenon
<1>12. ASSUME NEW p \in Procs, ch[p] # c,
              AcceptTOTP(p) \/ RejectTOTP(p) \/ ListUnused(p) \/ RejectRecoveryCode(p)
       PROVE  Goal
  <2>1. Verifying(c)' = Verifying(c)
    BY <1>12, ChallengeAssumption DEF AcceptTOTP, RejectTOTP, ListUnused, RejectRecoveryCode,
       Goto,
       Return, locals, Verifying, ChallengeInv, TypeOK
  <2>2. tried'[c] = tried[c] /\ Spared
    BY <1>12, <1>0 DEF AcceptTOTP, RejectTOTP, ListUnused, RejectRecoveryCode, CountTry, keys,
       ChallengeInv, TypeOK
  <2> QED
    BY <1>1, <2>1, <2>2, Zenon
<1>13. ASSUME NEW p \in Procs, ChallengeExpired(p) \/ Fail(p), p \notin Verifying(c) PROVE Goal
  <2>1. Verifying(c)' = Verifying(c)
    BY <1>13, ChallengeAssumption DEF ChallengeExpired, Fail, Goto, Return, Verifying,
       ChallengeInv,
       TypeOK
  <2>2. tried'[c] = tried[c] /\ Spared
    BY <1>13, <1>0 DEF ChallengeExpired, Fail, keys, history
  <2> QED
    BY <1>1, <2>1, <2>2, Zenon
<1> HIDE DEF Goal
<1>14. ASSUME NEW d \in Challenges, IssueChallenge(d) \/ Expire(d) PROVE Goal
  BY <1>6, <1>8, <1>14, Zenon
<1>15. ASSUME NEW p \in Procs, Decrement(p) \/ ChallengeExpired(p) \/ Fail(p) PROVE Goal
  BY <1>3, <1>5, <1>11, <1>13, <1>15, Zenon
<1>16. ASSUME NEW p \in Procs,
              AcceptTOTP(p) \/ RejectTOTP(p) \/ ListUnused(p) \/ RejectRecoveryCode(p)
       PROVE  Goal
  BY <1>4, <1>12, <1>16, Zenon
<1>17. Goal
  BY <1>7, <1>9, <1>10, <1>14, <1>15, <1>16, Zenon DEF Next
<1> QED
  BY <1>17, Zenon DEF Goal

\* However many requests use a challenge at a time, it verifies at most
\* Attempts codes.
THEOREM AttemptsBound == Spec => []AttemptsBounded
<1>1. Spec => []AttemptsInv
  BY ChallengeInvariant, AttemptsInit, AttemptsStep, PTL DEF Spec
<1>2. ChallengeInv /\ AttemptsInv => AttemptsBounded
  <2> SUFFICES ASSUME ChallengeInv, AttemptsInv, NEW c \in Challenges PROVE tried[c] <= Attempts
    BY Zenon DEF AttemptsBounded
  <2>1. Cardinality(Verifying(c)) \in Nat
    BY VerifyingSize, Zenon
  <2> QED
    BY <2>1, ChallengeAssumption DEF AttemptsInv, ChallengeInv, TypeOK
<1> QED
  BY <1>1, <1>2, ChallengeInvariant, PTL

=============================================================================
