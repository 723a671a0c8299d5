--------------------------- MODULE EnrollmentProofs ---------------------------
(***************************************************************************)
(* Proofs about Enrollment, for any number of requests, tokens, secrets    *)
(* and attempts.  The parts of EnrollmentInv are kept one after the other; *)
(* most steps change nothing that a part is about.                         *)
(***************************************************************************)
EXTENDS Enrollment, TLAPS

LOCAL Kept(q) ==
    /\ pc'[q] = pc[q] /\ tok'[q] = tok[q] /\ sec'[q] = sec[q] /\ set'[q] = set[q]
    /\ dels'[q] = dels[q]

LOCAL Moved(p, label) == pc'[p] = label /\ \A q \in Procs : q # p => Kept(q)

\* The steps of a request that write nothing but its own step and dels.
LOCAL Quiet(p) ==
    \/ PostLogin(p) \/ ResolveSession(p) \/ CheckNotEnrolled(p) \/ ResetMFA(p)
    \/ DeleteAllForUser(p) \/ RowsDeleted(p) \/ Reject(p)

\* No token is issued, and nothing is stored.
LEMMA EnrollmentInit == Init => EnrollmentInv
<1> SUFFICES ASSUME Init PROVE EnrollmentInv
  BY Zenon
<1>1. TypeOK
  BY EnrollmentAssumption, Zenon DEF Init, TypeOK, MaybeSecret, Steps
<1>2. VerifiedInv /\ TokenInv
  BY Zenon DEF Init, VerifiedInv, TokenInv, OnlyVerified, ClosedForGood, WithToken
<1>3. InsertInv /\ ResetInv
  BY Zenon DEF Init, InsertInv, ResetInv, CodesInsertedOnce, CodesFollowEnrollment, Inserted
<1>4. CountInv
  BY EnrollmentAssumption DEF Init, CountInv, AttemptsBounded
<1> QED
  BY <1>1, <1>2, <1>3, <1>4, Zenon DEF EnrollmentInv

\* Types, for the steps that write the stored values.
LEMMA EnrollmentType == ASSUME EnrollmentInv, [Next]_vars PROVE TypeOK'
<1> USE EnrollmentAssumption DEF TypeOK, MaybeSecret, Steps, Goto, Return, account, key, locals, history
<1>a. TypeOK /\ TokenInv
  BY Zenon DEF EnrollmentInv
<1>1. ASSUME NEW t \in Tokens, Expire(t) PROVE TypeOK'
  BY <1>1, <1>a, Zenon DEF Expire, Wipe
<1>2. ASSUME NEW p \in Procs, Quiet(p) PROVE TypeOK'
  BY <1>2, <1>a DEF Quiet, PostLogin, ResolveSession, CheckNotEnrolled, ResetMFA,
                    DeleteAllForUser, RowsDeleted, Reject, vars
<1>3. ASSUME NEW p \in Procs, OpenToken(p) PROVE TypeOK'
  BY <1>3, <1>a DEF OpenToken
<1>4. ASSUME NEW p \in Procs, NEW t \in Tokens, ResolveEnrollPrincipal(p, t) PROVE TypeOK'
  BY <1>4, <1>a DEF ResolveEnrollPrincipal
<1>5. ASSUME NEW p \in Procs, HSetSecret(p) PROVE TypeOK'
  BY <1>5, <1>a DEF HSetSecret, TokenInv, WithToken
<1>6. ASSUME NEW p \in Procs, NEW t \in Tokens, HIncrBy(p, t) PROVE TypeOK'
  <2>1. tries' \in [Tokens -> Nat]
    BY <1>6, <1>a DEF HIncrBy
  <2>2. \E label \in Steps : pc' = [pc EXCEPT ![p] = label]
    BY <1>6, Zenon DEF HIncrBy
  <2> QED
    BY <1>6, <1>a, <2>1, <2>2, Zenon DEF HIncrBy
<1>7. ASSUME NEW p \in Procs, DropKey(p) \/ DelKey(p) PROVE TypeOK'
  <2>1. tok[p] \in Tokens
    BY <1>7, <1>a DEF DropKey, DelKey, TokenInv, WithToken
  <2>2. Wipe(tok[p]) => /\ user' \subseteq Tokens /\ secret' \in [Tokens -> MaybeSecret]
                        /\ hashes' \in [Tokens -> MaybeSecret] /\ tries' \in [Tokens -> Nat]
                        /\ closed' \subseteq Tokens
    BY <1>a, <2>1 DEF Wipe
  <2>3. Wipe(tok[p]) /\ Return(p)
    BY <1>7, Zenon DEF DropKey, DelKey
  <2>4. UNCHANGED <<totp, codes, issued, home, inserted, verified, restarted, raced, again, kept, checks>>
    BY <1>7, Zenon DEF DropKey, DelKey
  <2> QED
    BY <1>a, <2>2, <2>3, <2>4, Zenon
<1>8. ASSUME NEW p \in Procs, ValidateTOTP(p) PROVE TypeOK'
  BY <1>8, <1>a DEF ValidateTOTP, Check, TokenInv, WithToken
<1>9. ASSUME NEW p \in Procs, InvalidCode(p) PROVE TypeOK'
  BY <1>9, <1>a DEF InvalidCode, Check, TokenInv, WithToken
<1>10. ASSUME NEW p \in Procs, HSetHashes(p) PROVE TypeOK'
  BY <1>10, <1>a, Zenon DEF HSetHashes
<1>11. ASSUME NEW p \in Procs, NEW t \in Tokens, HGetAll(p, t) PROVE TypeOK'
  BY <1>11, <1>a DEF HGetAll
<1>12. ASSUME NEW p \in Procs, SetTOTPEnrolled(p) PROVE TypeOK'
  BY <1>12, <1>a DEF SetTOTPEnrolled, TokenInv, Rows
<1>13. ASSUME NEW p \in Procs, ClearTOTP(p) PROVE TypeOK'
  BY <1>13, <1>a DEF ClearTOTP
<1>14. ASSUME NEW p \in Procs, Fail(p) PROVE TypeOK'
  BY <1>14, <1>a DEF Fail, TokenInv, WithToken
<1>15. CASE UNCHANGED vars
  BY <1>15, <1>a DEF vars
<1> QED
  BY <1>1, <1>2, <1>3, <1>4, <1>5, <1>6, <1>7, <1>8, <1>9, <1>10, <1>11, <1>12, <1>13, <1>14,
     <1>15, Zenon DEF Next, Request, Quiet

\* What a step leaves of the requests.
LEMMA Moves ==
  ASSUME TypeOK, NEW p \in Procs, NEW label, Goto(p, label),
         tok' = tok \/ (\E x : tok' = [tok EXCEPT ![p] = x]),
         sec' = sec \/ (\E x : sec' = [sec EXCEPT ![p] = x]),
         set' = set \/ (\E x : set' = [set EXCEPT ![p] = x]),
         dels' = dels \/ (\E x : dels' = [dels EXCEPT ![p] = x])
  PROVE  Moved(p, label)
BY DEF TypeOK, Goto, Moved, Kept

\* A request that returns is idle, and the others stay as they are.
LEMMA Returns ==
  ASSUME TypeOK, NEW p \in Procs, Return(p)
  PROVE  Moved(p, "idle")
BY Moves, Zenon DEF Return

\* A quiet step is neither to nor from a step with a secret in hand, and writes
\* nothing that others read.
LEMMA QuietStep ==
  ASSUME TypeOK, NEW p \in Procs, Quiet(p)
  PROVE  /\ \A q \in Procs : q # p => Kept(q)
         /\ tok' = tok /\ sec' = sec /\ set' = set
         /\ UNCHANGED <<totp, codes, issued, user, secret, hashes, tries>>
         /\ UNCHANGED <<home, inserted, verified, restarted, raced, again, kept, closed, checks>>
         /\ {pc[p], pc'[p]} \cap {"validate", "hashes", "enroll", "clean"} = {}
         /\ pc'[p] \in WithToken => pc[p] \in WithToken
<1>1. /\ tok' = tok /\ sec' = sec /\ set' = set
      /\ UNCHANGED <<totp, codes, issued, user, secret, hashes, tries>>
      /\ UNCHANGED <<home, inserted, verified, restarted, raced, again, kept, closed, checks>>
  BY Zenon DEF Quiet, PostLogin, ResolveSession, CheckNotEnrolled, ResetMFA, DeleteAllForUser,
         RowsDeleted, Reject, vars, account, key, locals, history
<1>2. dels' = dels \/ \E x : dels' = [dels EXCEPT ![p] = x]
  BY Zenon DEF Quiet, PostLogin, ResolveSession, CheckNotEnrolled, ResetMFA, DeleteAllForUser,
         RowsDeleted, Reject, vars, account, key, locals, history
<1>3. PICK label : /\ pc' = [pc EXCEPT ![p] = label]
                   /\ {pc[p], label} \cap {"validate", "hashes", "enroll", "clean"} = {}
                   /\ label \in WithToken => pc[p] \in WithToken
  <2>1. CASE Reject(p)
    <3>1. pc' = [pc EXCEPT ![p] = "idle"] /\ pc[p] = "idle"
      BY <2>1, Zenon DEF Reject, vars, TypeOK
    <3> QED
      BY <3>1, Zenon DEF WithToken
  <2>2. CASE CheckNotEnrolled(p)
    BY <2>2, Zenon DEF CheckNotEnrolled, Goto, WithToken
  <2>3. CASE PostLogin(p) \/ ResolveSession(p) \/ ResetMFA(p)
    BY <2>3, Zenon DEF PostLogin, ResolveSession, ResetMFA, Goto, WithToken
  <2>4. CASE DeleteAllForUser(p) \/ RowsDeleted(p)
    BY <2>4, Zenon DEF DeleteAllForUser, RowsDeleted, Goto, WithToken
  <2> QED
    BY <2>1, <2>2, <2>3, <2>4, Zenon DEF Quiet
<1>4. Moved(p, label)
  BY <1>1, <1>2, <1>3, Moves, Zenon DEF Goto
<1> QED
  BY <1>1, <1>3, <1>4, Zenon DEF Moved

\* What was verified stays so while hashes and secrets are kept or wiped.
LEMMA VerifiedFrame ==
  ASSUME EnrollmentInv, totp' = totp \/ totp' = NoSecret, verified' = verified, restarted' = restarted,
         \A t \in Tokens : \/ secret'[t] = secret[t] /\ hashes'[t] = hashes[t]
                           \/ secret'[t] = NoSecret /\ hashes'[t] = NoSecret,
         \A q \in Procs : pc'[q] \in {"hashes", "enroll"} => Kept(q)
  PROVE  VerifiedInv'
<1>1. VerifiedInv /\ \A q \in Procs : pc[q] = "hashes" => tok[q] \in Tokens
  BY Zenon DEF EnrollmentInv, TokenInv, TypeOK, WithToken
<1>2. \A t \in Tokens : Accounted(t) => Accounted(t)'
  BY Zenon DEF Accounted
<1>3. OnlyVerified'
  BY <1>1, Zenon DEF VerifiedInv, OnlyVerified
<1>4. \A t \in Tokens : hashes'[t] # NoSecret => Accounted(t)' /\ hashes'[t] \in verified'
  BY <1>1, <1>2, Zenon DEF VerifiedInv
<1>5. ASSUME NEW q \in Procs
      PROVE  /\ pc'[q] = "hashes" => Accounted(tok[q])' /\ sec'[q] \in verified'
             /\ pc'[q] = "enroll" => sec'[q] \in verified' \cup restarted' /\ set'[q] \in verified'
  BY <1>1, <1>2 DEF VerifiedInv, Kept, Accounted
<1> QED
  BY <1>3, <1>4, <1>5, Zenon DEF VerifiedInv

\* A hash that is deleted or expires takes its fields along, and no other.
LEMMA Wipes ==
  ASSUME TypeOK, NEW t \in Tokens, Wipe(t)
  PROVE  /\ user' = user \ {t} /\ closed' = closed \cup {t}
         /\ secret'[t] = NoSecret /\ hashes'[t] = NoSecret /\ tries'[t] = 0
         /\ \A u \in Tokens : u # t => /\ secret'[u] = secret[u] /\ hashes'[u] = hashes[u]
                                       /\ tries'[u] = tries[u]
BY Zenon DEF TypeOK, Wipe

\* The secret of an enrolled account is accounted for, across every step.
LEMMA VerifiedStep == ASSUME EnrollmentInv, [Next]_vars PROVE VerifiedInv'
<1>a. TypeOK /\ VerifiedInv /\ TokenInv
  BY Zenon DEF EnrollmentInv
<1>b. \A q \in Procs : pc[q] \in WithToken => tok[q] \in Tokens
  BY <1>a, Zenon DEF TypeOK, TokenInv
<1>1. ASSUME NEW t \in Tokens, Expire(t) PROVE VerifiedInv'
  <2>1. Wipe(t) /\ UNCHANGED <<totp, pc, tok, sec, set, dels, verified, restarted>>
    BY <1>1, Zenon DEF Expire, account, locals
  <2> QED
    BY <1>a, <2>1, Wipes, VerifiedFrame, Zenon DEF Kept
<1>2. ASSUME NEW p \in Procs, Quiet(p) PROVE VerifiedInv'
  BY <1>2, <1>a, QuietStep, VerifiedFrame, Zenon
<1>3. ASSUME NEW p \in Procs, OpenToken(p) PROVE VerifiedInv'
  <2>1. UNCHANGED <<totp, secret, hashes, verified, restarted>>
    BY <1>3, Zenon DEF OpenToken, account, history
  <2>2. Moved(p, "idle") \/ Moved(p, "check")
    BY <1>3, <1>a, Moves, Returns, Zenon DEF OpenToken
  <2> QED
    BY <2>1, <2>2, VerifiedFrame, Zenon DEF Moved
<1>4. ASSUME NEW p \in Procs, NEW t \in Tokens, ResolveEnrollPrincipal(p, t) \/ HIncrBy(p, t)
      PROVE  VerifiedInv'
  <2>1. UNCHANGED <<totp, secret, hashes, verified, restarted>>
    BY <1>4, Zenon DEF ResolveEnrollPrincipal, HIncrBy, account, key, history
  <2>2. \E label \in {"check", "drop", "validate"} : Moved(p, label)
    BY <1>4, <1>a, Moves, Zenon DEF ResolveEnrollPrincipal, HIncrBy
  <2> QED
    BY <2>1, <2>2, VerifiedFrame, Zenon DEF Moved
<1>5. ASSUME NEW p \in Procs, DropKey(p) \/ DelKey(p) PROVE VerifiedInv'
  <2>1. Wipe(tok[p]) /\ UNCHANGED <<totp, verified, restarted>> /\ Return(p) /\ tok[p] \in Tokens
    BY <1>5, <1>b, Zenon DEF DropKey, DelKey, account, WithToken
  <2> QED
    BY <1>a, <2>1, Wipes, Returns, VerifiedFrame, Zenon DEF Moved
<1>6. ASSUME NEW p \in Procs, InvalidCode(p) \/ ClearTOTP(p) \/ Fail(p) PROVE VerifiedInv'
  <2>1. /\ totp' = totp \/ totp' = NoSecret
        /\ UNCHANGED <<secret, hashes, verified, restarted>> /\ Return(p)
    BY <1>6, Zenon DEF InvalidCode, ClearTOTP, Fail, account, key, history
  <2> QED
    BY <1>a, <2>1, Returns, VerifiedFrame, Zenon DEF Moved
<1>7. ASSUME NEW p \in Procs, HSetSecret(p) PROVE VerifiedInv'
  <2>1. UNCHANGED <<totp, hashes, verified>> /\ Moved(p, "idle") /\ pc[p] = "secret"
    BY <1>7, <1>a, Returns, Zenon DEF HSetSecret, account
  <2>2. PICK s \in Secrets : /\ secret' = [secret EXCEPT ![tok[p]] = s]
                             /\ restarted' = IF Verifying(tok[p]) THEN restarted \cup {s} ELSE restarted
    BY <1>7, Zenon DEF HSetSecret
  <2>3. \A t \in Tokens : Verifying(t) /\ Accounted(t) => Accounted(t)'
    BY <1>a, <2>1, <2>2, Zenon DEF Accounted, TypeOK
  <2>4. restarted \subseteq restarted'
    BY <2>2, Zenon
  <2>5. ASSUME NEW q \in Procs, pc'[q] \in {"hashes", "enroll"} PROVE q # p /\ Kept(q)
    BY <2>1, <2>5, Zenon DEF Moved
  <2>6. ASSUME NEW q \in Procs, pc'[q] = "hashes" PROVE Accounted(tok[q])' /\ sec'[q] \in verified'
    <3>1. /\ pc[q] = "hashes" /\ tok'[q] = tok[q] /\ sec'[q] = sec[q] /\ tok[q] \in Tokens
      BY <1>b, <2>5, <2>6, Zenon DEF Kept, WithToken
    <3>2. Accounted(tok[q]) /\ Verifying(tok[q]) /\ sec[q] \in verified
      BY <1>a, <3>1, Zenon DEF VerifiedInv, Verifying
    <3> QED
      BY <2>1, <2>3, <3>1, <3>2, Zenon DEF Accounted
  <2>7. \A t \in Tokens : hashes'[t] # NoSecret => Accounted(t)' /\ hashes'[t] \in verified'
    BY <1>a, <2>1, <2>3, Zenon DEF VerifiedInv, Verifying
  <2>8. ASSUME NEW q \in Procs, pc'[q] = "enroll"
        PROVE  sec'[q] \in verified' \cup restarted' /\ set'[q] \in verified'
    BY <1>a, <2>1, <2>4, <2>5, <2>8, Zenon DEF VerifiedInv, Kept
  <2>9. OnlyVerified'
    BY <1>a, <2>1, <2>4, Zenon DEF VerifiedInv, OnlyVerified
  <2> QED
    BY <2>6, <2>7, <2>8, <2>9, Zenon DEF VerifiedInv
<1>8. ASSUME NEW p \in Procs, ValidateTOTP(p) PROVE VerifiedInv'
  <2>1. /\ UNCHANGED <<totp, hashes, secret, restarted, tok, set>> /\ verified' = verified \cup {secret[tok[p]]}
        /\ sec' = [sec EXCEPT ![p] = secret[tok[p]]] /\ Goto(p, "hashes") /\ dels' = dels
        /\ pc[p] = "validate"
    BY <1>8, Zenon DEF ValidateTOTP, account, key
  <2>2. Moved(p, "hashes") /\ sec'[p] = secret[tok[p]]
    <3>1. Moved(p, "hashes")
      BY <1>a, <2>1, Moves, Zenon
    <3> QED
      BY <1>a, <2>1, <3>1 DEF TypeOK
  <2>3. \A t : Accounted(t) => Accounted(t)'
    BY <2>1, Zenon DEF Accounted
  <2>4. ASSUME NEW q \in Procs
        PROVE  /\ pc'[q] = "hashes" => Accounted(tok[q])' /\ sec'[q] \in verified'
               /\ pc'[q] = "enroll" => sec'[q] \in verified' \cup restarted' /\ set'[q] \in verified'
    <3>1. CASE q = p
      <4>1. secret'[tok'[p]] \in verified' /\ sec'[p] \in verified' /\ pc'[p] = "hashes"
        BY <2>1, <2>2 DEF Moved
      <4> QED
        BY <3>1, <4>1, Zenon DEF Accounted
    <3>2. CASE q # p
      <4>1. Kept(q)
        BY <2>2, <3>2, Zenon DEF Moved
      <4>2. pc[q] = "hashes" => Accounted(tok[q])'
        BY <1>a, <2>3, <4>1, <2>1, Zenon DEF VerifiedInv, Accounted
      <4> QED
        BY <1>a, <2>1, <4>1, <4>2 DEF VerifiedInv, Kept
    <3> QED
      BY <3>1, <3>2, Zenon
  <2>5. OnlyVerified' /\ \A t \in Tokens : hashes'[t] # NoSecret => Accounted(t)' /\ hashes'[t] \in verified'
    BY <1>a, <2>1, <2>3, Zenon DEF VerifiedInv, OnlyVerified
  <2> QED
    BY <2>4, <2>5, Zenon DEF VerifiedInv
<1>9. ASSUME NEW p \in Procs, HSetHashes(p) PROVE VerifiedInv'
  <2>1. /\ UNCHANGED <<totp, secret, restarted, verified>> /\ Moved(p, "idle")
        /\ hashes' = [hashes EXCEPT ![tok[p]] = sec[p]] /\ pc[p] = "hashes"
    BY <1>9, <1>a, Returns, Zenon DEF HSetHashes, account, history
  <2>2. ASSUME NEW t \in Tokens, hashes'[t] # NoSecret PROVE Accounted(t)' /\ hashes'[t] \in verified'
    <3>1. CASE t = tok[p]
      BY <1>a, <2>1, <3>1 DEF VerifiedInv, Accounted, TypeOK
    <3>2. CASE t # tok[p]
      BY <1>a, <2>1, <2>2, <3>2 DEF VerifiedInv, Accounted, TypeOK
    <3> QED
      BY <3>1, <3>2, Zenon
  <2>3. ASSUME NEW q \in Procs
        PROVE  /\ pc'[q] = "hashes" => Accounted(tok[q])' /\ sec'[q] \in verified'
               /\ pc'[q] = "enroll" => sec'[q] \in verified' \cup restarted' /\ set'[q] \in verified'
    BY <1>a, <2>1, Zenon DEF VerifiedInv, Accounted, Moved, Kept
  <2>4. OnlyVerified'
    BY <1>a, <2>1, Zenon DEF VerifiedInv, OnlyVerified
  <2> QED
    BY <2>2, <2>3, <2>4, Zenon DEF VerifiedInv
<1>10. ASSUME NEW p \in Procs, NEW t \in Tokens, HGetAll(p, t) PROVE VerifiedInv'
  <2>1. /\ UNCHANGED <<totp, secret, hashes, restarted, verified>> /\ Goto(p, "enroll") /\ dels' = dels
        /\ secret[t] # NoSecret /\ hashes[t] # NoSecret /\ tok' = [tok EXCEPT ![p] = t]
        /\ sec' = [sec EXCEPT ![p] = secret[t]] /\ set' = [set EXCEPT ![p] = hashes[t]]
    BY <1>10, Zenon DEF HGetAll, account, key
  <2>2. Moved(p, "enroll")
    BY <1>a, <2>1, Moves, Zenon
  <2>3. sec'[p] = secret[t] /\ set'[p] = hashes[t]
    BY <1>a, <2>1 DEF TypeOK
  <2>4. secret[t] \in verified \cup restarted /\ hashes[t] \in verified
    BY <1>a, <2>1, Zenon DEF VerifiedInv, Accounted
  <2>5. ASSUME NEW q \in Procs
        PROVE  /\ pc'[q] = "hashes" => Accounted(tok[q])' /\ sec'[q] \in verified'
               /\ pc'[q] = "enroll" => sec'[q] \in verified' \cup restarted' /\ set'[q] \in verified'
    <3>1. CASE q = p
      BY <2>1, <2>2, <2>3, <2>4, <3>1 DEF Moved
    <3>2. CASE q # p
      BY <1>a, <2>1, <2>2, <3>2 DEF VerifiedInv, Accounted, Moved, Kept
    <3> QED
      BY <3>1, <3>2, Zenon
  <2>6. OnlyVerified' /\ \A u \in Tokens : hashes'[u] # NoSecret => Accounted(u)' /\ hashes'[u] \in verified'
    BY <1>a, <2>1, Zenon DEF VerifiedInv, OnlyVerified, Accounted
  <2> QED
    BY <2>5, <2>6, Zenon DEF VerifiedInv
<1>11. ASSUME NEW p \in Procs, SetTOTPEnrolled(p) PROVE VerifiedInv'
  <2>1. /\ pc[p] = "enroll" /\ totp' = sec[p] /\ Goto(p, "clean")
        /\ UNCHANGED <<secret, hashes, restarted, verified, tok, sec, set, dels>>
    BY <1>11, Zenon DEF SetTOTPEnrolled, key, locals
  <2>2. Moved(p, "clean")
    BY <1>a, <2>1, Moves, Zenon
  <2>3. OnlyVerified'
    BY <1>a, <2>1, Zenon DEF VerifiedInv, OnlyVerified
  <2>4. \A u : Accounted(u) => Accounted(u)'
    BY <2>1, Zenon DEF Accounted
  <2>5. ASSUME NEW q \in Procs
        PROVE  /\ pc'[q] = "hashes" => Accounted(tok[q])' /\ sec'[q] \in verified'
               /\ pc'[q] = "enroll" => sec'[q] \in verified' \cup restarted' /\ set'[q] \in verified'
    BY <1>a, <2>1, <2>2 DEF VerifiedInv, Accounted, Moved, Kept
  <2> QED
    BY <1>a, <2>1, <2>3, <2>4, <2>5, Zenon DEF VerifiedInv
<1>12. CASE UNCHANGED vars
  BY <1>12, VerifiedFrame, Zenon DEF vars, account, key, locals, history, Kept
<1> QED
  BY <1>1, <1>2, <1>3, <1>4, <1>5, <1>6, <1>7, <1>8, <1>9, <1>10, <1>11, <1>12, Zenon
     DEF Next, Request, Quiet

\* Tokens, across a step that issues none and generates no secret.
LEMMA TokenFrame ==
  ASSUME EnrollmentInv, UNCHANGED <<issued, home>>, user' \subseteq user,
         closed' \subseteq issued, closed' \cap user' = {},
         \A t \in issued : /\ secret'[t] = secret[t] \/ secret'[t] = NoSecret
                           /\ hashes'[t] = hashes[t] \/ hashes'[t] = NoSecret,
         \A t \in Tokens \ issued :
           secret'[t] = secret[t] /\ hashes'[t] = hashes[t] /\ tries'[t] = tries[t],
         \A q \in Procs : Kept(q) \/ pc'[q] \notin WithToken
  PROVE  TokenInv'
<1>1. TokenInv
  BY Zenon DEF EnrollmentInv
<1>2. ClosedForGood' /\ user' \subseteq issued' /\ closed' \subseteq issued'
  BY <1>1, Zenon DEF TokenInv, ClosedForGood
<1>3. ASSUME NEW t \in Tokens
      PROVE  /\ t \notin issued' => tries'[t] = 0 /\ secret'[t] = NoSecret /\ hashes'[t] = NoSecret
             /\ secret'[t] # NoSecret => home'[secret'[t]] = t
             /\ hashes'[t] # NoSecret => home'[hashes'[t]] = t
  BY <1>1 DEF TokenInv
<1>4. "hashes" \in WithToken /\ {"enroll", "clean"} \subseteq WithToken
  BY Zenon DEF WithToken
<1>5. ASSUME NEW q \in Procs
      PROVE  /\ pc'[q] \in WithToken => tok'[q] \in issued'
             /\ pc'[q] = "hashes" => sec'[q] # NoSecret /\ home'[sec'[q]] = tok'[q]
             /\ pc'[q] \in {"enroll", "clean"} => set'[q] # NoSecret /\ home'[set'[q]] = tok'[q]
  <2>1. CASE Kept(q)
    BY <1>1, <2>1 DEF TokenInv, Kept
  <2>2. CASE pc'[q] \notin WithToken
    BY <1>4, <2>2, Zenon
  <2> QED
    BY <2>1, <2>2, Zenon
<1> QED
  BY <1>2, <1>3, <1>5, Zenon DEF TokenInv

\* Tokens and what belongs to them, across every step.
LEMMA TokenStep == ASSUME EnrollmentInv, [Next]_vars PROVE TokenInv'
<1>a. TypeOK /\ TokenInv
  BY Zenon DEF EnrollmentInv
<1>b. \A q \in Procs : pc[q] \in WithToken => tok[q] \in issued /\ tok[q] \in Tokens
  BY <1>a, Zenon DEF TypeOK, TokenInv
<1>c. "idle" \notin WithToken /\ closed \subseteq issued /\ closed \cap user = {} /\ issued \subseteq Tokens
  BY <1>a DEF TypeOK, TokenInv, ClosedForGood, WithToken
<1>1. ASSUME NEW t \in Tokens, Expire(t) PROVE TokenInv'
  <2>1. Wipe(t) /\ UNCHANGED <<issued, home, pc, tok, sec, set, dels>>
    BY <1>1, Zenon DEF Expire, locals
  <2>2. t \in issued
    BY <1>1, <1>a, Zenon DEF Expire, TokenInv
  <2>3. closed' \subseteq issued /\ closed' \cap user' = {} /\ user' \subseteq user
    BY <1>a, <1>c, <2>1, <2>2, Wipes
  <2>4. /\ secret'[t] = NoSecret /\ hashes'[t] = NoSecret
        /\ \A u \in Tokens : u # t => /\ secret'[u] = secret[u] /\ hashes'[u] = hashes[u]
                                      /\ tries'[u] = tries[u]
    BY <1>a, <2>1, Wipes, Zenon
  <2>5. \A q \in Procs : Kept(q)
    BY <2>1, Zenon DEF Kept
  <2>6. \A u \in issued : /\ secret'[u] = secret[u] \/ secret'[u] = NoSecret
                          /\ hashes'[u] = hashes[u] \/ hashes'[u] = NoSecret
    BY <1>c, <2>4, Zenon
  <2> QED
    BY <2>1, <2>2, <2>3, <2>4, <2>5, <2>6, TokenFrame, Zenon
<1>2. ASSUME NEW p \in Procs, Quiet(p) PROVE TokenInv'
  <2>1. /\ \A q \in Procs : q # p => Kept(q)
        /\ tok' = tok /\ sec' = sec /\ set' = set
        /\ UNCHANGED <<issued, user, secret, hashes, tries, home, closed>>
        /\ {pc[p], pc'[p]} \cap {"validate", "hashes", "enroll", "clean"} = {}
        /\ pc'[p] \in WithToken => pc[p] \in WithToken
    BY <1>2, <1>a, QuietStep, Zenon
  <2>2. ASSUME NEW q \in Procs
        PROVE  /\ pc'[q] \in WithToken => tok'[q] \in issued'
               /\ pc'[q] = "hashes" => sec'[q] # NoSecret /\ home'[sec'[q]] = tok'[q]
               /\ pc'[q] \in {"enroll", "clean"} => set'[q] # NoSecret /\ home'[set'[q]] = tok'[q]
    <3>1. CASE q = p
      BY <1>b, <2>1, <3>1, Zenon
    <3>2. CASE q # p
      BY <1>a, <2>1, <3>2 DEF TokenInv, Kept
    <3> QED
      BY <3>1, <3>2, Zenon
  <2> QED
    BY <1>a, <2>1, <2>2 DEF TokenInv, ClosedForGood
<1>3. ASSUME NEW p \in Procs, DropKey(p) \/ DelKey(p) PROVE TokenInv'
  <2>1. Wipe(tok[p]) /\ UNCHANGED <<issued, home>> /\ Return(p) /\ tok[p] \in issued
    BY <1>3, <1>b, Zenon DEF DropKey, DelKey, WithToken
  <2>2. closed' \subseteq issued /\ closed' \cap user' = {} /\ user' \subseteq user
    BY <1>a, <1>c, <2>1, Wipes
  <2> QED
    BY <1>a, <1>c, <2>1, <2>2, Wipes, Returns, TokenFrame, Zenon DEF Moved
<1>4. ASSUME NEW p \in Procs, InvalidCode(p) \/ ClearTOTP(p) \/ Fail(p) PROVE TokenInv'
  <2>1. UNCHANGED <<issued, user, secret, hashes, tries, home, closed>> /\ Return(p)
    BY <1>4, Zenon DEF InvalidCode, ClearTOTP, Fail, key, history
  <2> QED
    BY <1>a, <1>c, <2>1, Returns, TokenFrame, Zenon DEF Moved
<1>5. ASSUME NEW p \in Procs, HSetHashes(p) PROVE TokenInv'
  <2>1. /\ UNCHANGED <<issued, user, secret, tries, home, closed>> /\ Moved(p, "idle")
        /\ hashes' = [hashes EXCEPT ![tok[p]] = sec[p]] /\ pc[p] = "hashes"
    BY <1>5, <1>a, Returns, Zenon DEF HSetHashes, history
  <2>2. tok[p] \in issued /\ home[sec[p]] = tok[p]
    BY <1>a, <2>1, Zenon DEF TokenInv, WithToken
  <2>3. ASSUME NEW t \in Tokens
        PROVE  /\ t \notin issued => tries'[t] = 0 /\ secret'[t] = NoSecret /\ hashes'[t] = NoSecret
               /\ secret'[t] # NoSecret => home'[secret'[t]] = t
               /\ hashes'[t] # NoSecret => home'[hashes'[t]] = t
    BY <1>a, <2>1, <2>2 DEF TokenInv, TypeOK
  <2>4. ASSUME NEW q \in Procs
        PROVE  /\ pc'[q] \in WithToken => tok'[q] \in issued'
               /\ pc'[q] = "hashes" => sec'[q] # NoSecret /\ home'[sec'[q]] = tok'[q]
               /\ pc'[q] \in {"enroll", "clean"} => set'[q] # NoSecret /\ home'[set'[q]] = tok'[q]
    BY <1>a, <1>c, <2>1 DEF TokenInv, Moved, Kept
  <2> QED
    BY <1>a, <2>1, <2>3, <2>4, Zenon DEF TokenInv, ClosedForGood
<1>6. ASSUME NEW p \in Procs, OpenToken(p) PROVE TokenInv'
  <2>1. PICK t \in Tokens \ issued :
          /\ issued' = issued \cup {t} /\ user' = user \cup {t}
          /\ \/ Return(p)
             \/ tok' = [tok EXCEPT ![p] = t] /\ Goto(p, "check") /\ UNCHANGED <<sec, set, dels>>
    BY <1>6, Zenon DEF OpenToken
  <2>2. UNCHANGED <<secret, hashes, tries, home, closed>>
    BY <1>6, Zenon DEF OpenToken, history
  <2>3. Moved(p, "idle") \/ (Moved(p, "check") /\ tok'[p] = t)
    <3>1. CASE Return(p)
      BY <1>a, <3>1, Returns, Zenon
    <3>2. CASE tok' = [tok EXCEPT ![p] = t] /\ Goto(p, "check") /\ UNCHANGED <<sec, set, dels>>
      BY <1>a, <3>2, Moves, Zenon DEF TypeOK
    <3> QED
      BY <2>1, <3>1, <3>2, Zenon
  <2>4. ASSUME NEW q \in Procs
        PROVE  /\ pc'[q] \in WithToken => tok'[q] \in issued'
               /\ pc'[q] = "hashes" => sec'[q] # NoSecret /\ home'[sec'[q]] = tok'[q]
               /\ pc'[q] \in {"enroll", "clean"} => set'[q] # NoSecret /\ home'[set'[q]] = tok'[q]
    <3>1. CASE q = p
      BY <1>c, <2>1, <2>3, <3>1 DEF Moved
    <3>2. CASE q # p
      BY <1>a, <2>1, <2>2, <2>3, <3>2 DEF TokenInv, Moved, Kept
    <3> QED
      BY <3>1, <3>2, Zenon
  <2> QED
    BY <1>a, <1>c, <2>1, <2>2, <2>4 DEF TokenInv, ClosedForGood
<1>7. ASSUME NEW p \in Procs, NEW t \in Tokens, ResolveEnrollPrincipal(p, t) \/ HIncrBy(p, t)
      PROVE  TokenInv'
  <2>1. /\ UNCHANGED <<issued, user, secret, hashes, home, closed, sec, set, dels>>
        /\ tries' = tries \/ tries' = [tries EXCEPT ![t] = @ + 1]
        /\ tok' = [tok EXCEPT ![p] = t]
    BY <1>7, Zenon DEF ResolveEnrollPrincipal, HIncrBy, key, history
  <2>2. PICK label \in {"check", "drop", "validate"} : Goto(p, label)
    BY <1>7, Zenon DEF ResolveEnrollPrincipal, HIncrBy
  <2>3. t \in issued
    BY <1>7, <1>a, Zenon DEF ResolveEnrollPrincipal, HIncrBy, TokenInv
  <2>4. Moved(p, label) /\ tok'[p] = t
    <3>1. Moved(p, label)
      BY <1>a, <2>1, <2>2, Moves, Zenon
    <3> QED
      BY <1>a, <2>1, <3>1 DEF TypeOK
  <2>5. ASSUME NEW q \in Procs
        PROVE  /\ pc'[q] \in WithToken => tok'[q] \in issued'
               /\ pc'[q] = "hashes" => sec'[q] # NoSecret /\ home'[sec'[q]] = tok'[q]
               /\ pc'[q] \in {"enroll", "clean"} => set'[q] # NoSecret /\ home'[set'[q]] = tok'[q]
    <3>1. CASE q = p
      BY <2>1, <2>2, <2>3, <2>4, <3>1 DEF Moved
    <3>2. CASE q # p
      BY <1>a, <2>1, <2>4, <3>2 DEF TokenInv, Moved, Kept
    <3> QED
      BY <3>1, <3>2, Zenon
  <2>6. \A u \in Tokens \ issued : tries'[u] = tries[u]
    BY <1>a, <2>1, <2>3 DEF TypeOK
  <2> QED
    BY <1>a, <2>1, <2>5, <2>6 DEF TokenInv, ClosedForGood
<1>8. ASSUME NEW p \in Procs, HSetSecret(p) PROVE TokenInv'
  <2>1. UNCHANGED <<issued, user, hashes, tries, closed>> /\ Moved(p, "idle") /\ pc[p] = "secret"
    BY <1>8, <1>a, Returns, Zenon DEF HSetSecret
  <2>2. PICK s \in Secrets : /\ secret' = [secret EXCEPT ![tok[p]] = s]
                             /\ home[s] = NoToken /\ home' = [home EXCEPT ![s] = tok[p]]
    BY <1>8, Zenon DEF HSetSecret
  <2>3. tok[p] \in issued /\ tok[p] \in Tokens /\ NoToken \notin Tokens
    BY <1>b, <2>1, EnrollmentAssumption DEF WithToken
  <2>4. \A r \in Secrets : home[r] \in Tokens => home'[r] = home[r]
    BY <1>a, <2>2, <2>3 DEF TypeOK
  <2>5. ASSUME NEW t \in Tokens
        PROVE  /\ t \notin issued' => tries'[t] = 0 /\ secret'[t] = NoSecret /\ hashes'[t] = NoSecret
               /\ secret'[t] # NoSecret => home'[secret'[t]] = t
               /\ hashes'[t] # NoSecret => home'[hashes'[t]] = t
    <3>1. home'[s] = tok[p] /\ secret'[tok[p]] = s /\ \A u \in Tokens : u # tok[p] => secret'[u] = secret[u]
      BY <1>a, <2>2, <2>3 DEF TypeOK
    <3>2. secret[t] \in Secrets \cup {NoSecret} /\ hashes[t] \in Secrets \cup {NoSecret}
      BY <1>a, Zenon DEF TypeOK, MaybeSecret
    <3> QED
      BY <1>a, <2>1, <2>3, <2>4, <3>1, <3>2 DEF TokenInv
  <2>6. ASSUME NEW q \in Procs
        PROVE  /\ pc'[q] \in WithToken => tok'[q] \in issued'
               /\ pc'[q] = "hashes" => sec'[q] # NoSecret /\ home'[sec'[q]] = tok'[q]
               /\ pc'[q] \in {"enroll", "clean"} => set'[q] # NoSecret /\ home'[set'[q]] = tok'[q]
    <3>1. CASE q = p
      BY <1>c, <2>1, <3>1 DEF Moved, WithToken
    <3>2. CASE q # p
      <4>1. Kept(q)
        BY <2>1, <3>2, Zenon DEF Moved
      <4>2. sec[q] \in Secrets \cup {NoSecret} /\ set[q] \in Secrets \cup {NoSecret}
        BY <1>a, Zenon DEF TypeOK, MaybeSecret
      <4>3. pc[q] \in {"hashes", "enroll", "clean"} => tok[q] \in Tokens
        BY <1>b, Zenon DEF WithToken
      <4> QED
        BY <1>a, <2>1, <2>4, <4>1, <4>2, <4>3 DEF TokenInv, Kept
    <3> QED
      BY <3>1, <3>2, Zenon
  <2> QED
    BY <1>a, <2>1, <2>5, <2>6, Zenon DEF TokenInv, ClosedForGood
<1>9. ASSUME NEW p \in Procs, ValidateTOTP(p) PROVE TokenInv'
  <2>1. /\ UNCHANGED <<issued, user, secret, hashes, tries, home, closed, tok, set, dels>>
        /\ sec' = [sec EXCEPT ![p] = secret[tok[p]]] /\ Goto(p, "hashes")
        /\ pc[p] = "validate" /\ secret[tok[p]] # NoSecret
    BY <1>9, Zenon DEF ValidateTOTP, key
  <2>2. Moved(p, "hashes")
    BY <1>a, <2>1, Moves, Zenon
  <2>3. sec'[p] = secret[tok[p]] /\ tok[p] \in issued /\ home[secret[tok[p]]] = tok[p]
    BY <1>a, <1>b, <2>1 DEF TypeOK, TokenInv, WithToken
  <2>4. ASSUME NEW q \in Procs
        PROVE  /\ pc'[q] \in WithToken => tok'[q] \in issued'
               /\ pc'[q] = "hashes" => sec'[q] # NoSecret /\ home'[sec'[q]] = tok'[q]
               /\ pc'[q] \in {"enroll", "clean"} => set'[q] # NoSecret /\ home'[set'[q]] = tok'[q]
    <3>1. CASE q = p
      BY <2>1, <2>2, <2>3, <3>1 DEF Moved
    <3>2. CASE q # p
      BY <1>a, <2>1, <2>2, <3>2 DEF TokenInv, Moved, Kept
    <3> QED
      BY <3>1, <3>2, Zenon
  <2> QED
    BY <1>a, <2>1, <2>4 DEF TokenInv, ClosedForGood
<1>10. ASSUME NEW p \in Procs, NEW t \in Tokens, HGetAll(p, t) PROVE TokenInv'
  <2>1. /\ UNCHANGED <<issued, user, secret, hashes, tries, home, closed, dels>> /\ Goto(p, "enroll")
        /\ t \in user /\ hashes[t] # NoSecret /\ tok' = [tok EXCEPT ![p] = t]
        /\ sec' = [sec EXCEPT ![p] = secret[t]] /\ set' = [set EXCEPT ![p] = hashes[t]]
    BY <1>10, Zenon DEF HGetAll, key
  <2>2. Moved(p, "enroll")
    BY <1>a, <2>1, Moves, Zenon
  <2>3. set'[p] = hashes[t] /\ tok'[p] = t /\ t \in issued /\ home[hashes[t]] = t
    BY <1>a, <2>1, Zenon DEF TypeOK, TokenInv
  <2>4. ASSUME NEW q \in Procs
        PROVE  /\ pc'[q] \in WithToken => tok'[q] \in issued'
               /\ pc'[q] = "hashes" => sec'[q] # NoSecret /\ home'[sec'[q]] = tok'[q]
               /\ pc'[q] \in {"enroll", "clean"} => set'[q] # NoSecret /\ home'[set'[q]] = tok'[q]
    <3>1. CASE q = p
      BY <2>1, <2>2, <2>3, <3>1 DEF Moved
    <3>2. CASE q # p
      BY <1>a, <2>1, <2>2, <3>2 DEF TokenInv, Moved, Kept
    <3> QED
      BY <3>1, <3>2, Zenon
  <2> QED
    BY <1>a, <2>1, <2>4 DEF TokenInv, ClosedForGood
<1>11. ASSUME NEW p \in Procs, SetTOTPEnrolled(p) PROVE TokenInv'
  <2>1. /\ pc[p] = "enroll" /\ Goto(p, "clean")
        /\ UNCHANGED <<issued, user, secret, hashes, tries, home, closed, tok, sec, set, dels>>
    BY <1>11, Zenon DEF SetTOTPEnrolled, key, locals
  <2>2. Moved(p, "clean")
    BY <1>a, <2>1, Moves, Zenon
  <2>3. ASSUME NEW q \in Procs
        PROVE  /\ pc'[q] \in WithToken => tok'[q] \in issued'
               /\ pc'[q] = "hashes" => sec'[q] # NoSecret /\ home'[sec'[q]] = tok'[q]
               /\ pc'[q] \in {"enroll", "clean"} => set'[q] # NoSecret /\ home'[set'[q]] = tok'[q]
    <3>1. CASE q = p
      BY <1>a, <2>1, <2>2, <3>1 DEF TokenInv, Moved, WithToken
    <3>2. CASE q # p
      BY <1>a, <2>1, <2>2, <3>2 DEF TokenInv, Moved, Kept
    <3> QED
      BY <3>1, <3>2, Zenon
  <2> QED
    BY <1>a, <2>1, <2>3, Zenon DEF TokenInv, ClosedForGood
<1>12. CASE UNCHANGED vars
  BY <1>12, <1>c, TokenFrame, Zenon DEF vars, account, key, locals, history, Kept
<1> QED
  BY <1>1, <1>2, <1>3, <1>4, <1>5, <1>6, <1>7, <1>8, <1>9, <1>10, <1>11, <1>12, Zenon
     DEF Next, Request, Quiet

\* Insertions, across a step that inserts nothing and reads no hashes.
LEMMA InsertFrame ==
  ASSUME EnrollmentInv, UNCHANGED <<inserted, again>>, closed \subseteq closed', kept \subseteq kept',
         \A s \in Secrets : home[s] \in Tokens => home'[s] = home[s],
         \A q \in Procs : Kept(q) \/ pc'[q] \notin {"enroll"},
         \A q \in Procs : pc[q] = "clean" => Kept(q) \/ tok[q] \in closed' \cup kept'
  PROVE  InsertInv'
<1>1. TypeOK /\ InsertInv /\ TokenInv
  BY Zenon DEF EnrollmentInv
<1>2. CodesInsertedOnce'
  BY <1>1, Zenon DEF InsertInv, CodesInsertedOnce
<1>3. \A s \in Secrets : Inserted(s)' <=> Inserted(s)
  BY Zenon DEF Inserted
<1>4. ASSUME NEW s \in Secrets \ again, Inserted(s)
      PROVE  \/ home'[s] \in closed' \cup kept'
             \/ \E q \in Procs : pc'[q] = "clean" /\ tok'[q] = home'[s]
  <2>1. CASE home[s] \in closed \cup kept
    <3>1. home[s] \in Tokens
      BY <1>1, <2>1, Zenon DEF TypeOK
    <3> QED
      BY <2>1, <3>1, Zenon
  <2>2. ASSUME NEW q \in Procs, pc[q] = "clean", tok[q] = home[s]
        PROVE  \/ home'[s] \in closed' \cup kept'
               \/ \E r \in Procs : pc'[r] = "clean" /\ tok'[r] = home'[s]
    <3>1. home[s] \in Tokens
      BY <1>1, <2>2, Zenon DEF TypeOK, TokenInv, WithToken
    <3>2. home'[s] = home[s]
      BY <3>1, Zenon
    <3> QED
      BY <2>2, <3>2, Zenon DEF Kept
  <2> QED
    BY <1>1, <1>4, <2>1, <2>2, Zenon DEF InsertInv
<1>5. ASSUME NEW p \in Procs, pc'[p] = "enroll", set'[p] \notin again'
      PROVE  /\ ~Inserted(set[p])'
             /\ \A q \in Procs : pc'[q] = "enroll" /\ set'[q] = set'[p] => q = p
  <2>1. Kept(p) /\ \A q \in Procs : pc'[q] = "enroll" => Kept(q)
    BY <1>5, Zenon
  <2>2. pc[p] = "enroll" /\ set'[p] = set[p] /\ set[p] \notin again
    BY <1>5, <2>1, Zenon DEF Kept
  <2>3. ~Inserted(set[p]) /\ \A q \in Procs : pc[q] = "enroll" /\ set[q] = set[p] => q = p
    BY <1>1, <2>2, Zenon DEF InsertInv
  <2>4. ~Inserted(set[p])'
    BY <2>2, <2>3, Zenon DEF Inserted
  <2> QED
    BY <2>1, <2>2, <2>3, <2>4 DEF Kept
<1> QED
  BY <1>2, <1>3, <1>4, <1>5, Zenon DEF InsertInv

\* No set is inserted twice that was read once, across every step.
LEMMA InsertStep == ASSUME EnrollmentInv, [Next]_vars PROVE InsertInv'
<1>a. TypeOK /\ TokenInv /\ InsertInv
  BY Zenon DEF EnrollmentInv
<1>b. \A q \in Procs : pc[q] \in WithToken => tok[q] \in issued /\ tok[q] \in Tokens
  BY <1>a, Zenon DEF TypeOK, TokenInv
<1>1. ASSUME NEW t \in Tokens, Expire(t) PROVE InsertInv'
  <2>1. Wipe(t) /\ UNCHANGED <<pc, tok, sec, set, dels, home, inserted, again, kept>>
    BY <1>1, Zenon DEF Expire, locals
  <2> QED
    BY <1>a, <2>1, Wipes, InsertFrame, Zenon DEF Kept
<1>2. ASSUME NEW p \in Procs, Quiet(p) PROVE InsertInv'
  BY <1>2, <1>a, QuietStep, InsertFrame, Zenon
<1>3. ASSUME NEW p \in Procs, DropKey(p) \/ DelKey(p) PROVE InsertInv'
  <2>1. Wipe(tok[p]) /\ UNCHANGED <<home, inserted, again, kept>> /\ Return(p) /\ tok[p] \in Tokens
    BY <1>3, <1>b, Zenon DEF DropKey, DelKey, WithToken
  <2> QED
    BY <1>a, <2>1, Wipes, Returns, InsertFrame, Zenon DEF Moved
<1>4. ASSUME NEW p \in Procs, InvalidCode(p) \/ ClearTOTP(p) \/ HSetHashes(p) PROVE InsertInv'
  <2>1. UNCHANGED <<home, inserted, again, kept, closed>> /\ Return(p) /\ pc[p] # "clean"
    BY <1>4, Zenon DEF InvalidCode, ClearTOTP, HSetHashes, history
  <2> QED
    BY <1>a, <2>1, Returns, InsertFrame, Zenon DEF Moved
<1>5. ASSUME NEW p \in Procs, Fail(p) PROVE InsertInv'
  <2>1. /\ UNCHANGED <<home, inserted, again, closed>> /\ Return(p)
        /\ kept' = IF pc[p] = "clean" THEN kept \cup {tok[p]} ELSE kept
    BY <1>5, Zenon DEF Fail
  <2> QED
    BY <1>a, <2>1, Returns, InsertFrame, Zenon DEF Moved
<1>6. ASSUME NEW p \in Procs, OpenToken(p) PROVE InsertInv'
  <2>1. UNCHANGED <<home, inserted, again, kept, closed>> /\ pc[p] # "clean"
    BY <1>6, Zenon DEF OpenToken, history
  <2>2. Moved(p, "idle") \/ Moved(p, "check")
    BY <1>6, <1>a, Moves, Returns, Zenon DEF OpenToken
  <2> QED
    BY <2>1, <2>2, InsertFrame, Zenon DEF Moved
<1>7. ASSUME NEW p \in Procs, NEW t \in Tokens, ResolveEnrollPrincipal(p, t) \/ HIncrBy(p, t)
      PROVE  InsertInv'
  <2>1. UNCHANGED <<home, inserted, again, kept, closed>> /\ pc[p] # "clean"
    BY <1>7, Zenon DEF ResolveEnrollPrincipal, HIncrBy, history
  <2>2. \E label \in {"check", "drop", "validate"} : Moved(p, label)
    BY <1>7, <1>a, Moves, Zenon DEF ResolveEnrollPrincipal, HIncrBy
  <2> QED
    BY <2>1, <2>2, InsertFrame, Zenon DEF Moved
<1>8. ASSUME NEW p \in Procs, HSetSecret(p) PROVE InsertInv'
  <2>1. UNCHANGED <<inserted, again, kept, closed>> /\ Moved(p, "idle") /\ pc[p] = "secret"
    BY <1>8, <1>a, Returns, Zenon DEF HSetSecret
  <2>2. \A r \in Secrets : home[r] \in Tokens => home'[r] = home[r]
    BY <1>8, <1>a, EnrollmentAssumption DEF HSetSecret, TypeOK
  <2> QED
    BY <2>1, <2>2, InsertFrame, Zenon DEF Moved
<1>9. ASSUME NEW p \in Procs, ValidateTOTP(p) PROVE InsertInv'
  <2>1. UNCHANGED <<home, inserted, again, kept, closed>> /\ Moved(p, "hashes") /\ pc[p] # "clean"
    BY <1>9, <1>a, Moves, Zenon DEF ValidateTOTP
  <2> QED
    BY <2>1, InsertFrame, Zenon DEF Moved
<1>10. ASSUME NEW p \in Procs, NEW t \in Tokens, HGetAll(p, t) PROVE InsertInv'
  <2> DEFINE h == hashes[t]
  <2>1. /\ UNCHANGED <<home, inserted, kept, closed, dels>> /\ Goto(p, "enroll") /\ pc[p] = "idle"
        /\ t \in user /\ h # NoSecret /\ tok' = [tok EXCEPT ![p] = t]
        /\ sec' = [sec EXCEPT ![p] = secret[t]] /\ set' = [set EXCEPT ![p] = h]
        /\ again' = IF t \in kept \/ (\E q \in Procs : Completing(q, t)) THEN again \cup {h} ELSE again
    BY <1>10, Zenon DEF HGetAll
  <2>2. Moved(p, "enroll")
    BY <1>a, <2>1, Moves, Zenon
  <2>3. set'[p] = h /\ t \notin closed /\ home[h] = t /\ h \in Secrets
    BY <1>a, <2>1 DEF TypeOK, TokenInv, ClosedForGood, MaybeSecret
  <2>4. again \subseteq again'
    BY <2>1, Zenon
  <2>5. CodesInsertedOnce'
    BY <1>a, <2>1, <2>4, Zenon DEF InsertInv, CodesInsertedOnce
  <2>6. \A s : Inserted(s)' <=> Inserted(s)
    BY <2>1, Zenon DEF Inserted
  <2>7. ASSUME NEW s \in Secrets \ again', Inserted(s)
        PROVE  \/ home'[s] \in closed' \cup kept'
               \/ \E q \in Procs : pc'[q] = "clean" /\ tok'[q] = home'[s]
    <3>1. \/ home[s] \in closed \cup kept
          \/ \E q \in Procs : pc[q] = "clean" /\ tok[q] = home[s]
      BY <1>a, <2>4, <2>7, Zenon DEF InsertInv
    <3>2. \A q \in Procs : pc[q] = "clean" => pc'[q] = "clean" /\ tok'[q] = tok[q]
      BY <2>1, <2>2, Zenon DEF Moved, Kept
    <3> QED
      BY <2>1, <3>1, <3>2, Zenon
  <2>8. ASSUME h \notin again' PROVE ~Inserted(h) /\ \A q \in Procs : pc[q] = "enroll" => set[q] # h
    <3>1. t \notin kept /\ h \notin again /\ \A q \in Procs : ~Completing(q, t)
      BY <2>1, <2>8, Zenon
    <3>2. ASSUME Inserted(h) PROVE FALSE
      <4>1. home[h] \in closed \cup kept \/ \E q \in Procs : pc[q] = "clean" /\ tok[q] = home[h]
        BY <1>a, <2>3, <3>1, <3>2, Zenon DEF InsertInv
      <4>2. t \in closed \cup kept \/ \E q \in Procs : pc[q] = "clean" /\ tok[q] = t
        BY <2>3, <4>1, Zenon
      <4> QED
        BY <2>3, <3>1, <4>2, Zenon DEF Completing
    <3>3. ASSUME NEW q \in Procs, pc[q] = "enroll", set[q] = h PROVE FALSE
      BY <1>a, <2>3, <3>1, <3>3, Zenon DEF TokenInv, Completing
    <3> QED
      BY <3>2, <3>3, Zenon
  <2>9. ASSUME NEW q \in Procs, pc'[q] = "enroll", set'[q] \notin again'
        PROVE  /\ ~Inserted(set'[q])
               /\ \A r \in Procs : pc'[r] = "enroll" /\ set'[r] = set'[q] => r = q
    <3>a. \A r \in Procs \ {p} : pc'[r] = pc[r] /\ set'[r] = set[r]
      BY <2>2, Zenon DEF Moved, Kept
    <3>1. CASE q = p
      <4>1. set'[q] = h /\ h \notin again'
        BY <2>3, <2>9, <3>1
      <4>2. ~Inserted(h) /\ \A r \in Procs : pc[r] = "enroll" => set[r] # h
        BY <2>8, <4>1, Zenon
      <4> HIDE DEF h
      <4> QED
        BY <3>1, <3>a, <4>1, <4>2
    <3>2. CASE q # p
      <4>1. pc[q] = "enroll" /\ set'[q] = set[q] /\ set[q] \notin again
        BY <2>4, <2>9, <3>2, <3>a
      <4>2. set[q] # h
        BY <2>8, <2>9, <4>1, Zenon
      <4>3. ~Inserted(set[q]) /\ \A r \in Procs : pc[r] = "enroll" /\ set[r] = set[q] => r = q
        BY <1>a, <4>1, Zenon DEF InsertInv
      <4> HIDE DEF h
      <4> QED
        BY <2>3, <3>a, <4>1, <4>2, <4>3
    <3> QED
      BY <3>1, <3>2, Zenon
  <2>10. ASSUME NEW q \in Procs, pc'[q] = "enroll", set'[q] \notin again' PROVE ~Inserted(set[q])'
    BY <2>1, <2>9, <2>10, Zenon DEF Inserted
  <2> QED
    BY <2>5, <2>6, <2>7, <2>9, <2>10, Zenon DEF InsertInv
<1>11. ASSUME NEW p \in Procs, SetTOTPEnrolled(p) PROVE InsertInv'
  <2>1. /\ pc[p] = "enroll" /\ Goto(p, "clean")
        /\ UNCHANGED <<home, again, kept, closed, tok, sec, set, dels>>
    BY <1>11, Zenon DEF SetTOTPEnrolled, key, locals
  <2>2. PICK n \in 1..MaxCopies : inserted' = inserted \cup {<<set[p], n>>}
    BY <1>11, Zenon DEF SetTOTPEnrolled
  <2>3. Moved(p, "clean")
    BY <1>a, <2>1, Moves, Zenon
  <2>4. set[p] \in Secrets /\ home[set[p]] = tok[p]
    BY <1>a, <2>1 DEF TokenInv, TypeOK, MaybeSecret
  <2>5. \A s \in Secrets : s # set[p] => (Inserted(s)' => Inserted(s))
    BY <2>2, Zenon DEF Inserted
  <2>6. CodesInsertedOnce'
    <3>1. ASSUME NEW r \in inserted, r[1] = set[p], set[p] \notin again PROVE FALSE
      <4>1. PICK s \in Secrets, i \in 1..MaxCopies : r = <<s, i>>
        BY <1>a DEF TypeOK, Rows
      <4>2. <<set[p], i>> \in inserted
        BY <3>1, <4>1, Zenon
      <4>3. Inserted(set[p])
        BY <4>2, Zenon DEF Inserted
      <4> QED
        BY <1>a, <2>1, <3>1, <4>3, Zenon DEF InsertInv
    <3> QED
      BY <1>a, <2>1, <2>2, <3>1 DEF InsertInv, CodesInsertedOnce
  <2>7. ASSUME NEW s \in Secrets \ again', Inserted(s)'
        PROVE  \/ home'[s] \in closed' \cup kept'
               \/ \E q \in Procs : pc'[q] = "clean" /\ tok'[q] = home'[s]
    <3>1. CASE s = set[p]
      BY <2>1, <2>3, <2>4, <3>1, Zenon DEF Moved
    <3>2. CASE s # set[p]
      <4>1. \/ home[s] \in closed \cup kept
            \/ \E q \in Procs : pc[q] = "clean" /\ tok[q] = home[s]
        BY <1>a, <2>1, <2>5, <2>7, <3>2, Zenon DEF InsertInv
      <4>2. \A q \in Procs : pc[q] = "clean" => pc'[q] = "clean"
        BY <2>1, <2>3 DEF Moved, Kept
      <4> QED
        BY <2>1, <4>1, <4>2, Zenon
    <3> QED
      BY <3>1, <3>2, Zenon
  <2>8. ASSUME NEW q \in Procs, pc'[q] = "enroll", set'[q] \notin again'
        PROVE  /\ ~Inserted(set[q])'
               /\ \A r \in Procs : pc'[r] = "enroll" /\ set'[r] = set'[q] => r = q
    <3>1. q # p /\ pc[q] = "enroll" /\ set[q] \notin again
      BY <2>1, <2>3, <2>8, Zenon DEF Moved, Kept
    <3>2. ~Inserted(set[q]) /\ \A r \in Procs : pc[r] = "enroll" /\ set[r] = set[q] => r = q
      BY <1>a, <3>1, Zenon DEF InsertInv
    <3>3. set[q] # set[p]
      BY <2>1, <3>1, <3>2, Zenon
    <3>4. ~Inserted(set[q])'
      BY <2>1, <2>2, <3>2, <3>3 DEF Inserted
    <3> QED
      BY <2>1, <2>3, <3>2, <3>4, Zenon DEF Moved, Kept
  <2> QED
    BY <2>6, <2>7, <2>8, Zenon DEF InsertInv
<1>12. CASE UNCHANGED vars
  BY <1>12, InsertFrame, Zenon DEF vars, account, key, locals, history, Kept
<1> QED
  BY <1>1, <1>2, <1>3, <1>4, <1>5, <1>6, <1>7, <1>8, <1>9, <1>10, <1>11, <1>12, Zenon
     DEF Next, Request, Quiet

\* Recovery codes and resets, across a step that writes neither the account nor
\* what a reset has found.
LEMMA ResetFrame ==
  ASSUME EnrollmentInv, UNCHANGED <<totp, codes, raced>>,
         \A q \in Procs : Kept(q) \/ pc'[q] \notin {"wait", "clear"}
  PROVE  ResetInv'
<1>1. ResetInv
  BY Zenon DEF EnrollmentInv
<1>2. CodesFollowEnrollment'
  BY <1>1, Zenon DEF ResetInv, CodesFollowEnrollment
<1>3. ASSUME NEW q \in Procs, pc'[q] \in {"wait", "clear"}
      PROVE  \A r \in codes' \ dels'[q] : r[1] \in raced'
  BY <1>1, <1>3, Zenon DEF ResetInv, Kept
<1> QED
  BY <1>2, <1>3, Zenon DEF ResetInv

\* Codes come and go with the enrollment, across every step.
LEMMA ResetStep == ASSUME EnrollmentInv, [Next]_vars PROVE ResetInv'
<1>a. TypeOK /\ ResetInv /\ VerifiedInv /\ TokenInv
  BY Zenon DEF EnrollmentInv
<1>1. ASSUME NEW t \in Tokens, Expire(t) PROVE ResetInv'
  BY <1>1, ResetFrame, Zenon DEF Expire, account, locals, Kept
<1>2. ASSUME NEW p \in Procs, PostLogin(p) \/ ResolveSession(p) \/ CheckNotEnrolled(p) \/ ResetMFA(p)
      PROVE  ResetInv'
  <2>1. UNCHANGED <<totp, codes, raced, tok, sec, set, dels>>
    BY <1>2, Zenon DEF PostLogin, ResolveSession, CheckNotEnrolled, ResetMFA, account,
       locals, history
  <2>2. \E label \in {"open", "openSession", "secret", "delete"} : Goto(p, label)
    BY <1>2, Zenon DEF PostLogin, ResolveSession, CheckNotEnrolled, ResetMFA
  <2>3. \E label \in {"open", "openSession", "secret", "delete"} : Moved(p, label)
    BY <1>a, <2>1, <2>2, Moves, Zenon
  <2> QED
    BY <2>1, <2>3, ResetFrame, Zenon DEF Moved
<1>3. ASSUME NEW p \in Procs, DropKey(p) \/ DelKey(p) \/ InvalidCode(p) \/ HSetHashes(p)
                               \/ HSetSecret(p) \/ Fail(p)
      PROVE  ResetInv'
  <2>1. UNCHANGED <<totp, codes, raced>> /\ Return(p)
    BY <1>3, Zenon DEF DropKey, DelKey, InvalidCode, HSetHashes, HSetSecret, Fail, account,
       history
  <2> QED
    BY <1>a, <2>1, Returns, ResetFrame, Zenon DEF Moved
<1>4. ASSUME NEW p \in Procs, OpenToken(p) PROVE ResetInv'
  <2>1. UNCHANGED <<totp, codes, raced>>
    BY <1>4, Zenon DEF OpenToken, account, history
  <2>2. Moved(p, "idle") \/ Moved(p, "check")
    BY <1>4, <1>a, Moves, Returns, Zenon DEF OpenToken
  <2> QED
    BY <2>1, <2>2, ResetFrame, Zenon DEF Moved
<1>5. ASSUME NEW p \in Procs, NEW t \in Tokens, ResolveEnrollPrincipal(p, t) \/ HIncrBy(p, t)
                                                 \/ HGetAll(p, t)
      PROVE  ResetInv'
  <2>1. UNCHANGED <<totp, codes, raced>>
    BY <1>5, Zenon DEF ResolveEnrollPrincipal, HIncrBy, HGetAll, account, history
  <2>2. \E label \in {"check", "drop", "validate", "enroll"} : Moved(p, label)
    BY <1>5, <1>a, Moves, Zenon DEF ResolveEnrollPrincipal, HIncrBy, HGetAll
  <2> QED
    BY <2>1, <2>2, ResetFrame, Zenon DEF Moved
<1>6. ASSUME NEW p \in Procs, ValidateTOTP(p) PROVE ResetInv'
  <2>1. UNCHANGED <<totp, codes, raced>> /\ Moved(p, "hashes")
    BY <1>6, <1>a, Moves, Zenon DEF ValidateTOTP, account
  <2> QED
    BY <2>1, ResetFrame, Zenon DEF Moved
<1>7. ASSUME NEW p \in Procs, DeleteAllForUser(p) PROVE ResetInv'
  <2>1. UNCHANGED <<totp, codes, raced>> /\ Moved(p, "wait") /\ dels'[p] = codes
    BY <1>7, <1>a, Moves, Zenon DEF DeleteAllForUser, account, history, TypeOK
  <2>2. CodesFollowEnrollment'
    BY <1>a, <2>1, Zenon DEF ResetInv, CodesFollowEnrollment
  <2>3. ASSUME NEW q \in Procs, pc'[q] \in {"wait", "clear"}
        PROVE  \A r \in codes' \ dels'[q] : r[1] \in raced'
    BY <1>a, <2>1, <2>3, Zenon DEF ResetInv, Moved, Kept
  <2> QED
    BY <2>2, <2>3, Zenon DEF ResetInv
<1>8. ASSUME NEW p \in Procs, RowsDeleted(p) PROVE ResetInv'
  <2>1. UNCHANGED <<totp, codes, raced, dels>> /\ Moved(p, "clear") /\ pc[p] = "wait"
    BY <1>8, <1>a, Moves, Zenon DEF RowsDeleted, account, history, locals
  <2>2. CodesFollowEnrollment'
    BY <1>a, <2>1, Zenon DEF ResetInv, CodesFollowEnrollment
  <2>3. ASSUME NEW q \in Procs, pc'[q] \in {"wait", "clear"}
        PROVE  \A r \in codes' \ dels'[q] : r[1] \in raced'
    BY <1>a, <2>1, <2>3, Zenon DEF ResetInv, Moved, Kept
  <2> QED
    BY <2>2, <2>3, Zenon DEF ResetInv
<1>9. ASSUME NEW p \in Procs, ClearTOTP(p) PROVE ResetInv'
  <2>1. UNCHANGED raced /\ Moved(p, "idle") /\ pc[p] = "clear" /\ totp' = NoSecret
        /\ codes' = codes \ dels[p]
    BY <1>9, <1>a, Returns, Zenon DEF ClearTOTP, history
  <2>2. \A r \in codes' : r[1] \in raced'
    BY <1>a, <2>1, Zenon DEF ResetInv
  <2> QED
    BY <2>1, <2>2, Zenon DEF ResetInv, CodesFollowEnrollment
<1>10. ASSUME NEW p \in Procs, SetTOTPEnrolled(p) PROVE ResetInv'
  <2>1. /\ pc[p] = "enroll" /\ Goto(p, "clean") /\ UNCHANGED <<tok, sec, set, dels>>
        /\ totp' = sec[p]
        /\ raced' = IF \E q \in Procs : pc[q] \in {"wait", "clear"} THEN raced \cup {set[p]} ELSE raced
    BY <1>10, Zenon DEF SetTOTPEnrolled, locals
  <2>2. PICK n \in 1..MaxCopies : codes' = codes \cup {<<set[p], n>>}
    BY <1>10, Zenon DEF SetTOTPEnrolled
  <2>3. Moved(p, "clean")
    BY <1>a, <2>1, Moves, Zenon
  <2>4. totp' # NoSecret
    BY <1>a, <2>1, EnrollmentAssumption, Zenon DEF VerifiedInv, TypeOK
  <2>5. CodesFollowEnrollment'
    BY <2>2, <2>4, Zenon DEF CodesFollowEnrollment
  <2>6. ASSUME NEW q \in Procs, pc'[q] \in {"wait", "clear"}
        PROVE  \A r \in codes' \ dels'[q] : r[1] \in raced'
    <3>1. q # p /\ pc[q] \in {"wait", "clear"} /\ dels'[q] = dels[q]
      BY <2>3, <2>6 DEF Moved, Kept
    <3>2. raced' = raced \cup {set[p]}
      BY <2>1, <3>1, Zenon
    <3> QED
      BY <1>a, <2>2, <3>1, <3>2 DEF ResetInv
  <2> QED
    BY <2>5, <2>6, Zenon DEF ResetInv
<1>11. ASSUME UNCHANGED vars PROVE ResetInv'
  BY <1>11, ResetFrame, Zenon DEF vars, account, key, locals, history, Kept
<1>12. ASSUME NEW p \in Procs, Reject(p) PROVE ResetInv'
  BY <1>11, <1>12, Zenon DEF Reject
<1> QED
  BY <1>1, <1>2, <1>3, <1>4, <1>5, <1>6, <1>7, <1>8, <1>9, <1>10, <1>11, <1>12, Zenon
     DEF Next, Request

-----------------------------------------------------------------------------
(* Counting.  Only these proofs need the library of finite sets. *)

FS == INSTANCE FiniteSetTheorems

\* The library's finite sets are those of FiniteSets.
LEMMA SameSets ==
  ASSUME NEW S
  PROVE  (FS!IsFiniteSet(S) <=> IsFiniteSet(S)) /\ FS!Cardinality(S) = Cardinality(S)
BY Zenon DEF IsFiniteSet, FS!IsFiniteSet, Cardinality, FS!Cardinality

\* A part of a finite set.
LEMMA Part ==
  ASSUME NEW T, IsFiniteSet(T), NEW S \in SUBSET T
  PROVE  /\ IsFiniteSet(S) /\ Cardinality(S) <= Cardinality(T)
         /\ Cardinality(S) \in Nat /\ Cardinality(T) \in Nat
<1>1. /\ FS!IsFiniteSet(S) /\ FS!Cardinality(S) <= FS!Cardinality(T)
      /\ FS!Cardinality(S) \in Nat /\ FS!Cardinality(T) \in Nat
  BY SameSets, FS!FS_Subset, FS!FS_CardinalityType, Zenon
<1> QED
  BY <1>1, SameSets, Zenon

\* One element more.
LEMMA OneMore ==
  ASSUME NEW S, IsFiniteSet(S), NEW x, x \notin S
  PROVE  Cardinality(S \cup {x}) = Cardinality(S) + 1
<1>1. FS!Cardinality(S \cup {x}) = FS!Cardinality(S) + 1
  BY SameSets, FS!FS_AddElement, Zenon
<1> QED
  BY <1>1, SameSets, Zenon

\* One element less.
LEMMA OneLess ==
  ASSUME NEW S, IsFiniteSet(S), NEW x \in S
  PROVE  Cardinality(S \ {x}) = Cardinality(S) - 1
<1>1. FS!Cardinality(S \ {x}) = FS!Cardinality(S) - 1
  BY SameSets, FS!FS_RemoveElement, Zenon
<1> QED
  BY <1>1, SameSets, Zenon

\* Nothing is counted as none.
LEMMA Empty == Cardinality({}) = 0
<1>1. FS!Cardinality({}) = 0
  BY FS!FS_EmptySet, Zenon
<1> QED
  BY <1>1, SameSets, Zenon

\* Requests that compare codes are finitely many.
LEMMA Comparing ==
  ASSUME NEW t
  PROVE  IsFiniteSet(Validating(t)) /\ Cardinality(Validating(t)) \in Nat
BY EnrollmentAssumption, Part, Zenon DEF Validating

\* Counts, across a step after which no more codes are about to be compared and
\* no token is opened.
LEMMA CountFrame ==
  ASSUME EnrollmentInv, UNCHANGED checks, issued \subseteq issued', user' \subseteq user,
         \A t \in user' : tries'[t] = tries[t],
         \A q \in Procs : Kept(q) \/ pc'[q] # "validate"
  PROVE  CountInv'
<1>1. TypeOK /\ CountInv
  BY Zenon DEF EnrollmentInv
<1>2. AttemptsBounded' /\ \A t \in Tokens : t \notin issued' => checks'[t] = 0
  BY <1>1, Zenon DEF CountInv, AttemptsBounded
<1>3. ASSUME NEW t \in user'
      PROVE  /\ checks'[t] + Cardinality(Validating(t)') <= tries'[t]
             /\ checks'[t] + Cardinality(Validating(t)') <= Attempts
  <2>1. Validating(t)' \subseteq Validating(t)
    BY Zenon DEF Validating, Kept
  <2>2. /\ Cardinality(Validating(t)') <= Cardinality(Validating(t))
        /\ Cardinality(Validating(t)') \in Nat /\ Cardinality(Validating(t)) \in Nat
    BY <2>1, Comparing, Part, Zenon
  <2>3. /\ checks[t] + Cardinality(Validating(t)) <= tries[t]
        /\ checks[t] + Cardinality(Validating(t)) <= Attempts
        /\ checks[t] \in Nat /\ tries[t] \in Nat /\ tries'[t] = tries[t] /\ checks'[t] = checks[t]
    BY <1>1, Zenon DEF CountInv, TypeOK
  <2> HIDE DEF Validating
  <2> QED
    BY <2>2, <2>3, EnrollmentAssumption
<1> QED
  BY <1>2, <1>3, Zenon DEF CountInv

\* A compared code was counted, across a step that compares one.
LEMMA CheckStep ==
  ASSUME EnrollmentInv, NEW p \in Procs, pc[p] = "validate", Check(tok[p]),
         UNCHANGED <<issued, user, tries>>, NEW label, label # "validate", Moved(p, label)
  PROVE  CountInv'
<1>1. TypeOK /\ CountInv /\ TokenInv
  BY Zenon DEF EnrollmentInv
<1> DEFINE u == tok[p]
<1>2. u \in issued /\ u \in Tokens
  BY <1>1, Zenon DEF TokenInv, WithToken, TypeOK
<1>3. \A t \in Tokens : checks'[t] = IF t = u /\ t \in user THEN checks[t] + 1 ELSE checks[t]
  BY <1>1, <1>2 DEF Check, TypeOK
<1>4. ASSUME NEW t \in user
      PROVE  /\ checks'[t] + Cardinality(Validating(t)') <= checks[t] + Cardinality(Validating(t))
             /\ checks'[t] + Cardinality(Validating(t)') \in Nat
             /\ checks'[t] \in Nat /\ Cardinality(Validating(t)') \in Nat
             /\ checks[t] + Cardinality(Validating(t)) \in Nat
  <2> DEFINE V == Validating(t)
             W == V \ {p}
  <2>1. Validating(t)' = W
    BY Zenon DEF Moved, Kept, Validating
  <2>2. IsFiniteSet(V) /\ Cardinality(V) \in Nat /\ checks[t] \in Nat /\ t \in Tokens
    BY <1>1, Comparing, Zenon DEF TypeOK
  <2>3. IsFiniteSet(W) /\ Cardinality(W) \in Nat /\ Cardinality(W) <= Cardinality(V)
    <3>1. W \subseteq V
      BY Zenon
    <3> QED
      BY <2>2, <3>1, Part, Zenon
  <2>4. CASE t = u
    <3>1. p \in V
      BY <2>4, Zenon DEF Validating
    <3>2. Cardinality(W) = Cardinality(V) - 1
      BY <2>2, <3>1, OneLess, Zenon
    <3>3. checks'[t] = checks[t] + 1
      BY <1>3, <2>2, <2>4, <1>4, Zenon
    <3> HIDE DEF W, Validating
    <3> QED
      BY <2>1, <2>2, <2>3, <3>2, <3>3
  <2>5. CASE t # u
    <3>1. checks'[t] = checks[t]
      BY <1>3, <2>2, <2>5, Zenon
    <3> HIDE DEF W, Validating
    <3> QED
      BY <2>1, <2>2, <2>3, <3>1
  <2> QED
    BY <2>4, <2>5, Zenon
<1>5. \A t \in user : /\ checks[t] + Cardinality(Validating(t)) <= tries[t] /\ tries[t] \in Nat
                      /\ checks[t] + Cardinality(Validating(t)) <= Attempts
  BY <1>1, Zenon DEF CountInv, TypeOK
<1> HIDE DEF u
<1>6. \A t \in user : /\ checks'[t] + Cardinality(Validating(t)') <= tries[t]
                      /\ checks'[t] + Cardinality(Validating(t)') <= Attempts
                      /\ checks'[t] <= Attempts
  BY <1>4, <1>5, EnrollmentAssumption
<1>7. \A t \in Tokens : checks'[t] <= Attempts
  BY <1>1, <1>3, <1>6, Zenon DEF CountInv, AttemptsBounded
<1>8. \A t \in Tokens : t \notin issued => checks'[t] = 0
  BY <1>1, <1>2, <1>3, Zenon DEF CountInv, u
<1> QED
  BY <1>6, <1>7, <1>8, Zenon DEF CountInv, AttemptsBounded

\* Every compared code was counted, across every step.
LEMMA CountStep == ASSUME EnrollmentInv, [Next]_vars PROVE CountInv'
<1>a. TypeOK /\ TokenInv /\ CountInv
  BY Zenon DEF EnrollmentInv
<1>b. \A q \in Procs : pc[q] \in WithToken => tok[q] \in Tokens
  BY <1>a, Zenon DEF TypeOK, TokenInv
<1>c. ASSUME NEW t \in Tokens, Wipe(t)
      PROVE  user' \subseteq user /\ \A u \in user' : tries'[u] = tries[u]
  BY <1>a, <1>c, Zenon DEF Wipe, TypeOK
<1>1. ASSUME NEW t \in Tokens, Expire(t) PROVE CountInv'
  BY <1>1, <1>c, CountFrame, Zenon DEF Expire, locals, Kept
<1>2. ASSUME NEW p \in Procs, Quiet(p) PROVE CountInv'
  <2>1. pc'[p] # "validate"
    BY <1>2, <1>a, QuietStep, Zenon
  <2> QED
    BY <1>2, <1>a, <2>1, QuietStep, CountFrame, Zenon
<1>3. ASSUME NEW p \in Procs, DropKey(p) \/ DelKey(p) PROVE CountInv'
  <2>1. Wipe(tok[p]) /\ UNCHANGED <<checks, issued>> /\ Return(p) /\ tok[p] \in Tokens
    BY <1>3, <1>b, Zenon DEF DropKey, DelKey, WithToken
  <2> QED
    BY <1>a, <1>c, <2>1, Returns, CountFrame, Zenon DEF Moved
<1>4. ASSUME NEW p \in Procs, HSetSecret(p) \/ HSetHashes(p) \/ ClearTOTP(p) \/ Fail(p) PROVE CountInv'
  <2>1. UNCHANGED <<checks, issued, user, tries>> /\ Return(p)
    BY <1>4, Zenon DEF HSetSecret, HSetHashes, ClearTOTP, Fail, key, history
  <2> QED
    BY <1>a, <2>1, Returns, CountFrame, Zenon DEF Moved
<1>5. ASSUME NEW p \in Procs, NEW t \in Tokens, ResolveEnrollPrincipal(p, t) \/ HGetAll(p, t)
      PROVE  CountInv'
  <2>1. UNCHANGED <<checks, issued, user, tries>>
    BY <1>5, Zenon DEF ResolveEnrollPrincipal, HGetAll, key, history
  <2>2. Moved(p, "check") \/ Moved(p, "enroll")
    BY <1>5, <1>a, Moves, Zenon DEF ResolveEnrollPrincipal, HGetAll
  <2> QED
    BY <2>1, <2>2, CountFrame, Zenon DEF Moved
<1>6. ASSUME NEW p \in Procs, SetTOTPEnrolled(p) PROVE CountInv'
  <2>1. UNCHANGED <<checks, issued, user, tries>> /\ Moved(p, "clean")
    BY <1>6, <1>a, Moves, Zenon DEF SetTOTPEnrolled, key, locals
  <2> QED
    BY <2>1, CountFrame, Zenon DEF Moved
<1>7. ASSUME NEW p \in Procs, ValidateTOTP(p) PROVE CountInv'
  <2>1. UNCHANGED <<issued, user, tries>> /\ Check(tok[p]) /\ pc[p] = "validate" /\ Moved(p, "hashes")
    BY <1>7, <1>a, Moves, Zenon DEF ValidateTOTP, key
  <2> QED
    BY <2>1, CheckStep, Zenon
<1>8. ASSUME NEW p \in Procs, InvalidCode(p) PROVE CountInv'
  <2>1. UNCHANGED <<issued, user, tries>> /\ Check(tok[p]) /\ pc[p] = "validate" /\ Moved(p, "idle")
    BY <1>8, <1>a, Returns, Zenon DEF InvalidCode, key
  <2> QED
    BY <2>1, CheckStep, Zenon
<1>9. ASSUME NEW p \in Procs, OpenToken(p) PROVE CountInv'
  <2>1. Moved(p, "idle") \/ Moved(p, "check")
    BY <1>9, <1>a, Moves, Returns, Zenon DEF OpenToken
  <2>2. PICK o \in Tokens \ issued : issued' = issued \cup {o} /\ user' = user \cup {o}
    BY <1>9, Zenon DEF OpenToken
  <2>3. UNCHANGED <<checks, tries>>
    BY <1>9, Zenon DEF OpenToken, history
  <2>4. \A t : Validating(t)' \subseteq Validating(t)
    BY <2>1 DEF Validating, Moved, Kept
  <2>5. Validating(o) = {}
    BY <1>a, <2>2, Zenon DEF Validating, TokenInv, WithToken
  <2>6. checks[o] = 0 /\ tries[o] = 0 /\ Cardinality(Validating(o)') = 0
    <3>1. Validating(o)' = {}
      BY <2>4, <2>5, Zenon
    <3> QED
      BY <1>a, <2>2, <3>1, Empty, Zenon DEF CountInv, TokenInv
  <2>7. ASSUME NEW t \in user
        PROVE  /\ checks[t] + Cardinality(Validating(t)') <= tries[t]
               /\ checks[t] + Cardinality(Validating(t)') <= Attempts
    <3>1. /\ Cardinality(Validating(t)') <= Cardinality(Validating(t))
          /\ Cardinality(Validating(t)') \in Nat /\ Cardinality(Validating(t)) \in Nat
      BY <2>4, Comparing, Part, Zenon
    <3>2. /\ checks[t] + Cardinality(Validating(t)) <= tries[t]
          /\ checks[t] + Cardinality(Validating(t)) <= Attempts
          /\ checks[t] \in Nat /\ tries[t] \in Nat
      BY <1>a, Zenon DEF CountInv, TypeOK
    <3> HIDE DEF Validating
    <3> QED
      BY <3>1, <3>2, EnrollmentAssumption
  <2>8. ASSUME NEW t \in user'
        PROVE  /\ checks'[t] + Cardinality(Validating(t)') <= tries'[t]
               /\ checks'[t] + Cardinality(Validating(t)') <= Attempts
    <3>1. CASE t = o
      BY <2>3, <2>6, <3>1, EnrollmentAssumption
    <3>2. CASE t \in user
      BY <2>3, <2>7, <3>2, Zenon
    <3> QED
      BY <2>2, <2>8, <3>1, <3>2, Zenon
  <2>9. AttemptsBounded' /\ \A t \in Tokens : t \notin issued' => checks'[t] = 0
    BY <1>a, <2>2, <2>3, Zenon DEF CountInv, AttemptsBounded
  <2> QED
    BY <2>8, <2>9, Zenon DEF CountInv
<1>10. ASSUME NEW p \in Procs, NEW u \in Tokens, HIncrBy(p, u) PROVE CountInv'
  <2>1. UNCHANGED <<checks, issued, user>> /\ pc[p] = "idle" /\ tries' = [tries EXCEPT ![u] = @ + 1]
    BY <1>10, Zenon DEF HIncrBy, history
  <2>2. PICK label \in {"drop", "validate"} : Moved(p, label) /\ tok' = [tok EXCEPT ![p] = u]
          /\ label = IF tries[u] + 1 > Attempts THEN "drop" ELSE "validate"
    BY <1>10, <1>a, Moves, Zenon DEF HIncrBy
  <2>3. ASSUME NEW t \in user
        PROVE  /\ checks[t] + Cardinality(Validating(t)') <= tries'[t]
               /\ checks[t] + Cardinality(Validating(t)') <= Attempts
    <3> DEFINE V == Validating(t)
    <3>1. /\ checks[t] + Cardinality(V) <= tries[t] /\ checks[t] + Cardinality(V) <= Attempts
          /\ checks[t] \in Nat /\ tries[t] \in Nat /\ t \in Tokens
          /\ IsFiniteSet(V) /\ Cardinality(V) \in Nat
      BY <1>a, Comparing, Zenon DEF CountInv, TypeOK
    <3>2. tries'[t] = IF t = u THEN tries[t] + 1 ELSE tries[t]
      BY <1>a, <2>1, <3>1, Zenon DEF TypeOK
    <3>3. CASE t = u /\ label = "validate"
      <4>1. Validating(t)' = V \cup {p} /\ p \notin V
        BY <1>a, <2>1, <2>2, <3>3 DEF Validating, Moved, Kept, TypeOK
      <4>2. Cardinality(Validating(t)') = Cardinality(V) + 1
        BY <3>1, <4>1, OneMore, Zenon
      <4> HIDE DEF V, Validating
      <4> QED
        BY <2>2, <3>1, <3>2, <3>3, <4>2, EnrollmentAssumption
    <3>4. CASE ~(t = u /\ label = "validate")
      <4>1. Validating(t)' = V
        BY <1>a, <2>1, <2>2, <3>4, Zenon DEF Validating, Moved, Kept, TypeOK
      <4> HIDE DEF V, Validating
      <4> QED
        BY <3>1, <3>2, <4>1, EnrollmentAssumption
    <3> QED
      BY <3>3, <3>4, Zenon
  <2>4. AttemptsBounded' /\ \A t \in Tokens : t \notin issued' => checks'[t] = 0
    BY <1>a, <2>1, Zenon DEF CountInv, AttemptsBounded
  <2> QED
    BY <2>1, <2>3, <2>4, Zenon DEF CountInv
<1>11. CASE UNCHANGED vars
  BY <1>11, CountFrame, Zenon DEF vars, key, locals, history, Kept
<1> QED
  BY <1>1, <1>2, <1>3, <1>4, <1>5, <1>6, <1>7, <1>8, <1>9, <1>10, <1>11, Zenon
     DEF Next, Request, Quiet

\* The invariant behind the properties of Enrollment.
THEOREM EnrollmentInvariant == Spec => []EnrollmentInv
<1>1. EnrollmentInv /\ [Next]_vars => EnrollmentInv'
  BY EnrollmentType, VerifiedStep, TokenStep, InsertStep, ResetStep, CountStep, Zenon
     DEF EnrollmentInv
<1> QED
  BY <1>1, EnrollmentInit, PTL DEF Spec

\* An enrolled secret was verified by a code, or written by a Start over one
\* that was (PostEnrollmentStart, PostEnrollmentVerify, PostEnrollmentComplete).
THEOREM OnlyVerifiedHolds == Spec => []OnlyVerified
<1>1. EnrollmentInv => OnlyVerified
  BY Zenon DEF EnrollmentInv, VerifiedInv
<1> QED
  BY <1>1, EnrollmentInvariant, PTL

\* An enrolled account has recovery codes, and one that is not has only those
\* that a Complete committed between the two statements of a reset
\* (PostEnrollmentComplete, ResetMFA, PostDisableMfa).
THEOREM CodesFollowEnrollmentHolds == Spec => []CodesFollowEnrollment
<1>1. EnrollmentInv => CodesFollowEnrollment
  BY Zenon DEF EnrollmentInv, ResetInv
<1> QED
  BY <1>1, EnrollmentInvariant, PTL

\* A set of recovery codes is inserted once, but by overlapping Completes of its
\* token or after a DEL that failed (PostEnrollmentComplete).
THEOREM CodesInsertedOnceHolds == Spec => []CodesInsertedOnce
<1>1. EnrollmentInv => CodesInsertedOnce
  BY Zenon DEF EnrollmentInv, InsertInv
<1> QED
  BY <1>1, EnrollmentInvariant, PTL

\* A token whose key is gone is never valid again, whatever Start and Verify
\* write under it (ResolveEnrollPrincipal, PostEnrollmentVerify).
THEOREM ClosedForGoodHolds == Spec => []ClosedForGood
<1>1. EnrollmentInv => ClosedForGood
  BY Zenon DEF EnrollmentInv, TokenInv
<1> QED
  BY <1>1, EnrollmentInvariant, PTL

\* Under one token at most mfaEnrollVerifyMaxAttempts codes are compared, by any
\* number of requests at once (PostEnrollmentVerify).
THEOREM AttemptsBoundedHolds == Spec => []AttemptsBounded
<1>1. EnrollmentInv => AttemptsBounded
  BY Zenon DEF EnrollmentInv, CountInv
<1> QED
  BY <1>1, EnrollmentInvariant, PTL

=============================================================================
