------------------------------ MODULE Enrollment ------------------------------
(***************************************************************************)
(* The enrollment of one account's second factor, internal/auth/mfa.go:    *)
(* Start, Verify and Complete over a hash mfa:enroll:<token> in Valkey,    *)
(* against each other and against the reset of the factor by an            *)
(* administrator or by its owner.  A Valkey command is one step.  Complete *)
(* writes the users row first and a reset writes it last, so each commits  *)
(* in the step in which it has that row; the statement of a reset that     *)
(* deletes the recovery codes is a step before.  The ten recovery codes of *)
(* a verification are one value, named by the secret that was verified.    *)
(* Sessions, last_login_at and return_to are left out: module Sessions.    *)
(***************************************************************************)
EXTENDS Naturals, FiniteSets

CONSTANTS
    Procs,              \* requests in flight
    Tokens, NoToken,    \* enrollment tokens that may be issued (a bound)
    Secrets, NoSecret,  \* TOTP secrets that may be generated (a bound)
    Attempts,           \* mfaEnrollVerifyMaxAttempts
    MaxTries,           \* bound on verify_attempts
    MaxCopies           \* bound on the insertions of one set of recovery codes

ASSUME EnrollmentAssumption ==
    /\ IsFiniteSet(Procs) /\ NoToken \notin Tokens /\ NoSecret \notin Secrets
    /\ Attempts \in Nat /\ MaxTries \in Nat /\ MaxCopies \in Nat

VARIABLES
    totp,           \* totp_secret_encrypted, set exactly if totp_enrolled_at is
    codes,          \* totp_recovery_codes: <<set, n>> for the n-th insertion of a set
    issued,         \* tokens handed out
    user,           \* tokens whose hash has its user_id ...
    secret, hashes, tries,  \* ... and secret_base32, recovery_hashes, verify_attempts
    pc, tok,        \* a request's step and token
    sec, set,       \* the secret and the recovery_hashes it has read
    dels,           \* the rows that its DELETE has found
    \* History, read by properties only:
    home,           \* the token that a secret was generated for
    inserted,       \* rows inserted so far
    verified,       \* secrets for which a code was right
    restarted,      \* secrets that replaced one that was verified or being verified
    raced,          \* sets inserted while a reset had its DELETE behind it
    again,          \* sets read by two Completes of one token
    kept,           \* tokens whose DEL after a commit failed
    closed,         \* tokens whose key has been deleted or has expired
    checks          \* codes compared under each token while its key was open

account == <<totp, codes>>
key == <<user, secret, hashes, tries>>
locals == <<tok, sec, set, dels>>
history == <<home, inserted, verified, restarted, raced, again, kept, closed, checks>>
vars == <<account, issued, key, pc, locals, history>>

MaybeSecret == Secrets \cup {NoSecret}
Rows == Secrets \X (1..MaxCopies)

Steps == {"idle", "open", "openSession", "check", "secret", "drop", "validate",
          "hashes", "enroll", "clean", "delete", "wait", "clear"}

TypeOK ==
    /\ totp \in MaybeSecret /\ codes \subseteq Rows
    /\ issued \subseteq Tokens /\ user \subseteq Tokens
    /\ secret \in [Tokens -> MaybeSecret] /\ hashes \in [Tokens -> MaybeSecret]
    /\ tries \in [Tokens -> Nat]
    /\ pc \in [Procs -> Steps] /\ tok \in [Procs -> Tokens \cup {NoToken}]
    /\ sec \in [Procs -> MaybeSecret] /\ set \in [Procs -> MaybeSecret]
    /\ dels \in [Procs -> SUBSET Rows]
    /\ home \in [Secrets -> Tokens \cup {NoToken}] /\ inserted \subseteq Rows
    /\ verified \subseteq Secrets /\ restarted \subseteq Secrets
    /\ raced \subseteq Secrets /\ again \subseteq Secrets
    /\ kept \subseteq Tokens /\ closed \subseteq Tokens
    /\ checks \in [Tokens -> Nat]

-----------------------------------------------------------------------------
Goto(p, label) == pc' = [pc EXCEPT ![p] = label]

Return(p) ==
    /\ Goto(p, "idle")
    /\ tok' = [tok EXCEPT ![p] = NoToken]
    /\ sec' = [sec EXCEPT ![p] = NoSecret] /\ set' = [set EXCEPT ![p] = NoSecret]
    /\ dels' = [dels EXCEPT ![p] = {}]

\* DEL, and what expiry does.
Wipe(t) ==
    /\ user' = user \ {t} /\ secret' = [secret EXCEPT ![t] = NoSecret]
    /\ hashes' = [hashes EXCEPT ![t] = NoSecret] /\ tries' = [tries EXCEPT ![t] = 0]
    /\ closed' = closed \cup {t}

\* A key has a lifetime from the writes of user_id and of the secret.
Expire(t) ==
    /\ t \in user \/ secret[t] # NoSecret
    /\ Wipe(t)
    /\ UNCHANGED <<account, issued, pc, locals, home, inserted, verified, restarted, raced,
                   again, kept, checks>>

-----------------------------------------------------------------------------
(* A token comes from PostLogin, or from Start under a session. *)

\* Both have read the row before.
PostLogin(p) ==
    /\ pc[p] = "idle" /\ totp = NoSecret
    /\ Goto(p, "open")
    /\ UNCHANGED <<account, issued, key, locals, history>>

ResolveSession(p) ==
    /\ pc[p] = "idle" /\ totp = NoSecret
    /\ Goto(p, "openSession")
    /\ UNCHANGED <<account, issued, key, locals, history>>

\* HSET user_id under a new token.
OpenToken(p) ==
    /\ pc[p] \in {"open", "openSession"}
    /\ \E t \in Tokens \ issued :
         /\ issued' = issued \cup {t}
         /\ user' = user \cup {t}
         /\ IF pc[p] = "open" THEN Return(p)
            ELSE /\ tok' = [tok EXCEPT ![p] = t]
                 /\ Goto(p, "check")
                 /\ UNCHANGED <<sec, set, dels>>
    /\ UNCHANGED <<account, secret, hashes, tries, history>>

-----------------------------------------------------------------------------
(* PostEnrollmentStart *)

ResolveEnrollPrincipal(p, t) ==
    /\ pc[p] = "idle" /\ t \in user
    /\ tok' = [tok EXCEPT ![p] = t]
    /\ Goto(p, "check")
    /\ UNCHANGED <<account, issued, key, sec, set, dels, history>>

CheckNotEnrolled(p) ==
    /\ pc[p] = "check" /\ totp = NoSecret
    /\ Goto(p, "secret")
    /\ UNCHANGED <<account, issued, key, locals, history>>

\* Mutant: user_id is written along with the secret.
HSetUserAndSecret(p) ==
    /\ pc[p] = "secret"
    /\ \E s \in Secrets :
         /\ home[s] = NoToken /\ home' = [home EXCEPT ![s] = tok[p]]
         /\ secret' = [secret EXCEPT ![tok[p]] = s] /\ user' = user \cup {tok[p]}
    /\ Return(p)
    /\ UNCHANGED <<account, issued, hashes, tries, inserted, verified, restarted, raced, again, kept, closed,
                   checks>>

\* Somebody has verified, or is about to record, another secret of the token.
Verifying(t) ==
    hashes[t] # NoSecret \/ \E q \in Procs : pc[q] = "hashes" /\ tok[q] = t

\* "The new call is authoritative": recovery_hashes and verify_attempts stay.
HSetSecret(p) ==
    /\ pc[p] = "secret"
    /\ \E s \in Secrets :
         /\ home[s] = NoToken /\ home' = [home EXCEPT ![s] = tok[p]]
         /\ secret' = [secret EXCEPT ![tok[p]] = s]
         /\ restarted' = IF Verifying(tok[p]) THEN restarted \cup {s} ELSE restarted
    /\ Return(p)
    /\ UNCHANGED <<account, issued, user, hashes, tries, inserted, verified, raced, again, kept,
                   closed, checks>>

-----------------------------------------------------------------------------
(* PostEnrollmentVerify *)

\* Mutant: the counter is read now and counted later.
HGetTries(p, t) ==
    /\ pc[p] = "idle" /\ t \in issued /\ tries[t] < MaxTries
    /\ tok' = [tok EXCEPT ![p] = t]
    /\ Goto(p, IF tries[t] >= Attempts THEN "drop" ELSE "validate")
    /\ UNCHANGED <<account, issued, key, sec, set, dels, history>>

\* A key that is gone is made anew, without a lifetime.
HIncrBy(p, t) ==
    /\ pc[p] = "idle" /\ t \in issued /\ tries[t] < MaxTries
    /\ tries' = [tries EXCEPT ![t] = @ + 1]
    /\ tok' = [tok EXCEPT ![p] = t]
    /\ Goto(p, IF tries[t] + 1 > Attempts THEN "drop" ELSE "validate")
    /\ UNCHANGED <<account, issued, user, secret, hashes, sec, set, dels, history>>

DropKey(p) ==
    /\ pc[p] = "drop"
    /\ Wipe(tok[p])
    /\ Return(p)
    /\ UNCHANGED <<account, issued, home, inserted, verified, restarted, raced, again, kept,
                   checks>>

\* HGET secret_base32 and ValidateTOTP: a right code ...
Check(t) == checks' = IF t \in user THEN [checks EXCEPT ![t] = @ + 1] ELSE checks

ValidateTOTP(p) ==
    /\ pc[p] = "validate" /\ secret[tok[p]] # NoSecret
    /\ sec' = [sec EXCEPT ![p] = secret[tok[p]]]
    /\ verified' = verified \cup {secret[tok[p]]}
    /\ Check(tok[p])
    /\ Goto(p, "hashes")
    /\ UNCHANGED <<account, issued, key, tok, set, dels, home, inserted, restarted, raced,
                   again, kept, closed>>

\* ... or a wrong one.
InvalidCode(p) ==
    /\ pc[p] = "validate" /\ secret[tok[p]] # NoSecret
    /\ Check(tok[p])
    /\ Return(p)
    /\ UNCHANGED <<account, issued, key, home, inserted, verified, restarted, raced, again,
                   kept, closed>>

\* The codes are generated and their hashes stored.
HSetHashes(p) ==
    /\ pc[p] = "hashes"
    /\ hashes' = [hashes EXCEPT ![tok[p]] = sec[p]]
    /\ Return(p)
    /\ UNCHANGED <<account, issued, user, secret, tries, history>>

-----------------------------------------------------------------------------
(* PostEnrollmentComplete *)

Completing(q, t) == tok[q] = t /\ pc[q] \in {"enroll", "clean"}

\* Mutant: whether a code was verified is not looked at.
HGetAllUnverified(p, t) ==
    /\ pc[p] = "idle" /\ t \in user /\ secret[t] # NoSecret
    /\ tok' = [tok EXCEPT ![p] = t]
    /\ sec' = [sec EXCEPT ![p] = secret[t]]
    /\ set' = [set EXCEPT ![p] = secret[t]]
    /\ Goto(p, "enroll")
    /\ UNCHANGED <<account, issued, key, dels, history>>

HGetAll(p, t) ==
    /\ pc[p] = "idle"
    /\ t \in user /\ secret[t] # NoSecret /\ hashes[t] # NoSecret
    /\ tok' = [tok EXCEPT ![p] = t]
    /\ sec' = [sec EXCEPT ![p] = secret[t]]
    /\ set' = [set EXCEPT ![p] = hashes[t]]
    /\ again' = IF t \in kept \/ \E q \in Procs : Completing(q, t)
                THEN again \cup {hashes[t]} ELSE again
    /\ Goto(p, "enroll")
    /\ UNCHANGED <<account, issued, key, dels, home, inserted, verified, restarted, raced,
                   kept, closed, checks>>

\* SetTOTPEnrolled, the recovery codes and the commit.
SetTOTPEnrolled(p) ==
    /\ pc[p] = "enroll"
    /\ totp' = sec[p]
    /\ \E n \in 1..MaxCopies :
         /\ <<set[p], n>> \notin inserted /\ \A i \in 1..(n - 1) : <<set[p], i>> \in inserted
         /\ codes' = codes \cup {<<set[p], n>>} /\ inserted' = inserted \cup {<<set[p], n>>}
    /\ raced' = IF \E q \in Procs : pc[q] \in {"wait", "clear"} THEN raced \cup {set[p]} ELSE raced
    /\ Goto(p, "clean")
    /\ UNCHANGED <<issued, key, locals, home, verified, restarted, again, kept, closed,
                   checks>>

\* Mutant: only the counter is removed.
DelTries(p) ==
    /\ pc[p] = "clean"
    /\ tries' = [tries EXCEPT ![tok[p]] = 0]
    /\ Return(p)
    /\ UNCHANGED <<account, issued, user, secret, hashes, history>>

DelKey(p) ==
    /\ pc[p] = "clean"
    /\ Wipe(tok[p])
    /\ Return(p)
    /\ UNCHANGED <<account, issued, home, inserted, verified, restarted, raced, again, kept,
                   checks>>

-----------------------------------------------------------------------------
(* ResetMFA, and PostDisableMfa *)

ResetMFA(p) ==
    /\ pc[p] = "idle" /\ totp # NoSecret
    /\ Goto(p, "delete")
    /\ UNCHANGED <<account, issued, key, locals, history>>

\* The DELETE finds the rows that are committed when it starts ...
DeleteAllForUser(p) ==
    /\ pc[p] = "delete"
    /\ dels' = [dels EXCEPT ![p] = codes]
    /\ Goto(p, "wait")
    /\ UNCHANGED <<account, issued, key, tok, sec, set, history>>

\* ... and waits for another reset that has deleted some of them.
RowsDeleted(p) ==
    /\ pc[p] = "wait"
    /\ \A q \in Procs : pc[q] = "clear" => dels[q] \cap dels[p] = {}
    /\ Goto(p, "clear")
    /\ UNCHANGED <<account, issued, key, locals, history>>

\* Mutant: the codes stay.
ClearTOTPOnly(p) ==
    /\ pc[p] = "clear"
    /\ totp' = NoSecret
    /\ Return(p)
    /\ UNCHANGED <<codes, issued, key, history>>

\* ClearTOTP and the commit.
ClearTOTP(p) ==
    /\ pc[p] = "clear"
    /\ totp' = NoSecret /\ codes' = codes \ dels[p]
    /\ Return(p)
    /\ UNCHANGED <<issued, key, history>>

-----------------------------------------------------------------------------
\* A request that changes nothing.
Reject(p) ==
    /\ pc[p] = "idle"
    /\ UNCHANGED vars

\* A rejection or an error on the way.  After the commit of Complete it can
\* only be the DEL that failed.
Fail(p) ==
    /\ pc[p] # "idle"
    /\ kept' = IF pc[p] = "clean" THEN kept \cup {tok[p]} ELSE kept
    /\ Return(p)
    /\ UNCHANGED <<account, issued, key, home, inserted, verified, restarted, raced, again,
                   closed, checks>>

Init ==
    /\ totp = NoSecret /\ codes = {} /\ issued = {}
    /\ user = {} /\ tries = [t \in Tokens |-> 0]
    /\ secret = [t \in Tokens |-> NoSecret] /\ hashes = [t \in Tokens |-> NoSecret]
    /\ pc = [p \in Procs |-> "idle"] /\ tok = [p \in Procs |-> NoToken]
    /\ sec = [p \in Procs |-> NoSecret] /\ set = [p \in Procs |-> NoSecret]
    /\ dels = [p \in Procs |-> {}]
    /\ home = [s \in Secrets |-> NoToken] /\ inserted = {} /\ verified = {} /\ restarted = {} /\ raced = {}
    /\ again = {} /\ kept = {} /\ closed = {} /\ checks = [t \in Tokens |-> 0]

Request(p) ==
    \/ PostLogin(p) \/ ResolveSession(p) \/ OpenToken(p) \/ CheckNotEnrolled(p) \/ HSetSecret(p)
    \/ DropKey(p) \/ ValidateTOTP(p) \/ InvalidCode(p) \/ HSetHashes(p)
    \/ SetTOTPEnrolled(p) \/ DelKey(p)
    \/ ResetMFA(p) \/ DeleteAllForUser(p) \/ RowsDeleted(p) \/ ClearTOTP(p)
    \/ Reject(p) \/ Fail(p)

Next ==
    \/ \E t \in Tokens : Expire(t)
    \/ \E p \in Procs :
         \/ Request(p)
         \/ \E t \in Tokens : ResolveEnrollPrincipal(p, t) \/ HIncrBy(p, t) \/ HGetAll(p, t)

Spec == Init /\ [][Next]_vars

-----------------------------------------------------------------------------
(* Properties *)

\* "Please verify a code first": the secret of an enrolled account was
\* verified by a code.  The one exception is a secret that a Start wrote to a
\* token that had been, or was just being, verified with another secret
\* (PostEnrollmentStart keeps recovery_hashes).
OnlyVerified == totp # NoSecret => totp \in verified \cup restarted

\* Recovery codes come and go with the enrollment: an enrolled account has
\* some, and one that is not has none.  The one exception are the codes of a
\* Complete that committed between the two statements of a reset
\* (PostEnrollmentComplete against ResetMFA and PostDisableMfa).
CodesFollowEnrollment ==
    /\ totp # NoSecret => codes # {}
    /\ totp = NoSecret => \A r \in codes : r[1] \in raced

\* "Single-use codes": the codes of an enrollment are inserted once.  Only
\* Completes of the same token that overlap, or a DEL that fails, insert them
\* again (PostEnrollmentComplete reads the key before its transaction and
\* removes it after).
CodesInsertedOnce ==
    \A r, q \in inserted : r[1] = q[1] /\ r # q => r[1] \in again

\* A token that was completed, given up after too many attempts or expired
\* never becomes valid again, although Start and Verify may make its key anew.
ClosedForGood == closed \cap user = {}

\* Under one token no more codes are compared than there are attempts,
\* however many requests verify at the same time (HIncrBy comes first).
AttemptsBounded == \A t \in Tokens : checks[t] <= Attempts

-----------------------------------------------------------------------------
(* The invariant behind these. *)

\* A token has recovery hashes, or is about to get them, only while its secret
\* is accounted for, so Complete reads one that is (HSetSecret, HSetHashes,
\* HGetAll).
Accounted(t) == secret[t] \in verified \cup restarted \cup {NoSecret}

VerifiedInv ==
    /\ OnlyVerified
    /\ \A t \in Tokens : hashes[t] # NoSecret => Accounted(t) /\ hashes[t] \in verified
    /\ \A p \in Procs :
         /\ pc[p] = "hashes" => Accounted(tok[p]) /\ sec[p] \in verified
         /\ pc[p] = "enroll" => sec[p] \in verified \cup restarted /\ set[p] \in verified

WithToken == {"check", "secret", "drop", "validate", "hashes", "enroll", "clean"}

\* A token is open only if it was issued and not yet closed, and what comes of
\* a secret stays with the token it was generated for (OpenToken, HSetSecret).
TokenInv ==
    /\ ClosedForGood /\ user \subseteq issued /\ closed \subseteq issued
    /\ \A t \in Tokens :
         /\ t \notin issued => tries[t] = 0 /\ secret[t] = NoSecret /\ hashes[t] = NoSecret
         /\ secret[t] # NoSecret => home[secret[t]] = t
         /\ hashes[t] # NoSecret => home[hashes[t]] = t
    /\ \A p \in Procs :
         /\ pc[p] \in WithToken => tok[p] \in issued
         /\ pc[p] = "hashes" => sec[p] # NoSecret /\ home[sec[p]] = tok[p]
         /\ pc[p] \in {"enroll", "clean"} => set[p] # NoSecret /\ home[set[p]] = tok[p]

\* A set that is read once is inserted once: after that its token is closed,
\* about to be closed, or one whose DEL failed (HGetAll, SetTOTPEnrolled, DelKey).
Inserted(s) == \E n \in 1..MaxCopies : <<s, n>> \in inserted

InsertInv ==
    /\ CodesInsertedOnce
    /\ \A s \in Secrets \ again :
         Inserted(s) =>
           home[s] \in closed \cup kept \/ \E q \in Procs : pc[q] = "clean" /\ tok[q] = home[s]
    /\ \A p \in Procs :
         pc[p] = "enroll" /\ set[p] \notin again =>
           /\ ~Inserted(set[p])
           /\ \A q \in Procs : pc[q] = "enroll" /\ set[q] = set[p] => q = p

\* What a reset has not found was inserted behind its back (DeleteAllForUser,
\* ClearTOTP).
ResetInv ==
    /\ CodesFollowEnrollment
    /\ \A p \in Procs :
         pc[p] \in {"wait", "clear"} => \A r \in codes \ dels[p] : r[1] \in raced

\* The codes compared under an open token, and those that are about to be, have
\* been counted (HIncrBy, ValidateTOTP, InvalidCode).
Validating(t) == {p \in Procs : pc[p] = "validate" /\ tok[p] = t}

CountInv ==
    /\ AttemptsBounded
    /\ \A t \in Tokens : t \notin issued => checks[t] = 0
    /\ \A t \in user :
         checks[t] + Cardinality(Validating(t)) <= tries[t] /\
         checks[t] + Cardinality(Validating(t)) <= Attempts

EnrollmentInv == TypeOK /\ VerifiedInv /\ TokenInv /\ InsertInv /\ ResetInv /\ CountInv

=============================================================================
