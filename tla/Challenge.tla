------------------------------ MODULE Challenge ------------------------------
(***************************************************************************)
(* The second factor of one account: PostChallenge of internal/auth/mfa.go *)
(* with TOTP codes and recovery codes.  The clock counts TOTP periods of   *)
(* 30 seconds, from 1, and a TOTP code is the period it was made for.  A   *)
(* Valkey command and a transaction are one step each; the row, the list   *)
(* of codes and the clock are read in steps of their own.                  *)
(***************************************************************************)
EXTENDS Integers, FiniteSets

CONSTANTS
    Procs,                      \* requests in flight
    Challenges, NoChallenge,    \* challenge tokens that may be issued (a bound)
    Codes, NoCode,              \* the recovery codes of the enrollment
    Attempts,                   \* attempts_remaining of a new challenge (5)
    MaxTime                     \* a bound on the clock

ASSUME ChallengeAssumption ==
    /\ IsFiniteSet(Procs)
    /\ NoChallenge \notin Challenges /\ NoCode \notin Codes
    /\ Attempts \in Nat \ {0} /\ MaxTime \in Nat \ {0}

VARIABLES
    now,
    enrolled,       \* whether there is a TOTP secret
    counter,        \* last_used_totp_counter
    unused,         \* the recovery codes whose used_at is NULL
    issued,         \* challenge tokens that have been handed out
    user, left,     \* mfa:challenge:<token>: the keys that have a user_id, and
                    \* attempts_remaining, 0 when there is no such key
    pc, ch,         \* a request's step and challenge token
    code, rec,      \* its TOTP code, 0 for a wrong one, or its recovery code
    rem, last,      \* its remaining attempts, and the counter it has read
    \* History, read by properties only:
    tried,          \* verifications made with each challenge
    uses,           \* logins each recovery code has completed
    highest,        \* the latest period of a TOTP code that has been accepted
    crossed         \* an accepted code's counter was written by another request,
                    \* or cleared, after it had been read

account == <<enrolled, counter, unused>>
keys == <<user, left>>
locals == <<ch, code, rec, rem, last>>
totpHistory == <<highest, crossed>>
history == <<tried, uses, totpHistory>>
vars == <<now, account, issued, keys, pc, locals, history>>

Periods == 0..MaxTime + 1

Steps == {"idle", "decrement", "drop", "load", "read", "validate", "advance", "list", "burn",
          "done"}

TypeOK ==
    /\ now \in 1..MaxTime
    /\ enrolled \in BOOLEAN /\ counter \in Periods /\ unused \subseteq Codes
    /\ issued \subseteq Challenges
    /\ user \subseteq Challenges /\ left \in [Challenges -> -1..Attempts]
    /\ pc \in [Procs -> Steps]
    /\ ch \in [Procs -> Challenges \cup {NoChallenge}]
    /\ code \in [Procs -> Periods] /\ rec \in [Procs -> Codes \cup {NoCode}]
    /\ rem \in [Procs -> -1..Attempts] /\ last \in [Procs -> Periods]
    /\ tried \in [Challenges -> Nat] /\ uses \in [Codes -> Nat]
    /\ highest \in Periods /\ crossed \in BOOLEAN

Goto(p, label) == pc' = [pc EXCEPT ![p] = label]

Return(p) ==
    /\ Goto(p, "idle")
    /\ ch' = [ch EXCEPT ![p] = NoChallenge]
    /\ code' = [code EXCEPT ![p] = 0] /\ rec' = [rec EXCEPT ![p] = NoCode]
    /\ rem' = [rem EXCEPT ![p] = 0] /\ last' = [last EXCEPT ![p] = 0]

Tick ==
    /\ now < MaxTime
    /\ now' = now + 1
    /\ UNCHANGED <<account, issued, keys, pc, locals, history>>

-----------------------------------------------------------------------------
(* What happens around the requests *)

\* PostLogin has accepted a password and writes the challenge.
IssueChallenge(c) ==
    /\ c \notin issued
    /\ issued' = issued \cup {c}
    /\ user' = user \cup {c}
    /\ left' = [left EXCEPT ![c] = Attempts]
    /\ UNCHANGED <<now, account, pc, locals, history>>

\* A challenge lives 120 seconds.
Expire(c) ==
    /\ c \in user
    /\ user' = user \ {c}
    /\ left' = [left EXCEPT ![c] = 0]
    /\ UNCHANGED <<now, account, issued, pc, locals, history>>

\* The recovery codes are deleted and the secret is cleared.
ResetMFA ==
    /\ enrolled
    /\ enrolled' = FALSE /\ counter' = 0 /\ unused' = {}
    /\ highest' = 0
    /\ UNCHANGED <<now, issued, keys, pc, locals, tried, uses, crossed>>

-----------------------------------------------------------------------------
(* PostChallenge *)

\* With a TOTP code of a period near the present one, a wrong one, or a
\* recovery code; the key of the challenge may be gone.
PostChallenge(p) ==
    /\ pc[p] = "idle"
    /\ \E c \in issued : ch' = [ch EXCEPT ![p] = c]
    /\ \/ \E s \in {0} \cup (now - 1)..(now + 1) :
            code' = [code EXCEPT ![p] = s] /\ UNCHANGED rec
       \/ \E r \in Codes : rec' = [rec EXCEPT ![p] = r] /\ UNCHANGED code
    /\ Goto(p, "decrement")
    /\ UNCHANGED <<now, account, issued, keys, rem, last, history>>

\* Counts below zero are all alike.
OneLess(n) == IF n > 0 THEN n - 1 ELSE -1

\* Mutant: the counter is read here and not written.
ReadAttempts(p) ==
    /\ pc[p] = "decrement"
    /\ rem' = [rem EXCEPT ![p] = OneLess(left[ch[p]])]
    /\ Goto(p, IF left[ch[p]] <= 0 THEN "drop" ELSE "load")
    /\ UNCHANGED <<now, account, issued, keys, ch, code, rec, last, history>>

\* HINCRBY -1, which makes the key anew if it is gone.
Decrement(p) ==
    /\ pc[p] = "decrement"
    /\ left' = [left EXCEPT ![ch[p]] = OneLess(@)]
    /\ rem' = [rem EXCEPT ![p] = OneLess(left[ch[p]])]
    /\ Goto(p, IF left[ch[p]] <= 0 THEN "drop" ELSE "load")
    /\ UNCHANGED <<now, account, issued, user, ch, code, rec, last, history>>

DelChallenge(c) ==
    /\ user' = user \ {c}
    /\ left' = [left EXCEPT ![c] = 0]

\* The attempts are used up: DEL, and the audit row.
DropChallenge(p) ==
    /\ pc[p] = "drop"
    /\ DelChallenge(ch[p])
    /\ Return(p)
    /\ UNCHANGED <<now, account, issued, history>>

\* HGET user_id
LoadChallenge(p) ==
    /\ pc[p] = "load" /\ ch[p] \in user
    /\ Goto(p, "read")
    /\ UNCHANGED <<now, account, issued, keys, locals, history>>

ChallengeExpired(p) ==
    /\ pc[p] = "load" /\ ch[p] \notin user
    /\ Return(p)
    /\ UNCHANGED <<now, account, issued, keys, history>>

\* GetByID; a secret that is not there cannot be decrypted (Fail), but a
\* malformed code is turned away without it.
ReadUser(p) ==
    /\ pc[p] = "read"
    /\ \/ /\ rec[p] # NoCode
          /\ Goto(p, "list")
          /\ UNCHANGED last
       \/ /\ rec[p] = NoCode /\ (enrolled \/ code[p] = 0)
          /\ Goto(p, "validate")
          /\ last' = [last EXCEPT ![p] = counter]
    /\ UNCHANGED <<now, account, issued, keys, ch, code, rec, rem, history>>

CountTry(p) == tried' = [tried EXCEPT ![ch[p]] = @ + 1]

\* Mutant: the period of the last code is accepted again.
ValidAgain(p) == code[p] \in (now - 1)..(now + 1) /\ code[p] >= last[p]

\* ValidateTOTP: the period is near and later than the counter that was read.
Valid(p) == code[p] \in (now - 1)..(now + 1) /\ code[p] > last[p]

AcceptTOTP(p) ==
    /\ pc[p] = "validate" /\ Valid(p)
    /\ CountTry(p)
    /\ Goto(p, "advance")
    /\ UNCHANGED <<now, account, issued, keys, locals, uses, totpHistory>>

\* Only the last attempt deletes the challenge.
RejectTOTP(p) ==
    /\ pc[p] = "validate" /\ ~Valid(p)
    /\ CountTry(p)
    /\ IF rem[p] = 0 THEN Goto(p, "drop") /\ UNCHANGED locals ELSE Return(p)
    /\ UNCHANGED <<now, account, issued, keys, uses, totpHistory>>

\* The setter does not compare, and the commit.
AdvanceTOTPCounter(p) ==
    /\ pc[p] = "advance"
    /\ counter' = code[p]
    /\ highest' = IF code[p] > highest THEN code[p] ELSE highest
    /\ crossed' = (crossed \/ counter # last[p])
    /\ Goto(p, "done")
    /\ UNCHANGED <<now, enrolled, unused, issued, keys, locals, tried, uses>>

\* verifyRecoveryCode compares the code with the list of the unused ones ...
ListUnused(p) ==
    /\ pc[p] = "list" /\ rec[p] \in unused
    /\ CountTry(p)
    /\ Goto(p, "burn")
    /\ UNCHANGED <<now, account, issued, keys, locals, uses, totpHistory>>

\* ... a mismatch leaves the challenge as it is ...
RejectRecoveryCode(p) ==
    /\ pc[p] = "list" /\ rec[p] \notin unused
    /\ CountTry(p)
    /\ Return(p)
    /\ UNCHANGED <<now, account, issued, keys, uses, totpHistory>>

\* Mutant: the UPDATE without AND used_at IS NULL.
MarkUsedAgain(p) ==
    /\ pc[p] = "burn"
    /\ unused' = unused \ {rec[p]}
    /\ uses' = [uses EXCEPT ![rec[p]] = @ + 1]
    /\ Goto(p, "done")
    /\ UNCHANGED <<now, enrolled, counter, issued, keys, locals, tried, totpHistory>>

\* ... and MarkUsed burns it if it is still unused (otherwise Fail).
MarkUsed(p) ==
    /\ pc[p] = "burn" /\ rec[p] \in unused
    /\ unused' = unused \ {rec[p]}
    /\ uses' = [uses EXCEPT ![rec[p]] = @ + 1]
    /\ Goto(p, "done")
    /\ UNCHANGED <<now, enrolled, counter, issued, keys, locals, tried, totpHistory>>

\* The challenge is deleted, and the session created (module Sessions).
CompleteChallenge(p) ==
    /\ pc[p] = "done"
    /\ DelChallenge(ch[p])
    /\ Return(p)
    /\ UNCHANGED <<now, account, issued, history>>

\* Any error ends the request with what it has done so far.
Fail(p) ==
    /\ pc[p] # "idle"
    /\ Return(p)
    /\ UNCHANGED <<now, account, issued, keys, history>>

-----------------------------------------------------------------------------
Init ==
    /\ now = 1
    /\ enrolled = TRUE /\ counter = 0 /\ unused = Codes
    /\ issued = {}
    /\ user = {} /\ left = [c \in Challenges |-> 0]
    /\ pc = [p \in Procs |-> "idle"] /\ ch = [p \in Procs |-> NoChallenge]
    /\ code = [p \in Procs |-> 0] /\ rec = [p \in Procs |-> NoCode]
    /\ rem = [p \in Procs |-> 0] /\ last = [p \in Procs |-> 0]
    /\ tried = [c \in Challenges |-> 0] /\ uses = [r \in Codes |-> 0]
    /\ highest = 0 /\ crossed = FALSE

Next ==
    \/ Tick \/ ResetMFA
    \/ \E c \in Challenges : IssueChallenge(c) \/ Expire(c)
    \/ \E p \in Procs :
         \/ PostChallenge(p) \/ Decrement(p) \/ DropChallenge(p) \/ LoadChallenge(p)
         \/ ChallengeExpired(p) \/ ReadUser(p) \/ AcceptTOTP(p) \/ RejectTOTP(p)
         \/ AdvanceTOTPCounter(p) \/ ListUnused(p) \/ RejectRecoveryCode(p) \/ MarkUsed(p)
         \/ CompleteChallenge(p) \/ Fail(p)

Spec == Init /\ [][Next]_vars

-----------------------------------------------------------------------------
(* Properties *)

\* At most Attempts codes are verified with one challenge, however many
\* requests use it at a time, and a deleted challenge that HINCRBY makes anew
\* gives no new attempts (PostChallenge, "Decrement-before-verify").
AttemptsBounded == \A c \in Challenges : tried[c] <= Attempts

\* A recovery code completes at most one login, even when several requests,
\* with the same or another challenge, have found it in the list of unused
\* ones (verifyRecoveryCode lists on the pool, MarkUsed burns).
RecoveryCodeBurnsOnce == \A r \in Codes : uses[r] <= 1

\* A TOTP code is accepted for a period that is not later than all those
\* accepted before only if two requests have crossed: the one that wrote the
\* counter last had read it before another wrote it.  Such a write may also
\* put the counter back, and then the other one's code is accepted again
\* (PostChallenge reads the row on the pool, AdvanceTOTPCounter does not
\* compare; "so a code cannot authenticate twice in its 30-second window",
\* docs/security.md).
TOTPReplayNeedsCrossing ==
    [][\A p \in Procs : pc[p] = "advance" /\ pc'[p] = "done" =>
          code[p] > highest \/ crossed']_vars

-----------------------------------------------------------------------------
(* The recovery codes as single-use credentials. *)

recoveryState ==
    [r \in Codes |-> IF r \in unused THEN "live" ELSE IF uses[r] = 0 THEN "void" ELSE "spent"]

RecoverySpec == INSTANCE OneShot WITH Ids <- Codes, state <- recoveryState, uses <- uses

\* PostChallenge implements OneShot for the recovery codes: the UPDATE of
\* MarkUsed spends the code with the login it completes, and those that
\* ResetMFA has deleted complete none.
RecoveryCodesAreOneShot == RecoverySpec!Spec

-----------------------------------------------------------------------------
(* The invariant behind the properties. *)

\* Unless requests have crossed, the counter is that of the latest code, and
\* a code that is about to be accepted is later than the counter it was
\* compared with; a code in the list has completed no login.
FactorInv ==
    /\ ~crossed => counter = highest
    /\ \A r \in unused : uses[r] = 0
    /\ \A p \in Procs :
         /\ pc[p] = "advance" => code[p] > last[p]
         /\ pc[p] \in {"list", "burn"} => rec[p] \in Codes

\* The requests that have taken an attempt and have not used it yet.
Verifying(c) ==
    {p \in Procs : ch[p] = c /\ pc[p] \in {"load", "read", "validate", "list"}}

\* What was tried, what is about to be tried and what is left do not exceed
\* the attempts of a challenge.
AttemptsInv ==
    \A c \in Challenges :
      /\ tried[c] + Cardinality(Verifying(c)) + (IF left[c] > 0 THEN left[c] ELSE 0) <= Attempts
      /\ c \notin issued => tried[c] = 0

\* What the attempts left say is right: a key that HINCRBY has made anew, or
\* that nobody was given, has none, and a request that goes on to verify a
\* code has taken one from the challenge it was given.
ChallengeInv ==
    /\ TypeOK /\ FactorInv /\ RecoveryCodeBurnsOnce
    /\ \A c \in Challenges : left[c] > 0 => c \in user \cap issued
    /\ \A p \in Procs :
         /\ pc[p] # "idle" => ch[p] \in issued
         /\ pc[p] \in Steps \ {"idle", "decrement", "drop"} => rem[p] >= 0

=============================================================================
