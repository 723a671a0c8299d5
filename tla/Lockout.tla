------------------------------- MODULE Lockout -------------------------------
(***************************************************************************)
(* PostLogin and the lockout of one account: internal/auth/handler.go and  *)
(* internal/users/store.go.  A login reads the row, spends its time on the *)
(* hash, and then updates the row under the conditions of its WHERE        *)
(* clause, in which now() is the beginning of the transaction.  The UPDATE *)
(* and its commit are one step: nobody else sees or writes the row between *)
(* them.                                                                   *)
(***************************************************************************)
EXTENDS Naturals

CONSTANTS
    Logins,                 \* logins in flight
    Thresholds, Durations,  \* values the two lockout settings may have
    MaxTime, MaxFailed      \* bounds on the clock and on the failed logins

ASSUME LockoutAssumption ==
    /\ Thresholds \subseteq Nat \ {0} /\ Durations \subseteq Nat \ {0}
    /\ MaxTime \in Nat /\ MaxFailed \in Nat

VARIABLES
    now,
    failed, lockedUntil,    \* failed_login_attempts; locked_until, 0 for NULL
    force, enrolled,        \* force_password_change, totp_enrolled_at
    threshold, duration,    \* lockout_threshold, lockout_duration_secs ...
    mfa,                    \* ... and mfa_required, of instance_config
    step,
    lim, dur,               \* the threshold and duration a login has read
    start,                  \* when a login's transaction began: its now()
    rowForce, rowEnrolled   \* the flags it has read

userRow == <<failed, lockedUntil, force, enrolled>>
config == <<threshold, duration, mfa>>
loginLocals == <<lim, dur, start, rowForce, rowEnrolled>>
lockoutVars == <<now, userRow, config, step, loginLocals>>

\* A password has been accepted, and this is what the login does next.
Accepted == {"session", "challenge", "enroll"}

LockoutTypeOK ==
    /\ now \in Nat \ {0}
    /\ failed \in Nat /\ lockedUntil \in Nat
    /\ force \in BOOLEAN /\ enrolled \in BOOLEAN
    /\ threshold \in Thresholds /\ duration \in Durations /\ mfa \in BOOLEAN
    /\ step \in [Logins -> {"idle", "begin", "lookup", "verify"} \cup Accepted]
    /\ lim \in [Logins -> Thresholds \cup {0}] /\ dur \in [Logins -> Durations \cup {0}]
    /\ start \in [Logins -> Nat]
    /\ rowForce \in [Logins -> BOOLEAN] /\ rowEnrolled \in [Logins -> BOOLEAN]

Advance(p, label) == step' = [step EXCEPT ![p] = label]

Leave(p) ==
    /\ Advance(p, "idle")
    /\ lim' = [lim EXCEPT ![p] = 0] /\ dur' = [dur EXCEPT ![p] = 0]
    /\ start' = [start EXCEPT ![p] = 0]
    /\ rowForce' = [rowForce EXCEPT ![p] = FALSE]
    /\ rowEnrolled' = [rowEnrolled EXCEPT ![p] = FALSE]

ClockTick ==
    /\ now < MaxTime
    /\ now' = now + 1
    /\ UNCHANGED <<userRow, config, step, loginLocals>>

-----------------------------------------------------------------------------
(* The settings and the account change under the logins. *)

\* The settings that the request names; the password policy is left out.
PatchSecurity ==
    /\ threshold' \in Thresholds /\ duration' \in Durations /\ mfa' \in BOOLEAN
    /\ UNCHANGED <<now, userRow, step, loginLocals>>

\* SetPasswordHash, and ClearLockoutForPasswordChange, by an administrator ...
ResetPassword ==
    /\ force' = TRUE
    /\ failed' = 0 /\ lockedUntil' = 0
    /\ UNCHANGED <<now, enrolled, config, step, loginLocals>>

\* ... and with a reset link: PostConfirm of module PasswordReset.
ConfirmReset ==
    /\ force' = FALSE
    /\ failed' = 0 /\ lockedUntil' = 0
    /\ UNCHANGED <<now, enrolled, config, step, loginLocals>>

\* A change of the password by its owner leaves the lockout alone.
PostChangePassword ==
    /\ force' = FALSE
    /\ UNCHANGED <<now, failed, lockedUntil, enrolled, config, step, loginLocals>>

\* SetTOTPEnrolled, or ClearTOTP.
SetEnrolled ==
    /\ enrolled' = ~enrolled
    /\ UNCHANGED <<now, failed, lockedUntil, force, config, step, loginLocals>>

-----------------------------------------------------------------------------
(* PostLogin *)

\* The settings are read on the pool, before the transaction.
PostLogin(p) ==
    /\ step[p] = "idle"
    /\ lim' = [lim EXCEPT ![p] = threshold] /\ dur' = [dur EXCEPT ![p] = duration]
    /\ Advance(p, "begin")
    /\ UNCHANGED <<now, userRow, config, start, rowForce, rowEnrolled>>

BeginLogin(p) ==
    /\ step[p] = "begin"
    /\ start' = [start EXCEPT ![p] = now]
    /\ Advance(p, "lookup")
    /\ UNCHANGED <<now, userRow, config, lim, dur, rowForce, rowEnrolled>>

\* A locked account is answered at once.
GetByEmail(p) ==
    /\ step[p] = "lookup" /\ lockedUntil <= now
    /\ rowForce' = [rowForce EXCEPT ![p] = force]
    /\ rowEnrolled' = [rowEnrolled EXCEPT ![p] = enrolled]
    /\ Advance(p, "verify")
    /\ UNCHANGED <<now, userRow, config, lim, dur, start>>

AnswerLocked(p) ==
    /\ step[p] = "lookup" /\ lockedUntil > now
    /\ Leave(p)
    /\ UNCHANGED <<now, userRow, config>>

\* Mutant: the UPDATE looks only at the row's id.
LockFreeAlways(p) == TRUE

\* The WHERE clause of IncrementFailedLogins and ResetFailedLogins.
LockFree(p) == lockedUntil = 0 \/ lockedUntil < start[p]

\* Mutant: the count must exceed the threshold.
LockAfter(p) == IF failed + 1 > lim[p] THEN start[p] + dur[p] ELSE lockedUntil

\* Its SET locked_until.
NewLock(p) == IF failed + 1 >= lim[p] THEN start[p] + dur[p] ELSE lockedUntil

\* A wrong password is counted and audited; one that finds the account locked
\* by another login is only audited.
IncrementFailedLogins(p) ==
    /\ step[p] = "verify" /\ LockFree(p) /\ failed < MaxFailed
    /\ failed' = failed + 1
    /\ lockedUntil' = NewLock(p)
    /\ Leave(p)
    /\ UNCHANGED <<now, force, enrolled, config>>

LockedConcurrent(p) ==
    /\ step[p] = "verify" /\ ~LockFree(p)
    /\ Leave(p)
    /\ UNCHANGED <<now, userRow, config>>

\* The right password clears the counters.  A forced change comes first, then
\* the second factor if it is required at the commit.
ResetFailedLogins(p) ==
    /\ step[p] = "verify" /\ LockFree(p)
    /\ failed' = 0 /\ lockedUntil' = 0
    /\ Advance(p, IF rowForce[p] \/ ~mfa THEN "session"
               ELSE IF rowEnrolled[p] THEN "challenge" ELSE "enroll")
    /\ UNCHANGED <<now, force, enrolled, config, loginLocals>>

\* The right password for an account that another login has locked meanwhile.
LockedRace(p) ==
    /\ step[p] = "verify" /\ ~LockFree(p)
    /\ Leave(p)
    /\ UNCHANGED <<now, userRow, config>>

\* The commit is followed by the session (module Sessions), the challenge
\* (module Challenge) or the enrollment token.
Answer(p) ==
    /\ step[p] \in Accepted
    /\ Leave(p)
    /\ UNCHANGED <<now, userRow, config>>

\* An error before the commit rolls the transaction back.
LoginFails(p) ==
    /\ step[p] \in {"begin", "lookup", "verify"}
    /\ Leave(p)
    /\ UNCHANGED <<now, userRow, config>>

-----------------------------------------------------------------------------
LockoutInit ==
    /\ now = 1
    /\ failed = 0 /\ lockedUntil = 0
    /\ force = TRUE /\ enrolled = FALSE
    /\ threshold \in Thresholds /\ duration \in Durations /\ mfa \in BOOLEAN
    /\ step = [p \in Logins |-> "idle"] /\ lim = [p \in Logins |-> 0]
    /\ dur = [p \in Logins |-> 0] /\ start = [p \in Logins |-> 0]
    /\ rowForce = [p \in Logins |-> FALSE] /\ rowEnrolled = [p \in Logins |-> FALSE]

LockoutNext ==
    \/ ClockTick \/ PatchSecurity \/ ResetPassword \/ ConfirmReset \/ PostChangePassword
    \/ SetEnrolled
    \/ \E p \in Logins :
         \/ PostLogin(p) \/ BeginLogin(p) \/ GetByEmail(p) \/ AnswerLocked(p)
         \/ IncrementFailedLogins(p) \/ LockedConcurrent(p) \/ ResetFailedLogins(p)
         \/ LockedRace(p) \/ Answer(p) \/ LoginFails(p)

LockoutSpec == LockoutInit /\ [][LockoutNext]_lockoutVars

-----------------------------------------------------------------------------
(* Properties *)

Locked == lockedUntil > now

\* No password is accepted while the account is locked, although the row was
\* read before a concurrent failure locked it (ResetFailedLogins against
\* IncrementFailedLogins).
NoLoginWhileLocked ==
    [][\A p \in Logins : step[p] = "verify" /\ step'[p] \in Accepted => ~Locked]_lockoutVars

\* "locked account stays locked for full duration": while a lock is active no
\* login, right or wrong, moves or clears it; only ResetPassword and
\* PostConfirm do, which no login in flight takes part in.
LockedForFullDuration ==
    [][Locked /\ step' # step => lockedUntil' = lockedUntil /\ failed' = failed]_lockoutVars

\* Failures that reach every threshold in use have left a lock, active or
\* over, whatever logins were in flight with whatever settings they had read;
\* and a lock comes from failures that reached a threshold, so it is gone as
\* soon as they are forgotten (IncrementFailedLogins, ResetFailedLogins,
\* ClearLockoutForPasswordChange).
ThresholdLocks ==
    /\ (\A n \in Thresholds : failed >= n) => lockedUntil # 0
    /\ lockedUntil # 0 => \E n \in Thresholds : failed >= n

-----------------------------------------------------------------------------
\* The invariant behind the action properties: a login that may write has
\* read its settings, and the now() of a transaction is never ahead of the
\* clock.
LockoutInv ==
    /\ LockoutTypeOK
    /\ ThresholdLocks
    /\ \A p \in Logins :
         /\ start[p] <= now
         /\ step[p] # "idle" => lim[p] # 0 /\ dur[p] # 0

=============================================================================
