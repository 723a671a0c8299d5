---------------------------- MODULE PasswordReset ----------------------------
(***************************************************************************)
(* Forgotten passwords: internal/auth/password_reset.go and                *)
(* password_reset_token_store.go, for one account.  PostRequest burns the  *)
(* outstanding tokens and mails a new one; PostConfirm sets the password   *)
(* under the row lock of the token.  Every transaction holds a connection  *)
(* of the pool; a failed confirm writes its audit row on a second one      *)
(* while it still holds the first.                                         *)
(***************************************************************************)
EXTENDS Naturals, FiniteSets

CONSTANTS
    Tokens, NoToken,    \* reset tokens that may be generated (a bound)
    Procs, NoProc,      \* requests in flight
    Conns               \* the size of the connection pool

ASSUME ResetAssumption == NoToken \notin Tokens /\ NoProc \notin Procs

ASSUME ConnsAssumption == Conns \in Nat

VARIABLES
    row,        \* password_reset_tokens: "none", "live", "used" or "expired"
    lock,       \* the transaction that holds the row's lock
    pc, tok,    \* a request's step and token
    want,       \* rows that its UPDATE has found and not locked yet
    held,       \* connections it holds
    \* History, read by properties only:
    resets,     \* how often each token has set the password
    overtaken   \* requests since whose UPDATE another link was committed

history == <<resets, overtaken>>
vars == <<row, lock, pc, tok, want, held, history>>

RequestSteps == {"lookup", "unmatched", "begin", "invalidate", "lockRows"}
ConfirmSteps == {"confirm", "select", "check", "auditFailed", "write", "notify"}

TypeOK ==
    /\ row \in [Tokens -> {"none", "live", "used", "expired"}]
    /\ lock \in [Tokens -> Procs \cup {NoProc}]
    /\ pc \in [Procs -> RequestSteps \cup ConfirmSteps \cup {"idle"}]
    /\ tok \in [Procs -> Tokens \cup {NoToken}]
    /\ want \in [Procs -> SUBSET Tokens]
    /\ held \in [Procs -> 0..1]
    /\ resets \in [Tokens -> Nat]
    /\ overtaken \subseteq Procs

FreeConns == Conns - Cardinality({p \in Procs : held[p] = 1})

Goto(p, label) == pc' = [pc EXCEPT ![p] = label]

\* The deferred Rollback, or Commit: locks and connection are given back.
EndTx(p) ==
    /\ lock' = [t \in Tokens |-> IF lock[t] = p THEN NoProc ELSE lock[t]]
    /\ held' = [held EXCEPT ![p] = 0]

\* Mutant: the transaction is left open, as without the deferred Rollback.
ReturnLeaking(p) ==
    /\ Goto(p, "idle")
    /\ tok' = [tok EXCEPT ![p] = NoToken]
    /\ want' = [want EXCEPT ![p] = {}]
    /\ UNCHANGED <<lock, held>>

Return(p) ==
    /\ Goto(p, "idle")
    /\ tok' = [tok EXCEPT ![p] = NoToken]
    /\ want' = [want EXCEPT ![p] = {}]
    /\ EndTx(p)

\* pool.Begin waits for a connection.
Begin(p, label) ==
    /\ FreeConns > 0
    /\ held' = [held EXCEPT ![p] = 1]
    /\ Goto(p, label)
    /\ UNCHANGED <<row, lock, tok, want, history>>

-----------------------------------------------------------------------------
(* What happens around the requests *)

Expire(t) ==
    /\ row[t] = "live"
    /\ row' = [row EXCEPT ![t] = "expired"]
    /\ UNCHANGED <<lock, pc, tok, want, held, history>>

\* Bound: a token is generated only if the requests under way get theirs.
SpareToken ==
    Cardinality({t \in Tokens : row[t] = "none"})
      > Cardinality({q \in Procs : pc[q] \in RequestSteps})

\* The UPDATE has taken its snapshot and the new link is not committed.
Invalidating(p) == pc[p] = "lockRows"

\* The recovery command, a process of its own: a link for a super_admin, who
\* may be disabled.  It burns no other one.
Execute(t) ==
    /\ SpareToken /\ row[t] = "none"
    /\ row' = [row EXCEPT ![t] = "live"]
    /\ overtaken' = overtaken \cup {q \in Procs : Invalidating(q)}
    /\ UNCHANGED <<lock, pc, tok, want, held, resets>>

-----------------------------------------------------------------------------
(* PostRequest *)

PostRequest(p) ==
    /\ pc[p] = "idle" /\ SpareToken
    /\ Goto(p, "lookup")
    /\ UNCHANGED <<row, lock, tok, want, held, history>>

\* GetByEmail on the pool; only an active account that is no super_admin
\* goes on.  An administrator may change that at any time.
Lookup(p) ==
    /\ pc[p] = "lookup" /\ FreeConns > 0
    /\ \E next \in {"begin", "unmatched"} : Goto(p, next)
    /\ UNCHANGED <<row, lock, tok, want, held, history>>

\* The audit rows of the unmatched path, and 200.
AuditUnmatched(p) ==
    /\ pc[p] = "unmatched" /\ FreeConns > 0
    /\ Return(p)
    /\ UNCHANGED <<row, history>>

BeginRequest(p) == pc[p] = "begin" /\ Begin(p, "invalidate")

\* InvalidateOutstandingForUser: the snapshot of the UPDATE fixes the rows ...
Invalidate(p) ==
    /\ pc[p] = "invalidate"
    /\ want' = [want EXCEPT ![p] = {t \in Tokens : row[t] = "live"}]
    /\ Goto(p, "lockRows")
    /\ UNCHANGED <<row, lock, tok, held, history>>

\* Mutant: rows that another transaction has locked are skipped.
LockRowOrSkip(p, t) ==
    /\ pc[p] = "lockRows"
    /\ t \in want[p]
    /\ want' = [want EXCEPT ![p] = @ \ {t}]
    /\ lock' = [lock EXCEPT ![t] = IF @ = NoProc /\ row[t] \in {"live", "expired"} THEN p ELSE @]
    /\ UNCHANGED <<row, pc, tok, held, history>>

\* ... it locks those that are still unused when their lock is free ...
LockRow(p, t) ==
    /\ pc[p] = "lockRows"
    /\ t \in want[p] /\ lock[t] = NoProc
    /\ want' = [want EXCEPT ![p] = @ \ {t}]
    /\ lock' = [lock EXCEPT ![t] = IF row[t] \in {"live", "expired"} THEN p ELSE NoProc]
    /\ UNCHANGED <<row, pc, tok, held, history>>

\* ... and with the commit they are used, and the new token is live and mailed.
InsertAndCommit(p) ==
    /\ pc[p] = "lockRows" /\ want[p] = {}
    /\ \E n \in Tokens :
         /\ row[n] = "none"
         /\ row' = [t \in Tokens |-> IF t = n THEN "live"
                                     ELSE IF lock[t] = p THEN "used" ELSE row[t]]
    /\ overtaken' = (overtaken \cup {q \in Procs : Invalidating(q)}) \ {p}
    /\ Return(p)
    /\ UNCHANGED resets

-----------------------------------------------------------------------------
(* PostConfirm *)

\* With a link that was mailed, or with one that is in no row.
PostConfirm(p) ==
    /\ pc[p] = "idle"
    /\ \/ UNCHANGED tok
       \/ \E t \in Tokens : row[t] # "none" /\ tok' = [tok EXCEPT ![p] = t]
    /\ Goto(p, "confirm")
    /\ UNCHANGED <<row, lock, want, held, history>>

BeginConfirm(p) == pc[p] = "confirm" /\ Begin(p, "select")

\* Mutant: GetByToken, the read that takes no lock.
GetByToken(p) ==
    /\ pc[p] = "select" /\ tok[p] # NoToken
    /\ Goto(p, IF row[tok[p]] = "live" THEN "check" ELSE "auditFailed")
    /\ UNCHANGED <<row, lock, tok, want, held, history>>

\* The row is read once its lock is held; used_at and expires_at are checked.
GetByTokenForUpdate(p) ==
    /\ pc[p] = "select" /\ tok[p] # NoToken /\ lock[tok[p]] = NoProc
    /\ lock' = [lock EXCEPT ![tok[p]] = p]
    /\ Goto(p, IF row[tok[p]] = "live" THEN "check" ELSE "auditFailed")
    /\ UNCHANGED <<row, tok, want, held, history>>

\* ErrResetTokenNotFound: the transaction stays open, without a lock.
TokenNotFound(p) ==
    /\ pc[p] = "select" /\ tok[p] = NoToken
    /\ Goto(p, "auditFailed")
    /\ UNCHANGED <<row, lock, tok, want, held, history>>

\* The password policy is checked, then the breach list; only the first
\* rejection is audited.
CheckPassword(p) ==
    /\ pc[p] = "check"
    /\ \E next \in {"auditFailed", "write"} : Goto(p, next)
    /\ UNCHANGED <<row, lock, tok, want, held, history>>

RejectBreached(p) ==
    /\ pc[p] = "check"
    /\ Return(p)
    /\ UNCHANGED <<row, history>>

\* auditConfirmFailed: an INSERT on a second connection of the pool.
AuditConfirmFailed(p) ==
    /\ pc[p] = "auditFailed" /\ FreeConns > 0
    /\ Return(p)
    /\ UNCHANGED <<row, history>>

\* SetPasswordHash, ClearLockoutForPasswordChange, MarkUsed, the audit rows
\* and the commit.
SetPassword(p) ==
    /\ pc[p] = "write"
    /\ row' = [row EXCEPT ![tok[p]] = "used"]
    /\ resets' = [resets EXCEPT ![tok[p]] = @ + 1]
    /\ EndTx(p)
    /\ tok' = [tok EXCEPT ![p] = NoToken]
    /\ Goto(p, "notify")
    /\ UNCHANGED <<want, overtaken>>

\* The revocations in Valkey, and GetEmail on the pool for the notification.
Notify(p) ==
    /\ pc[p] = "notify" /\ FreeConns > 0
    /\ Return(p)
    /\ UNCHANGED <<row, history>>

\* Any error, or a client that goes away while the request waits.
Fail(p) ==
    /\ pc[p] # "idle"
    /\ Return(p)
    /\ overtaken' = overtaken \ {p}
    /\ UNCHANGED <<row, resets>>

\* Each waits for a row that another has locked: PostgreSQL promises no order
\* in which an UPDATE comes by its rows.
Circular(S) == \A q \in S : \E t \in want[q] : lock[t] \in S

\* PostgreSQL ends such a wait with an error for one of them.
DeadlockDetected(p) ==
    /\ \E S \in SUBSET Procs : p \in S /\ Circular(S)
    /\ Fail(p)

-----------------------------------------------------------------------------
Init ==
    /\ row = [t \in Tokens |-> "none"] /\ lock = [t \in Tokens |-> NoProc]
    /\ resets = [t \in Tokens |-> 0] /\ overtaken = {}
    /\ pc = [p \in Procs |-> "idle"] /\ tok = [p \in Procs |-> NoToken]
    /\ want = [p \in Procs |-> {}] /\ held = [p \in Procs |-> 0]

\* The steps a request takes by itself.
Proceed(p) ==
    \/ Lookup(p) \/ AuditUnmatched(p) \/ BeginRequest(p) \/ Invalidate(p)
    \/ (\E t \in Tokens : LockRow(p, t)) \/ InsertAndCommit(p)
    \/ BeginConfirm(p) \/ GetByTokenForUpdate(p) \/ TokenNotFound(p) \/ CheckPassword(p)
    \/ RejectBreached(p) \/ AuditConfirmFailed(p) \/ SetPassword(p) \/ Notify(p)
    \/ DeadlockDetected(p)

Next ==
    \/ \E p \in Procs : PostRequest(p) \/ PostConfirm(p) \/ Proceed(p) \/ Fail(p)
    \/ \E t \in Tokens : Expire(t) \/ Execute(t)

Spec == Init /\ [][Next]_vars

\* pgxpool hands connections out, and PostgreSQL row locks, in the order of
\* arrival: a request that could proceed again and again does.
FairSpec == Spec /\ \A p \in Procs : SF_vars(Proceed(p))

-----------------------------------------------------------------------------
(* Properties *)

\* A reset link sets the password at most once, whatever confirms and new
\* requests are in flight (PostConfirm: "single-use + not-expired, atomic
\* across concurrent confirms").
SingleUse == \A t \in Tokens : resets[t] <= 1

\* A link that a newer request has burned, or that was used, never sets the
\* password any more (InvalidateOutstandingForUser against the row lock of
\* PostConfirm).
BurnedLinkIsDead ==
    [][\A t \in Tokens : resets'[t] # resets[t] => row[t] \in {"live", "expired"}]_vars

\* "burn prior unused tokens so older emailed links fail after a fresh
\* /request": a request leaves its own link as the only live one, unless
\* another link was committed between its UPDATE, which does not see what is
\* not committed, and its own commit (InvalidateOutstandingForUser).
OlderLinksBurned ==
    [][\A p \in Procs, t, u \in Tokens :
         /\ Invalidating(p) /\ pc'[p] = "idle" /\ p \notin overtaken
         /\ row[t] = "none" /\ row'[t] = "live" /\ row'[u] = "live"
         => t = u]_vars

\* Every connection is taken, and a failed confirm that holds one of them
\* waits for another.
Exhausted == FreeConns = 0 /\ \E p \in Procs : pc[p] = "auditFailed"

\* Every request is answered: nobody waits for ever for a connection or for a
\* row lock, and transactions that lock the same rows in different orders come
\* apart.  The one exception is a pool that is exhausted for good, because a
\* failed confirm writes its audit row on a second connection before it gives
\* back the first (auditConfirmFailed, "writes against the pool (not the
\* confirm tx)"): then the requests wait until a client goes away.
EveryRequestAnswered ==
    \A p \in Procs : []<>(pc[p] = "idle") \/ <>[]Exhausted

-----------------------------------------------------------------------------
(* The links as single-use credentials. *)

linkState ==
    [t \in Tokens |-> CASE row[t] = "none" -> "unissued"
                        [] row[t] \in {"live", "expired"} -> "live"
                        [] row[t] = "used" /\ resets[t] = 0 -> "void"
                        [] OTHER -> "spent"]

LinkSpec == INSTANCE OneShot WITH Ids <- Tokens, state <- linkState, uses <- resets

\* The requests implement OneShot for the links: a link is spent by the commit
\* that sets the password, InvalidateOutstandingForUser withdraws the older
\* ones in the very step that issues the new one, and no link comes back.
LinksAreOneShot == LinkSpec!Spec

-----------------------------------------------------------------------------
\* The strengthening of SingleUse: from the SELECT to the commit the request
\* owns the row, and a row that is not used has not set the password.
ResetInv ==
    /\ TypeOK
    /\ \A p \in Procs :
         /\ tok[p] # NoToken => row[tok[p]] # "none"
         /\ pc[p] \in {"check", "write"} =>
              tok[p] # NoToken /\ lock[tok[p]] = p /\ row[tok[p]] \in {"live", "expired"}
    /\ \A t \in Tokens : resets[t] <= (IF row[t] = "used" THEN 1 ELSE 0)
    /\ \A t \in Tokens : lock[t] # NoProc => row[t] # "none"

\* What OlderLinksBurned rests on: a request that nobody has overtaken
\* has locked, or is going to lock, every live link.
BurnInv ==
    \A p \in Procs :
      Invalidating(p) => p \in overtaken
        \/ \A t \in Tokens : row[t] = "live" => t \in want[p] \/ lock[t] = p

=============================================================================
