------------------------------ MODULE Sessions ------------------------------
(***************************************************************************)
(* The login sessions of one user: internal/session/store.go, the two      *)
(* session middlewares of internal/auth, and the handlers that create or   *)
(* end sessions.  A Valkey command or pipeline is one step and the steps   *)
(* of different requests interleave.  Lifetimes count down from TTL.       *)
(***************************************************************************)
EXTENDS Naturals

CONSTANTS
    Tokens, NoToken,    \* session tokens that may be generated (a bound)
    Procs,              \* requests in flight
    TTL,                \* the sliding lifetime of a session, in ticks
    Faults              \* whether Valkey calls may fail

ASSUME SessionsAssumption ==
    NoToken \notin Tokens /\ TTL \in Nat \ {0} /\ Faults \in BOOLEAN

VARIABLES
    left,       \* remaining lifetime of session:<token>; 0 when there is no key
    idx,        \* the members of user_sessions:<user> ...
    idxLeft,    \* ... and the remaining lifetime of that set
    made,       \* tokens that have been generated ...
    known,      \* ... and that a client holds in its cookie
    status,     \* the user's row: "active", "disabled" or "deleted"
    pc, tok,    \* a request's step and session token
    seen,       \* what its SMEMBERS returned
    off,        \* the user has not been active since the request began (history)
    ended,      \* tokens that some handler has ended (history)
    astray      \* live sessions written across a deletion, or by half a
                \* pipeline (history)

store == <<left, idx, idxLeft, astray>>
locals == <<tok, seen, off>>
vars == <<store, made, known, status, pc, locals, ended>>

Entries == {"serve", "logout", "getAgain", "disableMfa"}
ServedSteps == Entries \cup {"slideAgain", "change", "maxAge", "slideMaxAge", "reauth"}
Steps == {"idle", "get", "slide", "user", "reject", "deleteOld", "create",
          "smembers", "del"} \cup ServedSteps

TypeOK ==
    /\ left \in [Tokens -> 0..TTL] /\ idxLeft \in 0..TTL
    /\ idx \subseteq Tokens /\ made \subseteq Tokens /\ known \subseteq Tokens
    /\ ended \subseteq Tokens /\ astray \subseteq Tokens
    /\ status \in {"active", "disabled", "deleted"}
    /\ pc \in [Procs -> Steps]
    /\ tok \in [Procs -> Tokens \cup {NoToken}]
    /\ seen \in [Procs -> SUBSET Tokens]
    /\ off \in [Procs -> BOOLEAN]

Live(t) == left[t] > 0

Goto(p, label) == pc' = [pc EXCEPT ![p] = label]

Start(p, t, label) ==
    /\ pc[p] = "idle"
    /\ Goto(p, label)
    /\ tok' = [tok EXCEPT ![p] = t]
    /\ off' = [off EXCEPT ![p] = t # NoToken /\ status # "active"]
    /\ UNCHANGED seen

\* The last steps of a handler that needs its own session no more.
Finish(p, label) ==
    /\ Goto(p, label)
    /\ tok' = [tok EXCEPT ![p] = NoToken]
    /\ UNCHANGED <<seen, off>>

Return(p) ==
    /\ Goto(p, "idle")
    /\ tok' = [tok EXCEPT ![p] = NoToken]
    /\ seen' = [seen EXCEPT ![p] = {}]
    /\ off' = [off EXCEPT ![p] = FALSE]

-----------------------------------------------------------------------------
(* The store *)

\* A deletion that has read the index and not yet written.
Deleting == \E q \in Procs : pc[q] = "del"

\* Delete: DEL of the session, SREM from the index.  The pipeline may fail
\* between the two, which leaves the member.
DeleteSession(t) ==
    /\ left' = [left EXCEPT ![t] = 0]
    /\ \/ idx' = idx \ {t} /\ idxLeft' = IF idx' = {} THEN 0 ELSE idxLeft
       \/ Faults /\ UNCHANGED <<idx, idxLeft>>
    /\ astray' = astray \ {t}
    /\ ended' = ended \cup {t}

\* Create: SET, SADD and EXPIRE; the token goes to the client.
CreateSession(t) ==
    /\ t \notin made
    /\ made' = made \cup {t}
    /\ left' = [left EXCEPT ![t] = TTL]
    /\ idx' = idx \cup {t}
    /\ idxLeft' = TTL
    /\ astray' = IF Deleting THEN astray \cup {t} ELSE astray

\* Mutant: the slide extends the session only.
SlideSessionOnly(t) ==
    /\ left' = [left EXCEPT ![t] = TTL]
    /\ UNCHANGED <<idx, idxLeft>>
    /\ astray' = IF Live(t) THEN astray ELSE astray \cup {t}

\* The pipeline of Get: SET of the session, whether or not it still exists,
\* and EXPIRE, which does nothing when the index is gone.
SlideSession(t) ==
    /\ left' = [left EXCEPT ![t] = TTL]
    /\ UNCHANGED idx
    /\ idxLeft' = IF idx = {} THEN 0 ELSE TTL
    /\ astray' = IF Live(t) THEN astray ELSE astray \cup {t}

\* The same pipeline failing before or after its SET; Get only logs it.
SlideSessionFails(t) ==
    /\ Faults
    /\ \/ UNCHANGED <<left, astray>>
       \/ left' = [left EXCEPT ![t] = TTL] /\ astray' = astray \cup {t}
    /\ UNCHANGED <<idx, idxLeft>>

\* Keys expire.  A member stays in the index after its session has expired.
Tick ==
    /\ \E t \in Tokens : Live(t)
    /\ left' = [t \in Tokens |-> IF Live(t) THEN left[t] - 1 ELSE 0]
    /\ idxLeft' = IF idxLeft > 0 THEN idxLeft - 1 ELSE 0
    /\ idx' = IF idxLeft <= 1 THEN {} ELSE idx
    /\ astray' = {t \in astray : left[t] > 1}
    /\ UNCHANGED <<made, known, status, pc, locals, ended>>

-----------------------------------------------------------------------------
(* Middleware and OptionalMiddleware *)

Request(p) ==
    /\ \E t \in known : Start(p, t, "get")
    /\ UNCHANGED <<store, made, known, status, ended>>

Get(p) ==
    /\ pc[p] = "get"
    /\ IF Live(tok[p]) THEN Goto(p, "slide") /\ UNCHANGED locals ELSE Return(p)
    /\ UNCHANGED <<store, made, known, status, ended>>

Slide(p) ==
    /\ pc[p] = "slide"
    /\ SlideSession(tok[p]) \/ SlideSessionFails(tok[p])
    /\ Goto(p, "user")
    /\ UNCHANGED <<made, known, status, locals, ended>>

\* Mutant: only a missing user is turned away.
MiddlewareOrphansOnly(p) ==
    /\ pc[p] = "user"
    /\ \E h \in Entries : Goto(p, IF status # "deleted" THEN h ELSE "reject")
    /\ UNCHANGED <<store, made, known, status, locals, ended>>

\* The user is read anew; a deleted or disabled one is turned away.
Middleware(p) ==
    /\ pc[p] = "user"
    /\ \E h \in Entries : Goto(p, IF status = "active" THEN h ELSE "reject")
    /\ UNCHANGED <<store, made, known, status, locals, ended>>

\* For /authorize: the same, but who is turned away goes on as anonymous.  The
\* request may ask for a fresh login, or for one that is not too old.
OptionalMiddleware(p) ==
    /\ pc[p] = "user"
    /\ \E h \in {"serve", "maxAge", "reauth"} : Goto(p, IF status = "active" THEN h ELSE "reject")
    /\ UNCHANGED <<store, made, known, status, locals, ended>>

\* The session of the rejected user is deleted; an error is ignored (Fail).
Reject(p) ==
    /\ pc[p] = "reject"
    /\ DeleteSession(tok[p])
    /\ Return(p)
    /\ UNCHANGED <<made, known, status>>

-----------------------------------------------------------------------------
(* Handlers behind the middleware *)

\* GetMe and every other handler that leaves the sessions alone.
Serve(p) ==
    /\ pc[p] = "serve"
    /\ Return(p)
    /\ UNCHANGED <<store, made, known, status, ended>>

\* The audit row is committed, then the session is deleted.
PostLogout(p) ==
    /\ pc[p] = "logout"
    /\ DeleteSession(tok[p])
    /\ Return(p)
    /\ UNCHANGED <<made, known, status>>

\* PostChangePassword reads its session once more, for the pending return_to.
GetAgain(p) ==
    /\ pc[p] = "getAgain"
    /\ Goto(p, IF Live(tok[p]) THEN "slideAgain" ELSE "change")
    /\ UNCHANGED <<store, made, known, status, locals, ended>>

SlideAgain(p) ==
    /\ pc[p] = "slideAgain"
    /\ SlideSession(tok[p]) \/ SlideSessionFails(tok[p])
    /\ Goto(p, "change")
    /\ UNCHANGED <<made, known, status, locals, ended>>

\* The password is verified and the new one committed, if the row is still
\* there; every rejection is a Fail.
PostChangePassword(p) ==
    /\ pc[p] = "change" /\ status # "deleted"
    /\ Goto(p, "deleteOld")
    /\ UNCHANGED <<store, made, known, status, locals, ended>>

\* The old session is deleted; an error is only logged.
DeleteOld(p) ==
    /\ pc[p] = "deleteOld"
    /\ \/ DeleteSession(tok[p])
       \/ Faults /\ UNCHANGED <<store, ended>>
    /\ Finish(p, "create")
    /\ UNCHANGED <<made, known, status>>

\* Recovery codes and the TOTP secret are cleared and committed; then all
\* sessions are deleted.
PostDisableMfa(p) ==
    /\ pc[p] = "disableMfa" /\ status # "deleted"
    /\ Finish(p, "smembers")
    /\ UNCHANGED <<store, made, known, status, ended>>

-----------------------------------------------------------------------------
(* /authorize, after OptionalMiddleware *)

\* max_age reads the session once more; one that is gone is not held against
\* the request ...
CheckMaxAge(p) ==
    /\ pc[p] = "maxAge"
    /\ Goto(p, IF Live(tok[p]) THEN "slideMaxAge" ELSE "serve")
    /\ UNCHANGED <<store, made, known, status, locals, ended>>

\* ... and one that is may be too old.
SlideMaxAge(p) ==
    /\ pc[p] = "slideMaxAge"
    /\ SlideSession(tok[p]) \/ SlideSessionFails(tok[p])
    /\ \E h \in {"serve", "reauth"} : Goto(p, h)
    /\ UNCHANGED <<made, known, status, locals, ended>>

\* The session is deleted before the user is sent to the login page.
ForceReauth(p) ==
    /\ pc[p] = "reauth"
    /\ DeleteSession(tok[p])
    /\ Return(p)
    /\ UNCHANGED <<made, known, status>>

-----------------------------------------------------------------------------
(* Logins *)

\* PostLogin, or the PostChallenge or PostEnrollmentComplete that ends it.
\* None of them looks at the status.
PostLogin(p) ==
    /\ status # "deleted"
    /\ Start(p, NoToken, "create")
    /\ UNCHANGED <<store, made, known, status, ended>>

Create(p) ==
    /\ pc[p] = "create"
    /\ \E t \in Tokens : CreateSession(t) /\ known' = known \cup {t}
    /\ Return(p)
    /\ UNCHANGED <<status, ended>>

\* The pipeline stops after its SET: Create returns an error, so nobody
\* learns the token.
CreateFails(p) ==
    /\ pc[p] = "create" /\ Faults
    /\ \E t \in Tokens \ made :
         /\ made' = made \cup {t}
         /\ left' = [left EXCEPT ![t] = TTL]
         /\ astray' = astray \cup {t}
    /\ Return(p)
    /\ UNCHANGED <<idx, idxLeft, known, status, ended>>

-----------------------------------------------------------------------------
(* Handlers that change the user and then delete all the sessions *)

Disable(p) ==
    /\ status = "active"
    /\ status' = "disabled"
    /\ Start(p, NoToken, "smembers")
    /\ UNCHANGED <<store, made, known, ended>>

Enable ==
    /\ status = "disabled"
    /\ status' = "active"
    /\ off' = [p \in Procs |-> FALSE]
    /\ UNCHANGED <<store, made, known, pc, tok, seen, ended>>

Delete(p) ==
    /\ status # "deleted"
    /\ status' = "deleted"
    /\ Start(p, NoToken, "smembers")
    /\ UNCHANGED <<store, made, known, ended>>

ResetPassword(p) ==
    /\ status # "deleted"
    /\ Start(p, NoToken, "smembers")
    /\ UNCHANGED <<store, made, known, status, ended>>

ResetMFA(p) ==
    /\ status # "deleted"
    /\ Start(p, NoToken, "smembers")
    /\ UNCHANGED <<store, made, known, status, ended>>

\* The user confirms a password reset (module PasswordReset).
PostConfirm(p) ==
    /\ status # "deleted"
    /\ Start(p, NoToken, "smembers")
    /\ UNCHANGED <<store, made, known, status, ended>>

\* Asks for no user row at all.
TerminateAllSessions(p) ==
    /\ Start(p, NoToken, "smembers")
    /\ UNCHANGED <<store, made, known, status, ended>>

\* One session, by the token that a ListSessions has shown at some time.
TerminateSession(t) ==
    /\ t \in made
    /\ DeleteSession(t)
    /\ UNCHANGED <<made, known, status, pc, locals>>

\* DeleteAllForUser reads the index ...
SMembers(p) ==
    /\ pc[p] = "smembers"
    /\ seen' = [seen EXCEPT ![p] = idx]
    /\ Goto(p, "del")
    /\ UNCHANGED <<store, made, known, status, tok, off, ended>>

\* Mutant: only the index is deleted.
DeleteIndexOnly(p) ==
    /\ pc[p] = "del"
    /\ ended' = ended \cup made
    /\ idx' = {} /\ idxLeft' = 0
    /\ UNCHANGED <<left, astray>>
    /\ Return(p)
    /\ UNCHANGED <<made, known, status>>

\* ... and deletes the sessions it has read, and the index, which is meant for
\* all there are.  The cutoff that most handlers write last is not about
\* sessions (module TokenEndpoint): no middleware reads it.
DeleteAll(p) ==
    /\ pc[p] = "del"
    /\ left' = [t \in Tokens |-> IF t \in seen[p] THEN 0 ELSE left[t]]
    /\ idx' = {} /\ idxLeft' = 0
    /\ astray' = astray \ seen[p]
    /\ ended' = ended \cup made
    /\ Return(p)
    /\ UNCHANGED <<made, known, status>>

\* The same pipeline failing after some of its DELs; the caller only logs it.
DeleteAllFails(p) ==
    /\ pc[p] = "del" /\ Faults
    /\ \E done \in SUBSET seen[p] :
         /\ left' = [t \in Tokens |-> IF t \in done THEN 0 ELSE left[t]]
         /\ astray' = astray \ done
         /\ ended' = ended \cup done
    /\ Return(p)
    /\ UNCHANGED <<idx, idxLeft, made, known, status>>

\* The handler rejects the request, or an error ends it wherever it is.
\* Bound: a login fails when there is no token left.
Fail(p) ==
    /\ \/ pc[p] \in {"change", "disableMfa"}
       \/ pc[p] = "create" /\ made = Tokens
       \/ pc[p] # "idle" /\ Faults
    /\ Return(p)
    /\ UNCHANGED <<store, made, known, status, ended>>

-----------------------------------------------------------------------------
Init ==
    /\ left = [t \in Tokens |-> 0] /\ idx = {} /\ idxLeft = 0
    /\ made = {} /\ known = {} /\ ended = {} /\ astray = {}
    /\ status = "active"
    /\ pc = [p \in Procs |-> "idle"]
    /\ tok = [p \in Procs |-> NoToken] /\ seen = [p \in Procs |-> {}]
    /\ off = [p \in Procs |-> FALSE]

Next ==
    \/ Tick \/ Enable \/ \E t \in Tokens : TerminateSession(t)
    \/ \E p \in Procs :
         \/ Request(p) \/ Get(p) \/ Slide(p) \/ Middleware(p) \/ OptionalMiddleware(p)
         \/ Reject(p) \/ Serve(p) \/ PostLogout(p) \/ GetAgain(p) \/ SlideAgain(p)
         \/ PostChangePassword(p) \/ DeleteOld(p) \/ PostDisableMfa(p) \/ CheckMaxAge(p)
         \/ SlideMaxAge(p) \/ ForceReauth(p) \/ PostLogin(p)
         \/ Create(p) \/ CreateFails(p) \/ Disable(p) \/ Delete(p) \/ ResetPassword(p)
         \/ ResetMFA(p) \/ PostConfirm(p) \/ TerminateAllSessions(p) \/ SMembers(p)
         \/ DeleteAll(p) \/ DeleteAllFails(p) \/ Fail(p)

Spec == Init /\ [][Next]_vars

-----------------------------------------------------------------------------
(* Properties *)

\* A request that begins while its user is disabled or deleted, and stays so,
\* is never handed to a handler, although a login may still create sessions
\* for a disabled user ("A user disabled mid-session is revoked in-middleware
\* on the next request", Middleware).
DisabledNeverServed == \A p \in Procs : pc[p] \in ServedSteps => ~off[p]

\* Every live session is in its user's index, where DeleteAllForUser and
\* ListByUser find it, unless it was written across a deletion or by half a
\* pipeline: the lifetime of the index is never the shorter one.
IndexCovers == \A t \in Tokens : Live(t) => t \in idx \/ t \in astray

\* A session that a logout, a rotation, a rejection, a forced login or an
\* administrator has ended stays dead, and so does every session that is older
\* than a DeleteAllForUser, unless a Get that had read it before writes it
\* back, or it was written across the deletion or by half a pipeline.  The
\* middlewares rely on this alone, for they never look at revoke_before
\* ("reject tokens whose `iat` precedes the cutoff", docs/security.md).
EndedStaysEnded == \A t \in ended : Live(t) => t \in astray

-----------------------------------------------------------------------------
\* The strengthening of the first three.  The index outlives each session it
\* covers, and a deletion under way has read all of these ...
Covered ==
    \A t \in Tokens : Live(t) =>
      \/ t \in astray
      \/ /\ t \in idx /\ left[t] <= idxLeft
         /\ \A p \in Procs : pc[p] = "del" => t \in seen[p]

\* ... nothing refers to a token before it is generated ...
Tracked ==
    /\ idx \subseteq made /\ known \subseteq made /\ ended \subseteq made
    /\ \A t \in Tokens : Live(t) => t \in made
    /\ \A p \in Procs :
         /\ seen[p] \subseteq made
         /\ pc[p] \in ServedSteps \cup {"get", "slide", "user", "reject", "deleteOld"}
              => tok[p] \in made

\* ... and the history of the user's status is right.
SessionInv ==
    /\ TypeOK /\ Covered /\ Tracked
    /\ EndedStaysEnded /\ DisabledNeverServed
    /\ \A p \in Procs : off[p] => status # "active"

=============================================================================
