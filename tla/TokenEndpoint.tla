---------------------------- MODULE TokenEndpoint ----------------------------
(***************************************************************************)
(* POST /token for one authorization code and the refresh-token family it  *)
(* starts: internal/authserver/token.go with authcode_store.go and         *)
(* internal/oidc/refresh_store.go.  The code is a PostgreSQL row consumed  *)
(* by a conditional UPDATE inside a transaction; refresh tokens and the    *)
(* family's index live in Valkey, where every command (or pipeline) is a   *)
(* step of its own and nothing is transactional.  Requests run             *)
(* concurrently and the client may repeat any token it was given.          *)
(***************************************************************************)
EXTENDS Naturals

CONSTANTS
    Procs,          \* request handlers that may be in flight together
    NoProc,         \* the owner of a code row nobody has updated
    Tokens,         \* refresh tokens that may be minted (a bound)
    NoToken,
    MaxUpsets,      \* bound on the user's mutations and on the errors that leave
                    \* something behind
    CodeTTL,        \* seconds a code is valid (authCodeTTL)
    RefreshTTLs,    \* values that refresh_token_ttl_secs may have
    MaxClock        \* bound on the clock

ASSUME ProcAssumption == NoProc \notin Procs /\ NoToken \notin Tokens

ASSUME BoundsAssumption ==
    /\ MaxUpsets \in Nat
    /\ CodeTTL \in Nat /\ RefreshTTLs \subseteq Nat \ {0} /\ MaxClock \in Nat

VARIABLES
    clock,      \* seconds since the code was minted
    code,       \* authorization_codes.used, committed
    codeRow,    \* the transaction that has updated the code row
    rt,         \* each refresh key: "fresh" or "used" is RefreshPayload.Used
    created,    \* RefreshPayload.CreatedAt
    exp,        \* RefreshPayload.Expires
    fam,        \* the set of tokens stored under the family's key
    active,     \* users.status = 'active'
    cutoff,     \* user:revoke_before, 0 when it is not set
    delivered,  \* tokens that a 200 response has carried to the client
    pc, old, new, members, reason,      \* locals of the handlers
    upsets,     \* what has been used of MaxUpsets
    \* History, read by properties only:
    exchanges,  \* 200 responses to the code
    parent,     \* the token a rotation replaced
    before,     \* tokens minted before the last revoke_before write
    late,       \* handlers that passed the cutoff check without that write
    dead,       \* a RevokeFamily for a reuse or a code replay has finished
    again,      \* tokens that two overlapping requests read or that MarkUsed did
                \* not mark
    raced       \* tokens that a rotation had read when a RevokeFamily ended or
                \* that were stored while it ran, and those that replaced them

valkey == <<rt, created, exp, fam, parent>>
locals == <<old, new, members, reason>>
races == <<again, raced>>
vars == <<clock, code, codeRow, rt, created, exp, fam, active, cutoff, delivered,
          pc, old, new, members, reason, exchanges, parent, before, late, dead,
          again, raced, upsets>>

CodeSteps == {"consume", "checks", "mint", "codeCommit"}
RefreshSteps == {"user", "cutoff", "rotate", "markGet", "markSet", "audit"}
RevokeSteps == {"smembers", "del"}

\* RevokeFamily is called for a replayed code or a reused token, or else for an
\* expired code or a user who is disabled or revoked.
Reasons == {"none", "misuse", "other"}

TypeOK ==
    /\ clock \in 0..MaxClock
    /\ code \in {"unused", "used"}
    /\ codeRow \in Procs \cup {NoProc}
    /\ rt \in [Tokens -> {"unminted", "fresh", "used", "gone"}]
    /\ created \in [Tokens -> Nat] /\ exp \in [Tokens -> Nat]
    /\ fam \subseteq Tokens /\ delivered \subseteq Tokens /\ before \subseteq Tokens
    /\ active \in BOOLEAN /\ dead \in BOOLEAN
    /\ cutoff \in Nat /\ exchanges \in Nat
    /\ pc \in [Procs -> CodeSteps \cup RefreshSteps \cup RevokeSteps \cup {"idle"}]
    /\ old \in [Procs -> Tokens \cup {NoToken}]
    /\ new \in [Procs -> Tokens \cup {NoToken}]
    /\ members \in [Procs -> SUBSET Tokens]
    /\ reason \in [Procs -> Reasons]
    /\ parent \in [Tokens -> Tokens \cup {NoToken}]
    /\ late \subseteq Procs
    /\ again \subseteq Tokens /\ raced \subseteq Tokens /\ upsets \in Nat

-----------------------------------------------------------------------------
Goto(p, label) == pc' = [pc EXCEPT ![p] = label]

Upset == upsets < MaxUpsets /\ upsets' = upsets + 1

\* A fresh key is readable until it expires; MarkUsed may have given a used
\* one a few seconds more.
Readable(t) == rt[t] = "used" \/ (rt[t] = "fresh" /\ clock < exp[t])

Minted(t) == rt[t] # "unminted"

\* The TTL command rounds to seconds: from here on it may answer 0.
LastSecond(t) == clock + 1 >= exp[t]

\* A rotation has read its token and has not stored the new one, or has not
\* marked the old one.
Reading(p) == pc[p] \in {"user", "cutoff", "rotate"}
Rotating(p) == Reading(p) \/ pc[p] \in {"markGet", "markSet"}

\* The token can still be exchanged for another.
Live(t) == rt[t] = "fresh" /\ Readable(t)

Respond(p) ==
    /\ Goto(p, "idle")
    /\ old' = [old EXCEPT ![p] = NoToken]
    /\ new' = [new EXCEPT ![p] = NoToken]
    /\ members' = [members EXCEPT ![p] = {}]
    /\ reason' = [reason EXCEPT ![p] = "none"]
    /\ late' = late \ {p}

Revoke(p, why) ==
    /\ Goto(p, "smembers")
    /\ reason' = [reason EXCEPT ![p] = why]
    /\ old' = [old EXCEPT ![p] = NoToken]
    /\ UNCHANGED <<new, members, late>>

Step(p, label) == Goto(p, label) /\ UNCHANGED <<locals, late>>

\* refreshStore.Create.
Create(p, t, expires, from) ==
    /\ ~Minted(t)
    /\ rt' = [rt EXCEPT ![t] = "fresh"]
    /\ created' = [created EXCEPT ![t] = clock]
    /\ exp' = [exp EXCEPT ![t] = expires]
    /\ fam' = fam \cup {t}
    /\ parent' = [parent EXCEPT ![t] = from]
    /\ new' = [new EXCEPT ![p] = t]

-----------------------------------------------------------------------------
(* The world around the endpoint. *)

Tick ==
    /\ clock < MaxClock
    /\ clock' = clock + 1
    /\ UNCHANGED <<code, codeRow, valkey, active, cutoff, delivered, pc, locals,
                   exchanges, before, late, dead, races, upsets>>

\* Mutant: the cutoff is not rounded up.
RevokeBeforeTruncated ==
    /\ Upset
    /\ cutoff' = clock
    /\ before' = {t \in Tokens : Minted(t)}
    /\ late' = late \cup {p \in Procs : pc[p] = "rotate"}
    /\ UNCHANGED <<clock, code, codeRow, valkey, active, delivered, pc, locals,
                   exchanges, dead, races>>

\* RevokeBeforeSetNow: the admin's mutations round the cutoff up to the next
\* second.
RevokeBeforeSetNow ==
    /\ Upset
    /\ cutoff' = clock + 1
    /\ before' = {t \in Tokens : Minted(t)}
    /\ late' = late \cup {p \in Procs : pc[p] = "rotate"}
    /\ UNCHANGED <<clock, code, codeRow, valkey, active, delivered, pc, locals,
                   exchanges, dead, races>>

\* An admin disables or enables the user (UserAdmin's Write and Commit).
SetStatus ==
    /\ Upset
    /\ active' = ~active
    /\ UNCHANGED <<clock, code, codeRow, valkey, cutoff, delivered, pc, locals,
                   exchanges, before, late, dead, races>>

\* The key of a used token reaches its TTL, which MarkUsed has rounded.
Expire(t) ==
    /\ rt[t] = "used" /\ LastSecond(t)
    /\ rt' = [rt EXCEPT ![t] = "gone"]
    /\ UNCHANGED <<clock, code, codeRow, created, exp, fam, active, cutoff, delivered,
                   pc, locals, exchanges, parent, before, late, dead, races, upsets>>

-----------------------------------------------------------------------------
(* handleAuthorizationCode. *)

\* The client is authenticated and the transaction begins, which fixes now().
PresentCode(p) ==
    /\ pc[p] = "idle" /\ clock < CodeTTL
    /\ Step(p, "consume")
    /\ UNCHANGED <<clock, code, codeRow, valkey, active, cutoff, delivered,
                   exchanges, before, dead, races, upsets>>

\* Mutant: a SELECT without a row lock decides, the UPDATE comes later.
ConsumeUnlocked(p) ==
    /\ pc[p] = "consume"
    /\ code = "unused"
    /\ codeRow' = p
    /\ Step(p, "checks")
    /\ UNCHANGED <<clock, code, valkey, active, cutoff, delivered,
                   exchanges, before, dead, races, upsets>>

\* UPDATE ... WHERE NOT used AND expires_at > now(): it waits for the
\* transaction that has already updated the row, and then looks again.
ConsumeOnce(p) ==
    /\ pc[p] = "consume"
    /\ code = "unused"
    /\ codeRow = NoProc
    /\ codeRow' = p
    /\ Step(p, "checks")
    /\ UNCHANGED <<clock, code, valkey, active, cutoff, delivered,
                   exchanges, before, dead, races, upsets>>

\* No row: used and expired codes both take the replay path.
AlreadyUsed(p) ==
    /\ \/ pc[p] = "consume" /\ code = "used"
       \/ pc[p] = "idle" /\ clock >= CodeTTL
    /\ Revoke(p, IF code = "used" THEN "misuse" ELSE "other")
    /\ UNCHANGED <<clock, code, codeRow, valkey, active, cutoff, delivered,
                   exchanges, before, dead, races, upsets>>

\* Mutant: ConsumeOnce runs outside the transaction, so that it is committed
\* before the refresh token exists.
AcceptCommitted(p) ==
    /\ pc[p] = "checks" /\ active
    /\ \E next \in {"mint", "codeCommit"} : Step(p, next)
    /\ code' = "used"
    /\ UNCHANGED <<clock, codeRow, valkey, active, cutoff, delivered,
                   exchanges, before, dead, races, upsets>>

\* The client, redirect_uri, PKCE, user, grant and scope checks.  A code that
\* fails one is committed as used, so it is burned.
RejectCode(p) ==
    /\ pc[p] = "checks"
    /\ code' = "used" /\ codeRow' = NoProc
    /\ Respond(p)
    /\ UNCHANGED <<clock, valkey, active, cutoff, delivered, exchanges, before, dead,
                   races, upsets>>

\* A refresh token is minted only with the offline_access scope.
AcceptCode(p) ==
    /\ pc[p] = "checks" /\ active
    /\ \E next \in {"mint", "codeCommit"} : Step(p, next)
    /\ UNCHANGED <<clock, code, codeRow, valkey, active, cutoff, delivered,
                   exchanges, before, dead, races, upsets>>

MintForCode(p) ==
    /\ pc[p] = "mint"
    /\ \E t \in Tokens, ttl \in RefreshTTLs : Create(p, t, clock + ttl, NoToken)
    /\ Goto(p, "codeCommit")
    /\ UNCHANGED <<clock, code, codeRow, active, cutoff, delivered, old, members, reason,
                   exchanges, before, late, dead, races, upsets>>

\* tx.Commit and the response.
CommitCode(p) ==
    /\ pc[p] = "codeCommit"
    /\ code' = "used" /\ codeRow' = NoProc
    /\ exchanges' = exchanges + 1
    /\ delivered' = delivered \cup ({new[p]} \ {NoToken})
    /\ Respond(p)
    /\ UNCHANGED <<clock, valkey, active, cutoff, before, dead, races, upsets>>

\* The commit takes effect but its answer is lost: the handler sees an error.
CommitAnswerLost(p) ==
    /\ Upset /\ pc[p] = "codeCommit"
    /\ code' = "used" /\ codeRow' = NoProc
    /\ Respond(p)
    /\ UNCHANGED <<clock, valkey, active, cutoff, delivered, exchanges, before, dead, races>>

\* Any other error: the deferred Rollback undoes ConsumeOnce and nothing else,
\* not a refresh token that was stored.
Fail(p) ==
    /\ pc[p] # "idle"
    /\ IF new[p] = NoToken THEN upsets' = upsets ELSE Upset
    /\ codeRow' = IF codeRow = p THEN NoProc ELSE codeRow
    /\ Respond(p)
    /\ UNCHANGED <<clock, code, valkey, active, cutoff, delivered, exchanges, before, dead, races>>

-----------------------------------------------------------------------------
(* handleRefreshToken. *)

\* refreshStore.Consume reads the key and writes nothing.  The client, grant
\* and scope rejections that follow change no state: they are Fail.
Consume(p) ==
    /\ pc[p] = "idle"
    /\ \E t \in delivered :
         /\ Live(t)
         /\ old' = [old EXCEPT ![p] = t]
         /\ again' = IF \E q \in Procs : Rotating(q) /\ old[q] = t
                     THEN again \cup {t} ELSE again
    /\ Goto(p, "user")
    /\ UNCHANGED <<clock, code, codeRow, valkey, active, cutoff, delivered, new, members,
                   reason, exchanges, before, late, dead, raced, upsets>>

\* ErrRefreshReuseDetected.
ReuseDetected(p) ==
    /\ pc[p] = "idle"
    /\ \E t \in delivered : rt[t] = "used"
    /\ Revoke(p, "misuse")
    /\ UNCHANGED <<clock, code, codeRow, valkey, active, cutoff, delivered,
                   exchanges, before, dead, races, upsets>>

\* ErrRefreshUnknownOrExpired is answered at once.
UnknownOrExpired(p) ==
    /\ pc[p] = "idle"
    /\ \E t \in delivered : ~Readable(t)
    /\ UNCHANGED vars

CheckUser(p) ==
    /\ pc[p] = "user"
    /\ IF active THEN Step(p, "cutoff") ELSE Revoke(p, "other")
    /\ UNCHANGED <<clock, code, codeRow, valkey, active, cutoff, delivered,
                   exchanges, before, dead, races, upsets>>

CheckCutoff(p) ==
    /\ pc[p] = "cutoff"
    /\ IF created[old[p]] < cutoff THEN Revoke(p, "other") ELSE Step(p, "rotate")
    /\ UNCHANGED <<clock, code, codeRow, valkey, active, cutoff, delivered,
                   exchanges, before, dead, races, upsets>>

\* A transport error on the cutoff lets the token pass.
CutoffFailsOpen(p) ==
    /\ Upset /\ pc[p] = "cutoff"
    /\ late' = late \cup {p}
    /\ Goto(p, "rotate")
    /\ UNCHANGED <<clock, code, codeRow, valkey, active, cutoff, delivered, locals,
                   exchanges, before, dead, races>>

\* Mutant: the lifetime starts again at every rotation.
RotateRenewed(p) ==
    /\ pc[p] = "rotate"
    /\ \E t \in Tokens, ttl \in RefreshTTLs :
         /\ Create(p, t, clock + ttl, old[p])
         /\ raced' = IF old[p] \in raced THEN raced \cup {t} ELSE raced
    /\ Goto(p, "markGet")
    /\ UNCHANGED <<clock, code, codeRow, active, cutoff, delivered, old, members, reason,
                   exchanges, before, late, dead, again, upsets>>

\* The new token takes the family and the absolute expiry of the old one.
\* Create refuses a token that has no time left.
Rotate(p) ==
    /\ pc[p] = "rotate" /\ clock < exp[old[p]]
    /\ \E t \in Tokens :
         /\ Create(p, t, exp[old[p]], old[p])
         /\ raced' = IF old[p] \in raced THEN raced \cup {t} ELSE raced
    /\ Goto(p, "markGet")
    /\ UNCHANGED <<clock, code, codeRow, active, cutoff, delivered, old, members, reason,
                   exchanges, before, late, dead, again, upsets>>

\* MarkUsed: TTL and GET.  A key that is gone or used is left alone, and so is
\* one whose TTL is rounded down to 0.
MarkGet(p) ==
    /\ pc[p] = "markGet"
    /\ \/ /\ Live(old[p])
          /\ Step(p, "markSet")
          /\ again' = again
       \/ /\ ~Live(old[p]) \/ LastSecond(old[p])
          /\ Step(p, "audit")
          /\ again' = again \cup {t \in {old[p]} : Live(t)}
    /\ UNCHANGED <<clock, code, codeRow, valkey, active, cutoff, delivered,
                   exchanges, before, dead, raced, upsets>>

\* Mutant: the payload is written back as it was.
MarkSetUnused(p) ==
    /\ pc[p] = "markSet"
    /\ rt' = [rt EXCEPT ![old[p]] = "fresh"]
    /\ Step(p, "audit")
    /\ UNCHANGED <<clock, code, codeRow, created, exp, fam, active, cutoff, delivered,
                   exchanges, parent, before, dead, races, upsets>>

\* MarkUsed: SET, which writes the key whatever became of it since the GET.
MarkSet(p) ==
    /\ pc[p] = "markSet"
    /\ rt' = [rt EXCEPT ![old[p]] = "used"]
    /\ Step(p, "audit")
    /\ UNCHANGED <<clock, code, codeRow, created, exp, fam, active, cutoff, delivered,
                   exchanges, parent, before, dead, races, upsets>>

\* An error of MarkUsed is only logged.
MarkFails(p) ==
    /\ Upset /\ pc[p] \in {"markGet", "markSet"}
    /\ Step(p, "audit")
    /\ again' = again \cup {old[p]}
    /\ UNCHANGED <<clock, code, codeRow, valkey, active, cutoff, delivered,
                   exchanges, before, dead, raced>>

\* The audit transaction commits and the response carries the new token.
AuditRefresh(p) ==
    /\ pc[p] = "audit"
    /\ delivered' = delivered \cup {new[p]}
    /\ Respond(p)
    /\ UNCHANGED <<clock, code, codeRow, valkey, active, cutoff, exchanges, before, dead,
                   races, upsets>>

-----------------------------------------------------------------------------
(* refreshStore.RevokeFamily: SMEMBERS, then one pipeline of DELs. *)

ReadFamily(p) ==
    /\ pc[p] = "smembers"
    /\ members' = [members EXCEPT ![p] = fam]
    /\ Goto(p, "del")
    /\ UNCHANGED <<clock, code, codeRow, valkey, active, cutoff, delivered, old, new,
                   reason, exchanges, before, late, dead, races, upsets>>

\* Mutant: only the index is deleted, not the tokens it names.
DeleteIndex(p) ==
    /\ pc[p] = "del"
    /\ rt' = rt
    /\ fam' = {}
    /\ dead' = (dead \/ reason[p] = "misuse")
    /\ raced' = raced \cup (fam \ members[p])
                     \cup {old[q] : q \in {q \in Procs : Reading(q)}}
    /\ Respond(p)
    /\ UNCHANGED <<clock, code, codeRow, created, exp, active, cutoff, delivered,
                   exchanges, parent, before, again, upsets>>

DeleteFamily(p) ==
    /\ pc[p] = "del"
    /\ rt' = [t \in Tokens |-> IF t \in members[p] THEN "gone" ELSE rt[t]]
    /\ fam' = {}
    /\ dead' = (dead \/ reason[p] = "misuse")
    /\ raced' = raced \cup (fam \ members[p])
                     \cup {old[q] : q \in {q \in Procs : Reading(q)}}
    /\ Respond(p)
    /\ UNCHANGED <<clock, code, codeRow, created, exp, active, cutoff, delivered,
                   exchanges, parent, before, again, upsets>>

-----------------------------------------------------------------------------
Init ==
    /\ clock = 0 /\ code = "unused" /\ codeRow = NoProc
    /\ rt = [t \in Tokens |-> "unminted"]
    /\ created = [t \in Tokens |-> 0] /\ exp = [t \in Tokens |-> 0]
    /\ parent = [t \in Tokens |-> NoToken]
    /\ fam = {} /\ delivered = {} /\ before = {} /\ late = {}
    /\ again = {} /\ raced = {} /\ upsets = 0
    /\ active = TRUE /\ cutoff = 0 /\ exchanges = 0 /\ dead = FALSE
    /\ pc = [p \in Procs |-> "idle"]
    /\ old = [p \in Procs |-> NoToken] /\ new = [p \in Procs |-> NoToken]
    /\ members = [p \in Procs |-> {}]
    /\ reason = [p \in Procs |-> "none"]

CodeGrant(p) ==
    \/ PresentCode(p) \/ ConsumeOnce(p) \/ AlreadyUsed(p) \/ RejectCode(p)
    \/ AcceptCode(p) \/ MintForCode(p) \/ CommitCode(p) \/ CommitAnswerLost(p)

RefreshGrant(p) ==
    \/ Consume(p) \/ ReuseDetected(p) \/ UnknownOrExpired(p) \/ CheckUser(p)
    \/ CheckCutoff(p) \/ CutoffFailsOpen(p) \/ Rotate(p)
    \/ MarkGet(p) \/ MarkSet(p) \/ MarkFails(p) \/ AuditRefresh(p)

Handler(p) ==
    CodeGrant(p) \/ RefreshGrant(p) \/ ReadFamily(p) \/ DeleteFamily(p) \/ Fail(p)

Next ==
    \/ Tick \/ RevokeBeforeSetNow \/ SetStatus
    \/ \E t \in Tokens : Expire(t)
    \/ \E p \in Procs : Handler(p)

Spec == Init /\ [][Next]_vars

-----------------------------------------------------------------------------
(* Properties *)

\* One authorization code is answered with tokens at most once, whatever
\* requests present it together and wherever they fail: ConsumeOnce's
\* UPDATE and the transaction it belongs to decide.
CodeExchangedOnce == exchanges <= 1

\* After RevokeFamily has run for a replayed code or a reused refresh token
\* (handleCodeReplay, ErrRefreshReuseDetected), the family has no token left
\* that can be used, but for those of a rotation that overlapped with a
\* RevokeFamily: SMEMBERS and the DELs are two steps, and the rotation stores
\* its token without looking at the family again.
RevokedFamilyStaysDead ==
    dead => \A t \in Tokens : Live(t) => t \in raced

\* The tokens that answered the code itself die for certain, even when
\* requests race: each is stored before the code's row is committed as used,
\* so a replay that finds the row used also finds the token.  The exception
\* is an exchange that began in time and stored its token after the code had
\* expired, when a second presentation already took the replay path.
ReplayKillsExchange ==
    dead => \A t \in Tokens :
              parent[t] = NoToken /\ Live(t) => t \in raced /\ created[t] >= CodeTTL

\* The client holds two tokens that replaced the same refresh token only if
\* two requests with it overlapped, the second reading it before the first
\* had marked it, or if MarkUsed failed or found it in its last second (Consume,
\* Create and MarkUsed of handleRefreshToken are separate commands).
RotatedOnce ==
    \A t, u \in delivered :
        parent[t] = parent[u] /\ t # u => parent[t] \in again \cup {NoToken}

\* A refresh token minted before the user's tokens were revoked, in the same
\* second even, is rotated only by a request that had read the cutoff before
\* it was written or could not read it (RevokeBeforeSetNow's rounding against
\* the strict comparison of handleRefreshToken).
CutoffRespected ==
    \A p \in Procs : pc[p] = "rotate" /\ old[p] \in before => p \in late

\* Rotation never prolongs a family: however long the chain of rotations, and
\* whatever becomes of the setting, a token expires with a token that answered
\* the code, at the time that was set then (handleRefreshToken copies Expires;
\* "absolute; preserves 24h ceiling").
AbsoluteExpiry ==
    \A t \in Tokens : Minted(t) =>
        \E r \in Tokens, ttl \in RefreshTTLs :
            /\ Minted(r) /\ parent[r] = NoToken
            /\ exp[t] = exp[r] /\ exp[r] = created[r] + ttl

-----------------------------------------------------------------------------
(* The code as a single-use credential. *)

codeState ==
    [i \in {"code"} |-> IF code = "unused" THEN "live"
                        ELSE IF exchanges = 0 THEN "void" ELSE "spent"]

codeUses == [i \in {"code"} |-> exchanges]

CodeSpec == INSTANCE OneShot WITH Ids <- {"code"}, state <- codeState, uses <- codeUses

\* The endpoint implements OneShot for its code: the step that gives tokens
\* away is the commit that marks an unused row, and a code burned by a
\* rejection or by a commit whose answer was lost gives none later
\* (handleAuthorizationCode with ConsumeOnce).
CodeIsOneShot == CodeSpec!Spec

-----------------------------------------------------------------------------
(* What the handlers' steps keep true; the strengthening of the properties. *)

\* A handler knows only tokens that were minted.
HandlersOK ==
    /\ fam \cup delivered \cup before \subseteq {t \in Tokens : Minted(t)}
    /\ \A p \in Procs :
        /\ pc[p] \in RefreshSteps => old[p] \in Tokens /\ Minted(old[p])
        /\ pc[p] \in {"markGet", "markSet", "audit"} => new[p] # NoToken
        /\ new[p] # NoToken =>
             Minted(new[p]) /\ pc[p] \in {"codeCommit", "markGet", "markSet", "audit"}
        /\ \A t \in members[p] : Minted(t)

\* Only the transaction that updated the row is past ConsumeOnce, and nothing
\* has been answered while the committed row is unused.
CodeInv ==
    /\ code = "unused" => exchanges = 0
    /\ codeRow # NoProc => code = "unused"
    /\ \A p \in Procs : pc[p] \in {"checks", "mint", "codeCommit"} => codeRow = p
    /\ CodeExchangedOnce

\* CreatedAt is never in the future, and the rounded cutoff is above that of
\* every token there was.
CutoffInv ==
    /\ \A t \in Tokens : created[t] <= clock
    /\ \A t \in before : created[t] < cutoff
    /\ CutoffRespected

\* A token that was not read twice is in the hands of one rotation, or has been
\* replaced and can no longer be used.
RotationInv ==
    /\ RotatedOnce
    /\ \A t \in Tokens : Minted(t) /\ parent[t] # NoToken => Minted(parent[t])
    /\ \A t \in delivered : parent[t] \in Tokens \ again => ~Live(parent[t])
    /\ \A p \in Procs :
         /\ pc[p] = "codeCommit" /\ new[p] # NoToken => parent[new[p]] = NoToken
         /\ pc[p] \in {"markGet", "markSet", "audit"} => parent[new[p]] = old[p]
         /\ pc[p] \in RefreshSteps /\ old[p] \notin again =>
              /\ \A q \in Procs \ {p} : pc[q] \in RefreshSteps => old[q] # old[p]
              /\ \A t \in delivered : parent[t] # old[p]
              /\ pc[p] = "audit" => ~Live(old[p])

\* The index of the family names every live token but those that raced a
\* RevokeFamily, and a root is missing from what a RevokeFamily has read only
\* if the code has expired.
FamilyInv ==
    /\ RevokedFamilyStaysDead
    /\ \A t \in raced : Minted(t)
    /\ \A t \in Tokens : Live(t) => t \in fam \cup raced
    /\ \A t \in raced : parent[t] = NoToken /\ Live(t) => created[t] >= CodeTTL
    /\ dead \/ delivered # {} => code = "used"
    /\ \A p \in Procs :
         /\ dead /\ Reading(p) => old[p] \in raced
         /\ pc[p] \in RefreshSteps => code = "used"
         /\ pc[p] \in RevokeSteps => code = "used" \/ (reason[p] # "misuse" /\ clock >= CodeTTL)
         /\ pc[p] = "del" =>
              \A t \in fam \ members[p] : parent[t] = NoToken => created[t] >= CodeTTL

TokenInv ==
    TypeOK /\ HandlersOK /\ CodeInv /\ CutoffInv /\ AbsoluteExpiry /\ RotationInv /\ FamilyInv

=============================================================================
