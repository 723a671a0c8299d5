# Verification of Schlass

Schlass is a self-hosted OpenID Connect identity provider: one Go process in
front of PostgreSQL and Valkey. These modules model the parts of it in which
several requests work on the same state, TLC checks them on small instances,
and TLAPS proves the main results for every instance.

Paths below are relative to the repository.

## The system and its parts

The process serves an admin and user API, the OIDC endpoints and a web
interface. Durable state is in PostgreSQL (users, clients, signing keys,
authorization codes, reset tokens, recovery codes, settings, audit log); what
expires is in Valkey (sessions, refresh tokens, MFA challenges, revocation
cutoffs, rate-limit windows). `docs/security.md:134` restricts an installation
to a single instance, so concurrency means concurrent requests of one process,
plus the recovery command, which is a process of its own.

| Part | Source (`internal/`) | Module |
|---|---|---|
| User administration | `users/` | `UserAdmin`; session side in `Sessions` |
| Token endpoint | `authserver/token.go`, `authcode_store.go`, `oidc/refresh_store.go` | `TokenEndpoint`; its client in `Clients`, its counter in `RateLimiter` |
| Revocation cutoffs | `session/revokebefore.go` | user cutoff in `TokenEndpoint`, client cutoff in `Clients` |
| Client administration | `clients/` | `Clients` |
| Authorization endpoint | `authserver/authorize.go` | code and client in `Clients`, session and max_age in `Sessions` |
| Bearer middleware | `authserver/bearer_middleware.go` | its comparison with the client cutoff, in `Clients` |
| Signing keys | `signingkeys/`, order of start in `cmd/schlass/main.go` | `SigningKeys` |
| Password reset | `auth/password_reset.go`, `password_reset_token_store.go` | `PasswordReset` |
| Recovery command | `recovery/reset.go` | `PasswordReset` (`Execute`) |
| Sessions, session middlewares | `session/store.go`, `auth/middleware.go`, `optional_middleware.go` | `Sessions` |
| Login and lockout | `auth/handler.go`, `users/store.go` | `Lockout`; sessions in `Sessions` |
| MFA challenge, recovery codes | `auth/mfa.go` (PostChallenge), `recovery_code_store.go`, `crypto/totp.go` | `Challenge` |
| MFA enrollment | `auth/mfa.go` (Start, Verify, Complete) | `Enrollment` |
| Settings, first-run setup | `settings/`, `instanceconfig/`, `server/setup.go` | `Settings`; security settings under logins in `Lockout` |
| Rate limiters | `middleware/ratelimit.go`, `authserver/token.go` | `RateLimiter` |
| Sweeper | `server/sweeper.go` | deletion of codes in `Clients` |
| Audit log | `audit/` | what its rows say, in `Settings` and `Clients` |
| Mail, HTTP plumbing, validation, cryptography, OIDC primitives, configuration, web interface | | not modelled, see the end |

`OneShot` is an abstract specification: a credential that is issued, used in one
atomic step at most once, or withdrawn, and never usable again. The
authorization code, the reset links and the recovery codes implement it, each
with a refinement mapping in its module.

`PROJECT.json` lists every component with its files, the source lines behind
every definition, and the hazards with the property that covers each.

## How the modules are written

*PostgreSQL.* Transactions run at READ COMMITTED. A statement sees what was
committed when it started, plus the transaction's own writes. An UPDATE, a
DELETE or a SELECT ... FOR UPDATE waits for the lock of a row and then evaluates
its WHERE clause again; locks are held until the end of the transaction; `now()`
is the beginning of the transaction. Where other requests can observe the
difference each statement is a step; where a transaction holds the only lock
that matters from its first write to its commit, write and commit are one step,
and the module says so. Every transaction may fail at every step, which rolls it
back.

*Valkey.* A command is a step. The pipelines of go-redis are sent together but
are not MULTI/EXEC. In `TokenEndpoint` and `Sessions` they are one step when
they succeed; where a half-done pipeline leaves something a property can see
(`Sessions`), there is also an action in which it stops in the middle. In
`RateLimiter`, where the order of the commands of different requests is the
point, each command of a pipeline is a step.

*Processes.* `Procs` is the set of requests in flight, `pc[p]` the next step of
each, and the locals of a Go function that survive a step are functions of `p`.
An action is named for the Go function whose step it is. `Goto`, `Return`,
`Fail` mean the same in each module. Modules whose proofs share a module have
names of their own for these: `Logins`, `step` in `Lockout`, `Handlers`, `stmt`,
`NextStmt`, `Finish`, `FailTx` in `UserAdmin`, `Tasks`, `stage`, `Move`, `Done` in
`SigningKeys`, `Writers`, `phase`, `StepTo`, `Reply`, `Abort` in `Settings`. Their
specifications are `LockoutSpec`, `UsersSpec`, `KeysSpec` and `SettingsSpec`.

*History.* Some variables are read by properties only (marked "history" where
they are declared): no guard depends on one. Several properties name the one
race that the code allows, with such a variable: `again` and `raced` in
`TokenEndpoint`, `shared` in `SigningKeys`, `overtaken` in `PasswordReset` and
`Clients`, `astray` in `Sessions`, `crossed` in `Challenge`. The property then
says that nothing else leads to the exception.

### UserAdmin

State: the rows of `users` (`role`, `status`, `rowLock`) and, per request, its
step, target, call, the role it has `seen` and the rows that its FOR
UPDATE has still `toLock`. `Create` ... `Delete` enter the five handlers; `Read`,
`SelectSuperAdmins`, `LockSuperAdmin`, `Write`, `EnforceLastAdminLockout` and
`Commit` are the statements they share. Only an active super_admin gets in
(`Enter`), and `SelfOpRejected` is `rejectSelfOp`.

### TokenEndpoint

One authorization code and the refresh-token family it starts. The code is a row
consumed by `ConsumeOnce` in a transaction; tokens (`rt`, `created`, `exp`) and
the family index `fam` are Valkey keys. The authorization-code grant goes
through `PresentCode` ... `CommitCode` (`CommitAnswerLost`: the commit happens
and its answer does not arrive), the refresh grant through `Consume`,
`CheckUser`, `CheckCutoff`, `Rotate`, `MarkGet`/`MarkSet`, `AuditRefresh`; both
may end in `RevokeFamily` (`ReadFamily`, `DeleteFamily`). Around them the clock
ticks, tokens and the code expire, and an administrator disables the user or
writes the cutoff. The checks on client, redirect URI, PKCE, grants and scopes
reject nondeterministically (`RejectCode`, `Fail`). The lifetime of the index is
left out: it is renewed with every token and outlives each fresh one.

### Clients

One client: its row (`config`, `status`, the secrets), one code, the access
tokens issued for it, the cutoff, and what the audit rows say. Administration is
`PatchOne` and `DeleteOne`, which hold the row from one step to the next,
`RotateSecret`, disable and enable. `/authorize` reads the client, then inserts a
code; both grants read the client, check the secret, narrow the scopes and sign.
The cascade of a delete waits for a code row that is locked. `SweepCodes` is the
sweeper.

`trail` has, for each value of scopes and of grants, the number of audit rows that
lead to it (`to`, or the registration) less the number that lead away from it
(`from`). The rows have no other order than created_at, which is the begin of the
transaction and so comes before the wait for the row in `GetByIDForUpdate`; a
balance needs none. `AuditTrail` says that the client's value has balance 1 and
every other value 0. Two PATCHes that started from the same copy would break it.

### SigningKeys

A key's `keyStatus` and `rotatedAt`, the server (`down`, `booting`, `up`), requests
that read the active key and sign or rotate later, and the latest expiry of what
each key has signed. `Crash` may happen at any time and forgets the requests.
`shared` are the keys that two rotations in flight have read.

### PasswordReset

The reset tokens of one account, their row locks, and the connection pool:
a request holds a connection during its transaction, and a failed confirm needs
a second one for its audit row while it still holds the first
(`AuditConfirmFailed`). A confirm may come with a token that is in no row
(`TokenNotFound`). Whether PostRequest finds an account that may have a link is a
free choice of `Lookup`, since an administrator may change it at any time.

The UPDATE of `InvalidateOutstandingForUser` fixes its rows by a snapshot
(`Invalidate`) and locks them one by one (`LockRow`), in any order: the statement
has no ORDER BY. So two requests that burn the same two links may wait for each
other (`Circular`), and PostgreSQL ends that with an error for one of them
(`DeadlockDetected`). `Exhausted` is a pool without a free connection, one of which
is held by a failed confirm that waits for another.

### Sessions

The sessions of one user: the key of each (`left`, its remaining lifetime), the
index set with its own lifetime, the middlewares, logout, change of password,
disabled MFA, every login that ends in a session, `/authorize` with max_age and
the login it forces (`CheckMaxAge`, `SlideMaxAge`, `ForceReauth`), and every
handler that deletes all sessions (`SMembers`, `DeleteAll`). `astray` records sessions that were
written while a deletion was between its read and its write, written back by a
`Get` after they were gone, or written by half a pipeline: exactly the ones
about which the code promises nothing.

### Lockout

`PostLogin` for one account: settings are read on the pool, the transaction
begins, the row is read, the hash takes its time, and then one conditional UPDATE
counts a failure or clears the counters. The settings, the password and the
enrollment change underneath. The count and the lock belong to the row, `lim`,
`dur`, `start` and the two flags to the request.

### Challenge

`PostChallenge` for one account. Time is counted in TOTP periods and a TOTP code
is the period it was made for (0: a wrong code). `Decrement` is HINCRBY, which
makes a key that is gone anew; `left` is -1 for all negative counts, which the
code does not tell apart. `highest` is the latest period accepted so far,
`crossed` that a counter was written by a request that had read an older one.

### Enrollment

Start, Verify and Complete over the hash `mfa:enroll:<token>` (`key`), and the
reset of the factor by an administrator or by its owner. The ten recovery codes
of a verification are one value, named by the secret that was verified; a second
insertion of the same ten is a second copy of it (`codes` are pairs of a set and
the number of its insertion). The fields of the hash are `user`, `secret`,
`hashes` and `tries`, each a function of the token. `home` records for which token
a secret was generated, `restarted` the secrets that replaced one already verified,
`raced` the codes inserted inside a reset, `again` the sets that two Completes have
read, `kept` the tokens whose DEL failed.

### Settings

`instance_config` (`value`, `complete`), its row locks and the audit rows. A
PATCH whose values validation accepts (`Valid`, `ValidateSettings`) reads key by key (`ReadSetting`, `ReadFails`), compares (`Changes`), and
updates what differs in a transaction (`Begin`, `Set`, `CommitPatch`). The keys it
has still to read or write are the set `pending`, of which it takes the one that
comes first in the code's order (`Rank`, `Foremost`). `PostSetup` is the first-run
setup. `ticks` numbers the begins and commits, because the
created_at of an audit row is the begin of its transaction.

### RateLimiter

One key of either limiter (`kind`): the sorted set of the sliding window, with
ZREMRANGEBYSCORE, ZADD, ZCARD, EXPIRE and ZREM as steps that may come late or
not at all, or the counter of the fixed window with INCR and EXPIRE. Times are
ages, so the clock needs no bound.

## What TLC checks

Each run explores the whole state graph of its instance. Sets of requests,
tokens, keys and users are symmetric, except where a liveness property is
checked. Deadlock is checked in every run.

| Run | Instance | States | Shows |
|---|---|---|---|
| `UserAdminLastAdmin` | 3 users, 2 requests | 51,802 | `LastAdmin`: there is always an active super_admin, when no request grants or writes back the role |
| `TokenEndpointRefresh` | 2 requests, 3 tokens, expiry, one mutation or error | 1,413,577 | `ReplayKillsExchange`, `RevokedFamilyStaysDead`, `RotatedOnce`, `CutoffRespected`, `AbsoluteExpiry`; the code implements `OneShot` (`CodeIsOneShot`) |
| `SigningKeysRotation` | 3 keys, 2 requests, 4 ticks | 1,344,749 | `KeyAvailable`, `Verifiable`, `OneActiveKey`, `Lifecycle` |
| `PasswordResetLinks` | 4 tokens, 2 requests, 2 connections | 115,609 | `OlderLinksBurned`, the liveness property `EveryRequestAnswered`; the links implement `OneShot` (`LinksAreOneShot`) |
| `SessionsRaces` | 2 sessions, 2 requests, lifetime 2, Valkey faults | 255,254 | `DisabledNeverServed`, `IndexCovers`, `EndedStaysEnded` |
| `LockoutRaces` | 2 logins, thresholds 1 and 2, duration 2, 4 ticks, 3 failures | 397,648 | `NoLoginWhileLocked`, `LockedForFullDuration`, `ThresholdLocks` |
| `ChallengeRaces` | 3 requests, 1 challenge of 2 attempts, 1 recovery code | 358,670 | `AttemptsBounded`, `TOTPReplayNeedsCrossing`; recovery codes implement `OneShot` (`RecoveryCodesAreOneShot`) |
| `ClientsRaces` | 2 requests, 3 secrets, 1 tick | 858,318 | `AuditTrail`, `SecretsMoveForward`, `DeletedClientIsOut`, `WithinRegistration` |
| `EnrollmentRaces` | 2 requests, 2 tokens, 2 secrets, 1 attempt | 1,403,636 | `OnlyVerified`, `CodesFollowEnrollment`, `CodesInsertedOnce`, `ClosedForGood`, `AttemptsBounded` |
| `SettingsRaces` | 2 requests, 5 keys of two values, 2 emails | 300,589 | `LogTellsValue`, `OldValueReplaced`, `PatchHeld`, `SetupOnce`, and the liveness property `Answered` |
| `RateLimiterWindows` | 3 requests, 3 members, limit 1, window 2 | 66,769 | `SlidingBound`, `UnderLimitAdmitted`, `TokenWindow` |

The runs list the properties that a reader would ask for. The inductive
invariants that the proofs rest on (`AdminInv`, `TokenInv`, `KeyInv`, `ResetInv`
and `BurnInv`, `SessionInv`, `LockoutInv`, `ChallengeInv`, `ClientInv`,
`EnrollmentInv`, `SettingsInv`, `RateInv`, each with the type invariant of its
module) were checked on the same instances before they were proved.

One run ends in a counterexample to a sentence of the documentation.
`UserAdminStaleUpdate` checks `docs/security.md:78`, by which the last-admin
check serializes destructive operations: a PATCH reads the role without a lock,
sees "user", and skips lock and count; the account is promoted and becomes the
last active super_admin; the PATCH then demotes it.

### Bounds

Two requests are enough for every race of a pair of handlers, and the proofs
cover any number. The other bounds:

- `UserAdmin`: three users are two admins that remove each other and an account
  that is created or demoted meanwhile.
- `TokenEndpoint`: three tokens are an exchange and two rotations, of the same
  token or of one another. The code lives for one second and tokens for one or
  two, so that with one tick each may expire under a request. `MaxUpsets` bounds
  the mutations of the user and the errors that leave something behind; each
  kind is explored, one per behaviour. Tokens are minted in the order of their
  numbers (`MintedInOrder`), which leaves out only renamings of what is explored.
- `SigningKeys`: `Grace = 3 = AccessTTL + 2 * MaxDelay` is the tightest value the
  assumption allows. A key that is rotated at once is swept at the fourth tick.
- `PasswordReset`: four tokens are two live links, which two requests burn in
  different orders, and the two that replace them; the recovery command may issue
  any of them. `SpareToken` makes sure that a request under way is never stopped by
  the bound. With two connections for two requests the pool can be exhausted, and
  a request may wait for a connection. Tokens are issued in the order of their numbers
  (`IssuedInOrder`), which leaves out only renamings of what is explored and, unlike
  symmetry, is sound for liveness.
- `Sessions`: two sessions tell "this one" from "all". Lifetime 2 has a session
  that is slid and one that is not. A login fails when no token is left.
- `Lockout`: the duration is 2 in TLC and any set of values in the proof;
  thresholds 1 and 2 let logins count against different ones.
- `Challenge`: three requests are two that hold an attempt each and one that
  finds none left; two attempts are the last one and one before it. Two periods
  have a code that becomes too old, and one that is early. With three attempts
  the run takes longer and shows nothing else.
- `Clients`: three secrets are the current, the previous and the one that is
  about to replace them. A PATCH may take openid or either grant away, and give openid back.
- `Enrollment`: two secrets are one that is verified and one that replaces it.
  With one attempt the second Verify is one too many.
- `Settings`: a section of two keys can be locked in two orders. As in the code,
  the flag may be set to the zero value of its type and the other settings may
  not, so a failed SELECT can hide a change of the flag and of nothing else. Requests start
  up to tick 2, so there are three transactions, of which two may overlap.
- `RateLimiter`: limit 1 with three requests has one that is counted in and two
  that are rejected, with overlap or without. A window of 2 and a delay of 1 have
  scores within, at the border of and outside of the window.

### Fairness

In `PasswordReset`, `FairSpec` assumes strong fairness of each request's own
steps: pgxpool hands out connections, and PostgreSQL row locks, in order of
arrival, so a request that could proceed again and again does. Nothing is assumed
about other failures: a request need not be cancelled to be answered. A circular
wait for rows is ended by PostgreSQL after `deadlock_timeout`, so
`DeadlockDetected` is one of a request's own steps, and without it the property
does not hold. Nor does it hold without its exception: when every connection is held
and one of the holders is a failed confirm that waits for another
connection, nothing in the server ends the wait (no timeout is set, and
`internal/database/postgres.go:17` sets 10 connections). `EveryRequestAnswered`
allows a request to wait for good only if the pool stays exhausted in this way for good.

In `Settings`, `SettingsSpec` assumes weak fairness of each request's steps (`Progress`):
a goroutine runs on unless it waits for a row. Errors and new requests are not
forced. `Answered` then says that two handlers never wait for each other, because
all of them update the keys in the same order.

The other modules state no liveness. In most of them no step waits for another
request. In `Clients` a delete waits for the code's row, whose owner waits for
nothing. In `UserAdmin` a handler locks the rows of all super_admins in the order
of the scan, and PostgreSQL ends a circular wait by aborting one of the
transactions (`FailTx`). What expires does so by the clock alone.

## What is proved

Every safety property of the runs is proved: 38 of the 40 properties. The proofs
hold for any sets of requests, tokens, keys and users (the requests of `Challenge`
and `Enrollment` are finitely many, because they are counted), and any bounds.
`AccountProofs` has the proofs about `PasswordReset`, `Lockout` and `UserAdmin`,
`CredentialProofs` those about `Sessions` and `SigningKeys`; each of the other
modules has a `...Proofs` module of its own. For each component there is an
`Init` lemma, a `Step` lemma with one step per action, or one lemma per action,
and the theorems that follow.

| Theorem | Result | Argument |
|---|---|---|
| `AccountProofs!TypeCorrect` | `UsersTypeOK` | with `BusyOK`: a busy handler has a target and one of the admitted requests |
| `LastAdminProtected` | `LastAdmin`, if every Create and Update asks for the role user | `AdminInv`: from the end of its FOR UPDATE to its commit a handler owns the lock of every super_admin row. Rows its snapshot missed would break that; without grants there are none. `UserAdminStaleUpdate` shows that the condition is needed. |
| `TokenEndpointProofs!TokenInvariant` | `TokenInv` | the conjunction of what follows with `HandlersOK`: a handler knows only tokens that were minted |
| `ExchangedOnce` | `CodeExchangedOnce` | `CodeInv`: only the transaction that owns the code row is past ConsumeOnce, and no answer precedes its commit |
| `CutoffEnforced` | `CutoffRespected` | `CutoffInv`: no token is from the future, and the rounded cutoff is above the creation of every token there was |
| `ExpiryPreserved` | `AbsoluteExpiry` | every minted token has a root; `Rotate` copies the expiry |
| `RotatedOnceUnlessRaced` | `RotatedOnce` | `RotationInv`: a token outside `again` is in the hands of one rotation, or replaced and marked |
| `FamilyStaysDead`, `ReplayKills` | `RevokedFamilyStaysDead`, `ReplayKillsExchange` | `FamilyInv`: the index names every live token outside `raced`, and a RevokeFamily under way has read every root that was stored in time |
| `CodeImplementsOneShot` | `CodeIsOneShot` | the commit of an exchange is `Spend`; it finds the row unused because of `CodeInv` |
| `ClientsProofs!ClientInvariant`, `AuditTrailIsTrue`, `SecretsNeverReturn`, `DeletedClientRejected`, `GrantsWithinRegistration` | `ClientInv`, `AuditTrail`, `SecretsMoveForward`, `DeletedClientIsOut`, `WithinRegistration` | under its lock the copy of a PATCH is the row, and so the value that its audit row leaves is the one with balance 1 (`TrailStep`); what a rotation installs is new; a request that was not overtaken has a copy that is the row; after a deletion only refresh grants are left |
| `CredentialProofs!KeyInvariant` | `KeyInv` | `AgeInv` bounds what a retiring key can still sign by `rotatedAt + 2 * MaxDelay + AccessTTL`: one delay between the rotation's `now()` and its commit, one between a reader's GetActive and its signature |
| `AlwaysAKey`, `TokensVerifiable`, `KeysMoveForward`, `OneActive` | `KeyAvailable`, `Verifiable`, `Lifecycle`, `OneActiveKey` | from `KeyInv`; the last one from `RotationInv`: unless two rotations shared a key, there is one at work and its key is active |
| `AccountProofs!ResetInvariant`, `LinkUsedOnce`, `DeadLinksStayDead` | `ResetInv`, `SingleUse`, `BurnedLinkIsDead` | from its SELECT to its commit a confirm owns a row that is unused, and an unused row has set no password |
| `BurnInvariant`, `NewLinkBurnsOld` | `BurnInv`, `OlderLinksBurned` | a request that nobody has overtaken has locked, or will lock, every live link |
| `LinksImplementOneShot` | `LinksAreOneShot` | a commit of PostRequest is `Issue` of the new link with the older ones withdrawn, a commit of PostConfirm is `Spend` |
| `CredentialProofs!SessionInvariant`, `DisabledIsOut`, `IndexIsComplete`, `EndedSessionsStayDead` | `SessionInv`, `DisabledNeverServed`, `IndexCovers`, `EndedStaysEnded` | `Covered`: the index outlives each session that is not astray, and every deletion under way has read it |
| `AccountProofs!LockoutInvariant`, `ThresholdAlwaysLocks`, `LockedOut`, `LockRunsItsCourse` | `LockoutInv`, `ThresholdLocks`, `NoLoginWhileLocked`, `LockedForFullDuration` | a transaction's `now()` is never ahead of the clock, so a lock that is active has not run out for any WHERE clause |
| `ChallengeProofs!ChallengeInvariant`, `RecoveryCodesBurn`, `TOTPOnlyForward`, `RecoveryImplementsOneShot` | `ChallengeInv`, `RecoveryCodeBurnsOnce`, `TOTPReplayNeedsCrossing`, `RecoveryCodesAreOneShot` | `FactorInv`: a code in the list has completed no login, and until two requests cross the counter is the latest period accepted |
| `AttemptsBound` | `AttemptsBounded` | `AttemptsInv`, with cardinalities: what was tried, the requests about to try and the attempts left are together at most `Attempts` |
| `EnrollmentProofs!EnrollmentInvariant` | `EnrollmentInv` | the conjunction of the five parts below |
| `OnlyVerifiedHolds` | `OnlyVerified` | `VerifiedInv`: recovery_hashes are there, or about to be written, only while the secret of the token is verified or replaced a verified one, so that is what Complete reads |
| `CodesFollowEnrollmentHolds` | `CodesFollowEnrollment` | `ResetInv`: what a reset's DELETE has not found was inserted after it |
| `CodesInsertedOnceHolds` | `CodesInsertedOnce` | `InsertInv`: once its codes are inserted, a token is closed, about to be closed by the Complete that inserted them, or one whose DEL failed; `home` ties the codes to the token |
| `ClosedForGoodHolds` | `ClosedForGood` | `TokenInv`: only `OpenToken` writes user_id, and its token is new |
| `AttemptsBoundedHolds` | `AttemptsBounded` | `CountInv`, with cardinalities: the codes compared under an open token and the requests about to compare one are at most its verify_attempts, and at most `Attempts` |
| `SettingsProofs!SettingsInvariant` | `SettingsInv` | the parts below, and that ticks never run backwards (`TickInv`) |
| `LogTellsValueHolds` | `LogTellsValue` | `RowInv`: a setting has the new value of the row that was committed last. If that is not the row with the latest begin, the two overlapped |
| `OldValueReplacedHolds` | `OldValueReplaced` | `Fresh`: what a request has read is the value of the last row, unless that row is younger than the request |
| `PatchHeldHolds` | `PatchHeld` | `PatchInv`: a setting that was read equal to what is asked has had that value, and one that differs is in `chg` and is written |
| `SetupOnceHolds` | `SetupOnce` | `SetupInv`: a setup under way began before the commit of every other; `EmailInv`: the emails inserted are all different |
| `RateLimiterProofs!RateInvariant` | `RateInv` | the parts below, and that a key belongs to one limiter (`KindInv`) |
| `SlidingBoundHolds` | `SlidingBound` | `SetInv`: what counts against the limit is in the sorted set with its own time, so the next ZCARD sees it |
| `UnderLimitHolds` | `UnderLimitAdmitted` | `RequestInv`: what a request counts is in its window or was in flight when it arrived |
| `TokenWindowHolds` | `TokenWindow` | `CounterInv`: requests are told apart by their number and the life of the counter, and at most two lives fall in a window |

Assumptions on the constants: the "no such" values are not members of their
sets, numbers are naturals, lifetimes, thresholds and durations are positive. The
only one about the system is `TimeAssumption`, `Grace >= AccessTTL + 2 *
MaxDelay`. The code's values are 24 h 15 min 30 s (`signingkeys/handler.go:102`)
against at most 1 h (`settings/validate.go:79`), which leaves a request more than
11 hours. The server does not enforce a limit on a handler: its WriteTimeout of
30 s only ensures that a token signed later reaches nobody, so for a rotation the
bound remains an assumption.

`Settings` also assumes that the order of the keys (`Rank`) is total, as the order
of statements in a handler is.

Only model-checked: liveness (`EveryRequestAnswered`, `Answered`), which is out of
the prover's reach.

## Other places where code and text differ

These came up while modelling. They have no run of their own.

Where a property names the exception, it is given in brackets.

Tokens and keys:

- `docs/security.md:66`, "each use deletes the presented refresh token and inserts
  a fresh one": `Consume` is a plain GET, so two overlapping requests with one
  token are both answered with a new one (`RotatedOnce`). The same happens after
  a MarkUsed that failed, which is only logged, or that found the token in its
  last second, when TTL rounds to 0.
- A code that is presented again once it has expired takes the replay path. If the
  exchange is still under way, the index is emptied before or after it stores
  its token, and a later replay does not find that token
  (`ReplayKillsExchange`).
- `test/integration/signing_key_rotate_test.go:19`, "previous active is now
  retiring": two rotations that read the same key both insert one, and there are
  two active keys (`OneActiveKey`). This costs neither availability nor
  verifiability.
- `session/revokebefore.go:75` says that the client cutoff is read by the refresh
  grant; only the bearer middleware reads it. A refresh grant that had read the
  client before it was deleted signs a token that may be newer than the cutoff
  (`DeletedClientIsOut`).

Accounts and sessions:

- `auth/password_reset.go:178` ("burn prior unused tokens"): two requests at the
  same time do not see each other's row, so both links stay live
  (`OlderLinksBurned`).
- `auth/password_reset.go:403`: a failed confirm writes its audit row on the pool
  while its transaction is open, and may wait for the connection it holds itself
  when no other is free (`EveryRequestAnswered`).
- `docs/security.md:31`: the session middleware does not read the cutoff, only
  the bearer middleware and the token endpoint do (`EndedStaysEnded`).
- `docs/security.md:30`: a `Get` that read the old session before a rotation
  writes it back afterwards (`astray` in `Sessions`).
- `session/store.go:112`: an index entry lost by half a pipeline is not restored
  by the next `Get`.
- `authserver/authorize.go:151`: the max_age check passes when the session has
  vanished since the middleware read it.
- `auth/handler.go:230`: the comment names ACCOUNT_LOCKED for a failure that
  finds the account locked; the answer is INVALID_CREDENTIALS.
- `auth/handler.go:562`: PostChangePassword compares with the hash that the
  middleware read, and overwrites a reset that was committed meanwhile.
- An Update without a role writes back the role it read
  (`users/handler.go:444`), and so may undo a concurrent change of it.
- An account that is promoted after PostRequest keeps its reset link, although
  PostRequest gives none to a super_admin.

Second factor:

- `docs/security.md:39`, "so a code cannot authenticate twice in its 30-second
  window": two requests that cross both read the old counter, and the setter does
  not compare. It may also put the counter back (`TOTPReplayNeedsCrossing`).
- A Start after Verify replaces the verified secret, and Complete enrolls one of
  which no code was seen (`OnlyVerified`).
- Overlapping Completes, or one whose DEL failed and that is repeated, insert the
  ten recovery codes twice (`CodesInsertedOnce`; `docs/security.md:21` calls them
  single-use).
- A Complete between the two statements of a reset leaves its codes behind
  (`CodesFollowEnrollment`).

Settings and limits:

- Two first setups with different emails that overlap make two super_admins
  (`SetupOnce`).
- The created_at of an audit row is the begin of its transaction, so overlapping
  changes may be listed in the wrong order (`LogTellsValue`; `AuditTrail` of
  `Clients` asks for no order). `Settings()` drops
  the errors of its SELECTs, and a PATCH then compares with zero values
  (`PatchHeld`).
- Of two overlapping requests at the limit both may be rejected, because a
  rejected one counts until its ZREM (`UnderLimitAdmitted`). A member added just
  before the key expires is forgotten (`SlidingBound`).
- An INCR whose EXPIRE is lost leaves a counter without lifetime, which limits the
  client for good; a fixed window admits up to two limits in the time of one
  (`TokenWindow`).

## Not modelled, and why

- The audit log is an append in the transaction of every handler. It adds an
  error path, which every module has, and no handler reads it back. What its rows
  say is modelled where it is computed from a copy (`Settings`, `Clients`).
- The password itself is not state of any module: that a change of password and a
  reset may overwrite each other is a fact of the code without a guard.
- The bearer middleware and userinfo read and answer; beyond the client cutoff
  nothing of them can be out of step with another request.
- The sweeper's other table: a reset row that it deletes expired 30 days ago, and
  PostConfirm answers for a missing row as for an expired one.
- The development client is written before the server takes requests.
- Mails are sent after the commit and forgotten.
- Validation, cryptography (but for the TOTP window) and the OIDC primitives are
  pure functions on strings and keys, covered by unit tests.
- Routing, headers, logging, configuration and connection setup have no state of
  their own; the web interface keeps none that the server trusts.
- Crashes of the server are in `SigningKeys` only. In the other modules a crash
  is a request that fails at its present step, for all requests at once.
