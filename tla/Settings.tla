------------------------------- MODULE Settings -------------------------------
(***************************************************************************)
(* The table instance_config and its writers: the PATCH handlers of        *)
(* internal/settings and the first-run setup of internal/server/setup.go.  *)
(* A handler reads the settings on the pool, one SELECT per key, and       *)
(* compares; then a transaction updates the keys that differ, with an      *)
(* audit row for each, and holds their rows until it commits.  ticks       *)
(* orders the begin and the commit of transactions: created_at of an audit *)
(* row is the begin of its transaction.                                    *)
(***************************************************************************)
EXTENDS Naturals

CONSTANTS
    Writers, NoWriter,
    SecurityKeys, TokenKeys, EmailKeys,     \* the keys of each section ...
    Rank,                                   \* ... and their place in the order of the code
    Values, Default, NoValue,               \* what a setting may be, and what it is at first
    Zero,                                   \* the zero value of its Go type
    Valid,                                  \* the values of a setting that validation accepts
    Emails, NoEmail,                        \* addresses given to the setup
    MaxTicks                                \* bound: no request starts at a later tick

NameKey == "instance_name"
SetupKey == "setup_complete"
PasswordKey == "smtp_password"

ConfigKeys == {NameKey} \cup SecurityKeys \cup TokenKeys \cup EmailKeys

ASSUME SettingsAssumption ==
    /\ NoWriter \notin Writers /\ Emails # {} /\ NoEmail \notin Emails
    /\ Default \in Values /\ Zero \in Values /\ NoValue \notin Values
    /\ SetupKey \notin ConfigKeys /\ MaxTicks \in Nat /\ Valid \in [ConfigKeys -> SUBSET Values]
    /\ Rank \in [ConfigKeys -> Nat] /\ \A j, k \in ConfigKeys : Rank[j] = Rank[k] => j = k

VARIABLES
    value,          \* instance_config, but for setup_complete
    complete,       \* setup_complete
    admins,         \* super_admins made by the setup, with its first and last tick
    log,            \* audit rows: key, old_value, new_value, and ticks
    ticks,
    lock,           \* the request that holds each row of instance_config
    phase,
    req,            \* the value that a request gives to each setting, if it names it
    pre,            \* the values that it has read
    pending,        \* keys it still has to read, or to write
    chg,            \* keys that it has found to differ
    email,          \* the address of a setup
    from, at,       \* ticks when it began and when its transaction began
    \* History, read by properties only:
    held,           \* named settings that have had their new value meanwhile
    blind           \* settings whose SELECT failed

store == <<value, complete, admins, log>>
locals == <<req, pre, pending, chg, email, from, at>>
noted == <<held, blind>>
settingsVars == <<store, ticks, lock, phase, locals, noted>>

MaybeValue == Values \cup {NoValue}
AuditRows == [key : ConfigKeys \ {PasswordKey}, old : MaybeValue, new : Values,
              from : Nat, at : Nat, till : Nat, blind : SUBSET ConfigKeys]
Steps == {"idle", "read", "write", "commit", "answer",
          "setup", "create", "complete", "name", "commitSetup"}

\* The log never has the value of the password.
SettingsTypeOK ==
    /\ value \in [ConfigKeys -> Values] /\ complete \in BOOLEAN
    /\ admins \subseteq [email : Emails, from : Nat, till : Nat]
    /\ log \subseteq AuditRows /\ ticks \in Nat
    /\ lock \in [ConfigKeys \cup {SetupKey} -> Writers \cup {NoWriter}]
    /\ phase \in [Writers -> Steps]
    /\ req \in [Writers -> [ConfigKeys -> MaybeValue]]
    /\ pre \in [Writers -> [ConfigKeys -> MaybeValue]]
    /\ pending \in [Writers -> SUBSET ConfigKeys] /\ chg \in [Writers -> SUBSET ConfigKeys]
    /\ email \in [Writers -> Emails \cup {NoEmail}]
    /\ from \in [Writers -> Nat] /\ at \in [Writers -> Nat]
    /\ held \in [Writers -> SUBSET ConfigKeys] /\ blind \in [Writers -> SUBSET ConfigKeys]

-----------------------------------------------------------------------------
NoRequest == [k \in ConfigKeys |-> NoValue]

Named(p) == {k \in ConfigKeys : req[p][k] # NoValue}

\* The handlers go through the keys in one order.
Foremost(K) == {k \in K : \A j \in K : Rank[k] <= Rank[j]}

StepTo(p, label) == phase' = [phase EXCEPT ![p] = label]

\* The locals that nobody reads any more.
Clear(p) ==
    /\ pre' = [pre EXCEPT ![p] = NoRequest]
    /\ pending' = [pending EXCEPT ![p] = {}] /\ chg' = [chg EXCEPT ![p] = {}]
    /\ email' = [email EXCEPT ![p] = NoEmail]
    /\ from' = [from EXCEPT ![p] = 0] /\ at' = [at EXCEPT ![p] = 0]

Reply(p) ==
    /\ StepTo(p, "idle")
    /\ Clear(p)
    /\ req' = [req EXCEPT ![p] = NoRequest]
    /\ held' = [held EXCEPT ![p] = {}] /\ blind' = [blind EXCEPT ![p] = {}]

Release(p) == lock' = [k \in DOMAIN lock |-> IF lock[k] = p THEN NoWriter ELSE lock[k]]

\* After a commit, of this request or of another.
Notice ==
    held' = [q \in Writers |-> held[q] \cup {k \in ConfigKeys : value'[k] = req[q][k]}]

-----------------------------------------------------------------------------
(* The PATCH handlers *)

\* validate.go, which refuses the zero value of most settings.
ValidateSettings(S, new) == \A k \in S : new[k] \in Valid[k]

\* A validated request of an administrator for some settings of a section.
Patch(p, section) ==
    /\ phase[p] = "idle" /\ ticks < MaxTicks /\ complete
    /\ \E S \in SUBSET section \ {{}} : \E new \in [S -> Values] :
         /\ ValidateSettings(S, new)
         /\ req' = [req EXCEPT ![p] = [k \in ConfigKeys |->
                                         IF k \in S THEN new[k] ELSE NoValue]]
         /\ pending' = [pending EXCEPT ![p] = S]
         /\ held' = [held EXCEPT ![p] = {k \in S : value[k] = new[k]}]
    /\ from' = [from EXCEPT ![p] = ticks]
    /\ StepTo(p, "read")
    /\ UNCHANGED <<store, ticks, lock, pre, chg, email, at, blind>>

PatchGeneral(p) == Patch(p, {NameKey})
PatchSecurity(p) == Patch(p, SecurityKeys)
PatchTokens(p) == Patch(p, TokenKeys)
PatchEmail(p) == Patch(p, EmailKeys)

\* Mutant: what differs is decided from a copy that was read long ago.
ReadCached(p) ==
    /\ phase[p] = "read"
    /\ \E k \in Foremost(pending[p]) :
         /\ pre' = [pre EXCEPT ![p][k] = Default]
         /\ pending' = [pending EXCEPT ![p] = @ \ {k}]
    /\ UNCHANGED <<store, ticks, lock, phase, req, chg, email, from, at, noted>>

\* Settings, one SELECT after the other.
ReadSetting(p) ==
    /\ phase[p] = "read"
    /\ \E k \in Foremost(pending[p]) :
         /\ pre' = [pre EXCEPT ![p][k] = value[k]]
         /\ pending' = [pending EXCEPT ![p] = @ \ {k}]
    /\ UNCHANGED <<store, ticks, lock, phase, req, chg, email, from, at, noted>>

\* Settings ignores an error of a SELECT and goes on with the zero value;
\* PatchGeneral does not call it before it has compared.
ReadFails(p) ==
    /\ phase[p] = "read" /\ NameKey \notin Named(p)
    /\ \E k \in Foremost(pending[p]) :
         /\ value[k] # Zero
         /\ pre' = [pre EXCEPT ![p][k] = Zero]
         /\ pending' = [pending EXCEPT ![p] = @ \ {k}]
         /\ blind' = [blind EXCEPT ![p] = @ \cup {k}]
    /\ UNCHANGED <<store, ticks, lock, phase, req, chg, email, from, at, held>>

\* A new password cannot be compared and always counts as a change.
Changed(p, k) == k = PasswordKey \/ req[p][k] # pre[p][k]

\* Mutant: the first change ends the search.
FirstChange(p) == Foremost({k \in Named(p) : Changed(p, k)})

\* The list of changes.
Changes(p) == {k \in Named(p) : Changed(p, k)}

\* Nothing differs, and nothing is written.
NoChange(p) ==
    /\ phase[p] = "read" /\ pending[p] = {} /\ Changes(p) = {}
    /\ StepTo(p, "answer")
    /\ Clear(p)
    /\ UNCHANGED <<store, ticks, lock, req, noted>>

Begin(p) ==
    /\ phase[p] = "read" /\ pending[p] = {} /\ Changes(p) # {}
    /\ ticks' = ticks + 1
    /\ at' = [at EXCEPT ![p] = ticks + 1]
    /\ chg' = [chg EXCEPT ![p] = Changes(p)] /\ pending' = [pending EXCEPT ![p] = Changes(p)]
    /\ StepTo(p, "write")
    /\ UNCHANGED <<store, lock, req, pre, email, from, noted>>

\* Mutant: the keys come in no particular order.
SetInAnyOrder(p) ==
    /\ phase[p] = "write"
    /\ \E k \in pending[p] :
         /\ lock[k] = NoWriter /\ lock' = [lock EXCEPT ![k] = p]
         /\ pending' = [pending EXCEPT ![p] = @ \ {k}]
         /\ StepTo(p, IF pending[p] = {k} THEN "commit" ELSE "write")
    /\ UNCHANGED <<store, ticks, req, pre, chg, email, from, at, noted>>

\* Set: the UPDATE of one key, which waits for its row.
Set(p) ==
    /\ phase[p] = "write"
    /\ \E k \in Foremost(pending[p]) :
         /\ lock[k] = NoWriter /\ lock' = [lock EXCEPT ![k] = p]
         /\ pending' = [pending EXCEPT ![p] = @ \ {k}]
         /\ StepTo(p, IF pending[p] = {k} THEN "commit" ELSE "write")
    /\ UNCHANGED <<store, ticks, req, pre, chg, email, from, at, noted>>

\* Mutant: only the first change is audited.
FirstRow(p) ==
    {[key |-> k, old |-> pre[p][k], new |-> req[p][k], from |-> from[p], at |-> at[p],
      till |-> ticks + 1, blind |-> blind[p]] : k \in Foremost(chg[p]) \ {PasswordKey}}

\* One audit row for each change; that of the password has no values.
ChangeRows(p) ==
    {[key |-> k, old |-> pre[p][k], new |-> req[p][k], from |-> from[p], at |-> at[p],
      till |-> ticks + 1, blind |-> blind[p]] : k \in chg[p] \ {PasswordKey}}

CommitPatch(p) ==
    /\ phase[p] = "commit"
    /\ ticks' = ticks + 1
    /\ value' = [k \in ConfigKeys |-> IF k \in chg[p] THEN req[p][k] ELSE value[k]]
    /\ log' = log \cup ChangeRows(p)
    /\ Release(p)
    /\ Notice
    /\ StepTo(p, "answer")
    /\ Clear(p)
    /\ UNCHANGED <<complete, admins, req, blind>>

Answer(p) ==
    /\ phase[p] = "answer"
    /\ Reply(p)
    /\ UNCHANGED <<store, ticks, lock>>

-----------------------------------------------------------------------------
(* PostSetup *)

\* Mutant: whether the setup is complete is left to the page.
PostSetupAnytime(p) ==
    /\ phase[p] = "idle" /\ ticks < MaxTicks
    /\ \E e \in Emails, v \in Values \ {Zero} :
         /\ email' = [email EXCEPT ![p] = e]
         /\ req' = [req EXCEPT ![p] = [NoRequest EXCEPT ![NameKey] = v]]
    /\ from' = [from EXCEPT ![p] = ticks]
    /\ StepTo(p, "setup")
    /\ UNCHANGED <<store, ticks, lock, pre, pending, chg, at, noted>>

\* IsSetupComplete on the pool; the request is validated, which asks for a name,
\* and the password hashed afterwards.
PostSetup(p) ==
    /\ phase[p] = "idle" /\ ticks < MaxTicks /\ ~complete
    /\ \E e \in Emails, v \in Values \ {Zero} :
         /\ email' = [email EXCEPT ![p] = e]
         /\ req' = [req EXCEPT ![p] = [NoRequest EXCEPT ![NameKey] = v]]
    /\ from' = [from EXCEPT ![p] = ticks]
    /\ StepTo(p, "setup")
    /\ UNCHANGED <<store, ticks, lock, pre, pending, chg, at, noted>>

BeginSetup(p) ==
    /\ phase[p] = "setup"
    /\ ticks' = ticks + 1
    /\ at' = [at EXCEPT ![p] = ticks + 1]
    /\ StepTo(p, "create")
    /\ UNCHANGED <<store, lock, req, pre, pending, chg, email, from, noted>>

\* The unique index waits for a transaction that has inserted the same email,
\* and refuses one that is there.
Creating(q) == phase[q] \in {"complete", "name", "commitSetup"}

CreateAdmin(p) ==
    /\ phase[p] = "create"
    /\ \A q \in Writers : Creating(q) => email[q] # email[p]
    /\ \A a \in admins : a.email # email[p]
    /\ StepTo(p, "complete")
    /\ UNCHANGED <<store, ticks, lock, locals, noted>>

EmailTaken(p) ==
    /\ phase[p] = "create"
    /\ \E a \in admins : a.email = email[p]
    /\ Reply(p)
    /\ UNCHANGED <<store, ticks, lock>>

SetSetupComplete(p) ==
    /\ phase[p] = "complete" /\ lock[SetupKey] = NoWriter
    /\ lock' = [lock EXCEPT ![SetupKey] = p]
    /\ StepTo(p, "name")
    /\ UNCHANGED <<store, ticks, locals, noted>>

SetInstanceName(p) ==
    /\ phase[p] = "name" /\ lock[NameKey] = NoWriter
    /\ lock' = [lock EXCEPT ![NameKey] = p]
    /\ StepTo(p, "commitSetup")
    /\ UNCHANGED <<store, ticks, locals, noted>>

\* The audit row setup.completed has the name and no old value.
CommitSetup(p) ==
    /\ phase[p] = "commitSetup"
    /\ ticks' = ticks + 1
    /\ complete' = TRUE
    /\ value' = [value EXCEPT ![NameKey] = req[p][NameKey]]
    /\ admins' = admins \cup {[email |-> email[p], from |-> from[p], till |-> ticks + 1]}
    /\ log' = log \cup {[key |-> NameKey, old |-> NoValue, new |-> req[p][NameKey],
                         from |-> from[p], at |-> at[p], till |-> ticks + 1, blind |-> {}]}
    /\ Release(p)
    /\ Notice
    /\ StepTo(p, "answer")
    /\ Clear(p)
    /\ UNCHANGED <<req, blind>>

-----------------------------------------------------------------------------
\* A request that is refused.
Reject(p) == phase[p] = "idle" /\ UNCHANGED settingsVars

\* An error before the commit: the deferred Rollback releases the rows.
Abort(p) ==
    /\ phase[p] \notin {"idle", "answer"}
    /\ Release(p)
    /\ Reply(p)
    /\ UNCHANGED <<store, ticks>>

\* An instance that is new, or one that was set up before.
SettingsInit ==
    /\ value = [k \in ConfigKeys |-> Default] /\ log = {}
    /\ complete \in BOOLEAN
    /\ admins = IF complete
                THEN {[email |-> CHOOSE e \in Emails : TRUE, from |-> 0, till |-> 0]}
                ELSE {}
    /\ ticks = 0 /\ lock = [k \in ConfigKeys \cup {SetupKey} |-> NoWriter]
    /\ phase = [p \in Writers |-> "idle"]
    /\ req = [p \in Writers |-> NoRequest] /\ pre = [p \in Writers |-> NoRequest]
    /\ pending = [p \in Writers |-> {}] /\ chg = [p \in Writers |-> {}]
    /\ email = [p \in Writers |-> NoEmail]
    /\ from = [p \in Writers |-> 0] /\ at = [p \in Writers |-> 0]
    /\ held = [p \in Writers |-> {}] /\ blind = [p \in Writers |-> {}]

Start(p) ==
    \/ PatchGeneral(p) \/ PatchSecurity(p) \/ PatchTokens(p) \/ PatchEmail(p) \/ PostSetup(p)

Progress(p) ==
    \/ ReadSetting(p) \/ NoChange(p) \/ Begin(p) \/ Set(p) \/ CommitPatch(p) \/ Answer(p)
    \/ BeginSetup(p) \/ CreateAdmin(p) \/ EmailTaken(p) \/ SetSetupComplete(p)
    \/ SetInstanceName(p) \/ CommitSetup(p)

SettingsNext ==
    \E p \in Writers : Start(p) \/ Progress(p) \/ ReadFails(p) \/ Reject(p) \/ Abort(p)

\* The handlers run on; an error is never forced.
SettingsSpec ==
    /\ SettingsInit /\ [][SettingsNext]_settingsVars
    /\ \A p \in Writers : WF_settingsVars(Progress(p))

-----------------------------------------------------------------------------
(* Properties *)

Overlap(r, s) == r.at < s.till /\ s.at < r.till

\* The audit rows tell what a setting is: it has the new_value of the row with
\* the latest created_at.  The one exception are changes whose transactions
\* overlapped, because created_at is their begin (CommitPatch, PatchSecurity and
\* the other handlers, PostSetup).  No row has the value of the password.
LogTellsValue ==
    /\ \A r \in log : r.key # PasswordKey
    /\ \A k \in ConfigKeys \ {PasswordKey} :
         LET rows == {r \in log : r.key = k} IN
           /\ rows = {} => value[k] = Default
           /\ \A r \in rows :
                (\A s \in rows \ {r} : s.at < r.at) =>
                  value[k] = r.new \/ \E s \in rows \ {r} : Overlap(r, s)

\* old_value is what the change replaced: the new_value of the row that was
\* committed before, unless that happened after this request had begun to read,
\* or the SELECT failed (the snapshot pre of PatchSecurity and the others).
OldValueReplaced ==
    \A r \in log :
      LET before == {s \in log : s.key = r.key /\ s.till < r.till} IN
        r.old = NoValue \/ r.key \in r.blind \/
          IF before = {} THEN r.old = Default
          ELSE \E s \in before :
                 /\ \A u \in before : u.till <= s.till
                 /\ r.old = s.new \/ s.till > r.from

\* A PATCH that is answered took effect: every setting that it names had the
\* value it gives at some moment between the request and the answer, although
\* what to write was decided before the transaction.  The one exception are
\* settings whose SELECT failed and that were set to the zero value, which
\* looks like no change (Settings drops the error).
PatchHeld ==
    \A p \in Writers : \A k \in Named(p) :
      phase[p] = "answer" => k \in held[p] \/ (k \in blind[p] /\ req[p][k] = Zero)

\* The setup runs once: it is complete exactly if an administrator was made,
\* and only requests that overlapped made two, with different emails
\* (PostSetup checks setup_complete before its transaction).
SetupOnce ==
    /\ complete <=> admins # {}
    /\ \A a, b \in admins : a # b => a.email # b.email /\ a.from < b.till /\ b.from < a.till

\* Every request is answered: the handlers update the keys in the same order,
\* so that none waits for one that waits for it.
Answered == \A p \in Writers : []<>(phase[p] = "idle")

-----------------------------------------------------------------------------
(* The invariant behind the safety properties. *)

\* Transactions end after they begin, and not in the future.
TickInv ==
    /\ \A r \in log : r.at < r.till /\ r.till <= ticks
    /\ \A a \in admins : a.from <= ticks
    /\ \A p \in Writers : from[p] <= ticks /\ at[p] <= ticks

\* The row of a key that was committed last.
LastRow(k, r) == r.key = k /\ \A s \in log : s.key = k /\ s # r => s.till < r.till

NoRow(k) == \A r \in log : r.key # k

\* A setting has the value of its last row (CommitPatch, CommitSetup).
RowInv ==
    \A k \in ConfigKeys \ {PasswordKey} :
      \/ NoRow(k) /\ value[k] = Default
      \/ \E r \in log : LastRow(k, r) /\ value[k] = r.new

\* What a PATCH has read so far (ReadSetting, ReadFails).
Seen(p) == IF phase[p] = "read" THEN Named(p) \ pending[p] ELSE Named(p)

\* A value that was read is that of the last row, unless that row is younger
\* than the request.
Fresh(p, k) ==
    \/ NoRow(k) /\ pre[p][k] = Default
    \/ \E r \in log : LastRow(k, r) /\ (pre[p][k] = r.new \/ r.till > from[p])

PatchInv(p) ==
    phase[p] \in {"read", "write", "commit"} =>
      /\ \A k \in Named(p) : value[k] = req[p][k] => k \in held[p]
      /\ phase[p] = "read" => pending[p] \cap blind[p] = {}
      /\ phase[p] # "read" => chg[p] = Changes(p)
      /\ \A k \in Seen(p) :
           /\ k \in blind[p] => pre[p][k] = Zero
           /\ k \notin blind[p] /\ pre[p][k] = req[p][k] => k \in held[p]
           /\ k \notin blind[p] \cup {PasswordKey} => Fresh(p, k)

\* A setup began before the end of every other, and the emails that are
\* inserted are all different (PostSetup, CreateAdmin).
SetupInv(p) ==
    /\ phase[p] \in {"setup", "create", "complete", "name", "commitSetup"} =>
         /\ Named(p) = {NameKey} /\ email[p] \in Emails
         /\ \A a \in admins : from[p] < a.till
    /\ Creating(p) => \A a \in admins : a.email # email[p]

EmailInv ==
    \A p, q \in Writers : Creating(p) /\ Creating(q) /\ email[p] = email[q] => p = q

WriterInv(p) ==
    /\ PatchInv(p) /\ SetupInv(p)
    /\ phase[p] = "idle" => blind[p] = {}
    /\ phase[p] = "answer" =>
         \A k \in Named(p) : k \in held[p] \/ (k \in blind[p] /\ req[p][k] = Zero)

SettingsInv ==
    /\ SettingsTypeOK /\ TickInv /\ RowInv /\ OldValueReplaced /\ SetupOnce /\ EmailInv
    /\ \A p \in Writers : WriterInv(p)

=============================================================================
