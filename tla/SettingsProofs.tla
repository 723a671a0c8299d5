---------------------------- MODULE SettingsProofs ----------------------------
(***************************************************************************)
(* Proofs about Settings, for any sections of settings, any values and any *)
(* number of requests at once.  SettingsInv adds to the properties which   *)
(* row of the log is the last of its key, and how what a request has read  *)
(* relates to it.                                                          *)
(***************************************************************************)
EXTENDS Settings, TLAPS

\* What a step of another request leaves to a request.
LOCAL Stays(q) ==
    /\ phase'[q] = phase[q] /\ req'[q] = req[q] /\ pre'[q] = pre[q] /\ pending'[q] = pending[q]
    /\ chg'[q] = chg[q] /\ email'[q] = email[q] /\ from'[q] = from[q] /\ at'[q] = at[q]
    /\ blind'[q] = blind[q] /\ held[q] \subseteq held'[q]

LOCAL Others(p) == \A q \in Writers : q # p => Stays(q)

\* A new instance, or one that was set up: nobody is at work.
LEMMA SettingsStart == SettingsInit => SettingsInv
<1> SUFFICES ASSUME SettingsInit PROVE SettingsInv
  BY Zenon
<1>1. SettingsTypeOK
  <2>1. complete \in BOOLEAN
    BY Zenon DEF SettingsInit
  <2>2. admins \subseteq [email : Emails, from : Nat, till : Nat]
    <3>1. (CHOOSE e \in Emails : TRUE) \in Emails
      BY SettingsAssumption, Zenon
    <3> QED
      BY <3>1 DEF SettingsInit
  <2>3. NoRequest \in [ConfigKeys -> MaybeValue]
    BY Zenon DEF NoRequest, MaybeValue
  <2>4. req \in [Writers -> [ConfigKeys -> MaybeValue]] /\ pre \in [Writers -> [ConfigKeys -> MaybeValue]]
    BY <2>3, Zenon DEF SettingsInit
  <2>5. /\ value \in [ConfigKeys -> Values] /\ log \subseteq AuditRows /\ ticks \in Nat
        /\ lock \in [ConfigKeys \cup {SetupKey} -> Writers \cup {NoWriter}]
        /\ pending \in [Writers -> SUBSET ConfigKeys] /\ chg \in [Writers -> SUBSET ConfigKeys]
        /\ held \in [Writers -> SUBSET ConfigKeys] /\ blind \in [Writers -> SUBSET ConfigKeys]
    BY SettingsAssumption, Zenon DEF SettingsInit
  <2>6. /\ phase \in [Writers -> Steps] /\ email \in [Writers -> Emails \cup {NoEmail}]
        /\ from \in [Writers -> Nat] /\ at \in [Writers -> Nat]
    BY Zenon DEF SettingsInit, Steps
  <2> QED
    BY <2>1, <2>2, <2>4, <2>5, <2>6, Zenon DEF SettingsTypeOK
<1>2. TickInv
  <2>1. \A a \in admins : a.from = 0
    BY DEF SettingsInit
  <2> QED
    BY <2>1 DEF SettingsInit, TickInv
<1>3. RowInv /\ OldValueReplaced
  BY Zenon DEF SettingsInit, RowInv, NoRow, OldValueReplaced
<1>4. SetupOnce
  <2>1. complete <=> admins # {}
    BY Zenon DEF SettingsInit
  <2>2. \A a, b \in admins : a = b
    BY Zenon DEF SettingsInit
  <2> QED
    BY <2>1, <2>2, Zenon DEF SetupOnce
<1>5. EmailInv /\ \A p \in Writers : WriterInv(p)
  BY Zenon DEF SettingsInit, EmailInv, WriterInv, PatchInv, SetupInv, Creating
<1> QED
  BY <1>1, <1>2, <1>3, <1>4, <1>5, Zenon DEF SettingsInv

\* Types, for the locals of a request that returns ...
LEMMA ClearType ==
  ASSUME SettingsTypeOK, NEW p \in Writers, Clear(p)
  PROVE  /\ pre' \in [Writers -> [ConfigKeys -> MaybeValue]]
         /\ pending' \in [Writers -> SUBSET ConfigKeys] /\ chg' \in [Writers -> SUBSET ConfigKeys]
         /\ email' \in [Writers -> Emails \cup {NoEmail}]
         /\ from' \in [Writers -> Nat] /\ at' \in [Writers -> Nat]
<1>1. NoRequest \in [ConfigKeys -> MaybeValue]
  BY Zenon DEF NoRequest, MaybeValue
<1> QED
  BY <1>1, Zenon DEF Clear, SettingsTypeOK

\* What Reply resets keeps its type.
LEMMA ReplyType ==
  ASSUME SettingsTypeOK, NEW p \in Writers, Reply(p)
  PROVE  /\ phase' \in [Writers -> Steps] /\ req' \in [Writers -> [ConfigKeys -> MaybeValue]]
         /\ held' \in [Writers -> SUBSET ConfigKeys] /\ blind' \in [Writers -> SUBSET ConfigKeys]
<1>1. NoRequest \in [ConfigKeys -> MaybeValue]
  BY Zenon DEF NoRequest, MaybeValue
<1> QED
  BY <1>1, Zenon DEF Reply, StepTo, SettingsTypeOK, Steps

\* Release leaves a row with its holder or with nobody.
LEMMA ReleaseType ==
  ASSUME SettingsTypeOK, NEW p, Release(p)
  PROVE  lock' \in [ConfigKeys \cup {SetupKey} -> Writers \cup {NoWriter}]
BY Zenon DEF Release, SettingsTypeOK

\* ... and what its step leaves to the others.
LEMMA ReplyOthers ==
  ASSUME SettingsTypeOK, NEW p \in Writers, Reply(p)
  PROVE  Others(p) /\ phase'[p] = "idle" /\ from'[p] = 0 /\ at'[p] = 0
BY Zenon DEF SettingsTypeOK, Reply, Clear, StepTo, Others, Stays

\* Types, across every step.
LEMMA SettingsType == ASSUME SettingsInv, [SettingsNext]_settingsVars PROVE SettingsTypeOK'
<1>a. SettingsTypeOK /\ \A p \in Writers : SetupInv(p) /\ PatchInv(p)
  BY Zenon DEF SettingsInv, WriterInv
<1> USE SettingsAssumption DEF store, locals, noted
<1>1. ASSUME NEW p \in Writers, NEW section \in SUBSET ConfigKeys, Patch(p, section)
      PROVE  SettingsTypeOK'
  <2>0. PICK S \in SUBSET section \ {{}} : \E new \in [S -> Values] :
          /\ ValidateSettings(S, new)
          /\ req' = [req EXCEPT ![p] = [k \in ConfigKeys |-> IF k \in S THEN new[k] ELSE NoValue]]
          /\ pending' = [pending EXCEPT ![p] = S]
          /\ held' = [held EXCEPT ![p] = {k \in S : value[k] = new[k]}]
    BY <1>1, Zenon DEF Patch
  <2>1. PICK new \in [S -> Values] :
          /\ req' = [req EXCEPT ![p] = [k \in ConfigKeys |-> IF k \in S THEN new[k] ELSE NoValue]]
          /\ pending' = [pending EXCEPT ![p] = S]
          /\ held' = [held EXCEPT ![p] = {k \in S : value[k] = new[k]}]
    BY <2>0, Zenon
  <2>2. [k \in ConfigKeys |-> IF k \in S THEN new[k] ELSE NoValue] \in [ConfigKeys -> MaybeValue]
    BY Zenon DEF MaybeValue
  <2>3. /\ req' \in [Writers -> [ConfigKeys -> MaybeValue]]
        /\ pending' \in [Writers -> SUBSET ConfigKeys] /\ held' \in [Writers -> SUBSET ConfigKeys]
    BY <1>a, <2>1, <2>2, Zenon DEF SettingsTypeOK
  <2>4. phase' \in [Writers -> Steps] /\ from' \in [Writers -> Nat]
    BY <1>1, <1>a, Zenon DEF Patch, StepTo, SettingsTypeOK, Steps
  <2> QED
    BY <1>1, <1>a, <2>3, <2>4, Zenon DEF Patch, SettingsTypeOK
<1>2. ASSUME NEW p \in Writers, ReadSetting(p) PROVE SettingsTypeOK'
  <2>1. PICK k \in pending[p] : /\ pre' = [pre EXCEPT ![p][k] = value[k]]
                               /\ pending' = [pending EXCEPT ![p] = @ \ {k}]
    BY <1>2, Zenon DEF ReadSetting, Foremost
  <2> QED
    BY <1>2, <1>a, <2>1, Zenon DEF ReadSetting, SettingsTypeOK, MaybeValue
<1>3. ASSUME NEW p \in Writers, ReadFails(p) PROVE SettingsTypeOK'
  <2>1. PICK k \in pending[p] : /\ pre' = [pre EXCEPT ![p][k] = Zero]
                               /\ pending' = [pending EXCEPT ![p] = @ \ {k}]
                               /\ blind' = [blind EXCEPT ![p] = @ \cup {k}]
    BY <1>3, Zenon DEF ReadFails, Foremost
  <2> QED
    <3>1. pre' \in [Writers -> [ConfigKeys -> MaybeValue]]
      BY <1>a, <2>1, Zenon DEF SettingsTypeOK, MaybeValue
    <3>2. pending' \in [Writers -> SUBSET ConfigKeys] /\ blind' \in [Writers -> SUBSET ConfigKeys]
      BY <1>a, <2>1 DEF SettingsTypeOK
    <3> QED
      BY <1>3, <1>a, <3>1, <3>2, Zenon DEF ReadFails, SettingsTypeOK
<1>4. ASSUME NEW p \in Writers, NoChange(p) PROVE SettingsTypeOK'
  <2>1. phase' \in [Writers -> Steps]
    BY <1>4, <1>a, Zenon DEF NoChange, StepTo, SettingsTypeOK, Steps
  <2> QED
    BY <1>4, <1>a, <2>1, ClearType, Zenon DEF NoChange, SettingsTypeOK
<1>5. ASSUME NEW p \in Writers, Begin(p) PROVE SettingsTypeOK'
  BY <1>5, <1>a DEF Begin, StepTo, SettingsTypeOK, Steps, Changes, Named
<1>6. ASSUME NEW p \in Writers, Set(p) PROVE SettingsTypeOK'
  BY <1>6, <1>a DEF Set, StepTo, SettingsTypeOK, Steps, Foremost
<1>7. ASSUME NEW p \in Writers, Answer(p) \/ EmailTaken(p) PROVE SettingsTypeOK'
  <2>1. Reply(p) /\ Clear(p) /\ UNCHANGED <<store, ticks, lock>>
    BY <1>7, Zenon DEF Answer, EmailTaken, Reply
  <2> QED
    BY <1>a, <2>1, ReplyType, ClearType, Zenon DEF SettingsTypeOK
<1>8. ASSUME NEW p \in Writers, Abort(p) PROVE SettingsTypeOK'
  <2>1. Reply(p) /\ Clear(p) /\ Release(p) /\ UNCHANGED <<store, ticks>>
    BY <1>8, Zenon DEF Abort, Reply
  <2> QED
    BY <1>a, <2>1, ReplyType, ClearType, ReleaseType, Zenon DEF SettingsTypeOK
<1>9. ASSUME NEW p \in Writers, PostSetup(p) PROVE SettingsTypeOK'
  <2>1. PICK e \in Emails, v \in Values :
          /\ email' = [email EXCEPT ![p] = e]
          /\ req' = [req EXCEPT ![p] = [NoRequest EXCEPT ![NameKey] = v]]
    BY <1>9, Zenon DEF PostSetup
  <2>2. [NoRequest EXCEPT ![NameKey] = v] \in [ConfigKeys -> MaybeValue]
    BY Zenon DEF NoRequest, MaybeValue
  <2>3. /\ req' \in [Writers -> [ConfigKeys -> MaybeValue]]
        /\ email' \in [Writers -> Emails \cup {NoEmail}]
    BY <1>a, <2>1, <2>2, Zenon DEF SettingsTypeOK
  <2>4. phase' \in [Writers -> Steps] /\ from' \in [Writers -> Nat]
    BY <1>9, <1>a, Zenon DEF PostSetup, StepTo, SettingsTypeOK, Steps
  <2> QED
    BY <1>9, <1>a, <2>3, <2>4, Zenon DEF PostSetup, SettingsTypeOK
<1>10. ASSUME NEW p \in Writers, BeginSetup(p) \/ CreateAdmin(p) PROVE SettingsTypeOK'
  <2>1. phase' \in [Writers -> Steps]
    <3>1. StepTo(p, "create") \/ StepTo(p, "complete")
      BY <1>10, Zenon DEF BeginSetup, CreateAdmin
    <3> QED
      BY <1>a, <3>1, Zenon DEF StepTo, SettingsTypeOK, Steps
  <2>2. CASE BeginSetup(p)
    <3>1. at' \in [Writers -> Nat] /\ ticks' \in Nat
      BY <1>a, <2>2 DEF BeginSetup, SettingsTypeOK
    <3> QED
      BY <1>a, <2>1, <2>2, <3>1, Zenon DEF BeginSetup, SettingsTypeOK
  <2>3. CASE CreateAdmin(p)
    BY <1>a, <2>1, <2>3, Zenon DEF CreateAdmin, SettingsTypeOK
  <2> QED
    BY <1>10, <2>2, <2>3, Zenon
<1>11. ASSUME NEW p \in Writers, SetSetupComplete(p) \/ SetInstanceName(p) PROVE SettingsTypeOK'
  <2>1. phase' \in [Writers -> Steps]
    <3>1. StepTo(p, "name") \/ StepTo(p, "commitSetup")
      BY <1>11, Zenon DEF SetSetupComplete, SetInstanceName
    <3> QED
      BY <1>a, <3>1, Zenon DEF StepTo, SettingsTypeOK, Steps
  <2>2. lock' \in [ConfigKeys \cup {SetupKey} -> Writers \cup {NoWriter}]
    BY <1>11, <1>a, Zenon DEF SetSetupComplete, SetInstanceName, SettingsTypeOK
  <2> QED
    BY <1>11, <1>a, <2>1, <2>2, Zenon DEF SetSetupComplete, SetInstanceName, SettingsTypeOK
<1>12. ASSUME NEW p \in Writers, Notice, value' \in [ConfigKeys -> Values]
       PROVE  held' \in [Writers -> SUBSET ConfigKeys]
  BY <1>12, <1>a, Zenon DEF Notice, SettingsTypeOK
<1>13. ASSUME NEW p \in Writers, CommitPatch(p) PROVE SettingsTypeOK'
  <2>1. chg[p] = Changes(p)
    BY <1>13, <1>a, Zenon DEF CommitPatch, PatchInv
  <2>2. \A k \in chg[p] : k \in ConfigKeys /\ req[p][k] \in Values /\ pre[p][k] \in MaybeValue
    BY <1>a, <2>1 DEF Changes, Named, SettingsTypeOK, MaybeValue
  <2>3. value' \in [ConfigKeys -> Values]
    BY <1>13, <1>a, <2>2, Zenon DEF CommitPatch, SettingsTypeOK
  <2>4. log' \subseteq AuditRows
    <3>1. ChangeRows(p) \subseteq AuditRows
      BY <1>a, <2>2 DEF ChangeRows, AuditRows, SettingsTypeOK
    <3> QED
      BY <1>13, <1>a, <3>1, Zenon DEF CommitPatch, SettingsTypeOK
  <2>5. phase' \in [Writers -> Steps] /\ ticks' \in Nat
    BY <1>13, <1>a DEF CommitPatch, StepTo, SettingsTypeOK, Steps
  <2> QED
    BY <1>13, <1>a, <1>12, <2>3, <2>4, <2>5, ClearType, ReleaseType, Zenon
       DEF CommitPatch, SettingsTypeOK
<1>14. ASSUME NEW p \in Writers, CommitSetup(p) PROVE SettingsTypeOK'
  <2>1. NameKey \in ConfigKeys /\ req[p][NameKey] \in Values /\ email[p] \in Emails
    BY <1>14, <1>a DEF CommitSetup, SetupInv, Named, ConfigKeys, SettingsTypeOK, MaybeValue
  <2>2. value' \in [ConfigKeys -> Values]
    BY <1>14, <1>a, <2>1, Zenon DEF CommitSetup, SettingsTypeOK
  <2>3. phase' \in [Writers -> Steps] /\ ticks' \in Nat
    BY <1>14, <1>a DEF CommitSetup, StepTo, SettingsTypeOK, Steps
  <2>4. NameKey # PasswordKey
    BY Zenon DEF NameKey, PasswordKey
  <2>5. log' \subseteq AuditRows
    BY <1>14, <1>a, <2>1, <2>4 DEF CommitSetup, AuditRows, SettingsTypeOK, MaybeValue
  <2>6. admins' \subseteq [email : Emails, from : Nat, till : Nat]
    BY <1>14, <1>a, <2>1 DEF CommitSetup, SettingsTypeOK
  <2>7. complete' \in BOOLEAN
    BY <1>14, Zenon DEF CommitSetup
  <2> QED
    BY <1>14, <1>a, <1>12, <2>2, <2>3, <2>5, <2>6, <2>7, ClearType, ReleaseType, Zenon
       DEF CommitSetup, SettingsTypeOK
<1>15. CASE UNCHANGED settingsVars
  BY <1>15, <1>a, Zenon DEF settingsVars, SettingsTypeOK
<1>16. ASSUME NEW p \in Writers, Start(p) PROVE SettingsTypeOK'
  BY <1>1, <1>9, <1>16, Zenon DEF Start, PatchGeneral, PatchSecurity, PatchTokens, PatchEmail,
     ConfigKeys
<1> QED
  BY <1>2, <1>3, <1>4, <1>5, <1>6, <1>7, <1>8, <1>10, <1>11, <1>13, <1>14, <1>15, <1>16, Zenon
     DEF SettingsNext, Progress, Reject

\* The same, for a request that commits.
LEMMA CommitFrame ==
  ASSUME SettingsTypeOK, NEW p \in Writers, StepTo(p, "answer"), Clear(p), Notice,
         req' = req, blind' = blind
  PROVE  Others(p) /\ phase'[p] = "answer" /\ from'[p] = 0 /\ at'[p] = 0
BY DEF SettingsTypeOK, Clear, StepTo, Notice, Others, Stays

\* The log, across a step that writes nothing.
LEMMA StoreKept ==
  ASSUME SettingsInv, UNCHANGED <<value, complete, admins, log>>, ticks <= ticks', ticks' \in Nat,
         \A p \in Writers : from'[p] <= ticks' /\ at'[p] <= ticks'
  PROVE  TickInv' /\ RowInv' /\ OldValueReplaced' /\ SetupOnce'
<1>1. SettingsTypeOK /\ TickInv /\ RowInv /\ OldValueReplaced /\ SetupOnce
  BY Zenon DEF SettingsInv
<1>2. \A r \in log : r.till <= ticks'
  <2>1. \A r \in log : r.till \in Nat
    BY <1>1, Zenon DEF SettingsTypeOK, AuditRows
  <2> QED
    BY <1>1, <2>1 DEF TickInv, SettingsTypeOK
<1>3. \A a \in admins : a.from <= ticks'
  <2>1. \A a \in admins : a.from \in Nat
    BY <1>1, Zenon DEF SettingsTypeOK
  <2> QED
    BY <1>1, <2>1 DEF TickInv, SettingsTypeOK
<1>4. TickInv'
  BY <1>1, <1>2, <1>3, Zenon DEF TickInv
<1> QED
  BY <1>1, <1>4, Zenon DEF RowInv, NoRow, LastRow, OldValueReplaced, SetupOnce

\* Rows that a commit adds: at most one for each key, each with the value that
\* the setting gets.
LOCAL Added(N) ==
    /\ N \subseteq AuditRows /\ log' = log \cup N
    /\ \A r \in N : r.till = ticks + 1 /\ r.at <= ticks /\ value'[r.key] = r.new
    /\ \A r, s \in N : r.key = s.key => r = s
    /\ \A k \in ConfigKeys \ {PasswordKey} : (\A r \in N : r.key # k) => value'[k] = value[k]

\* The last row of a key, before and after the commit.
LEMMA LastRows ==
  ASSUME SettingsInv, NEW N, Added(N), NEW k
  PROVE  /\ \A r \in N : r.key = k => LastRow(k, r)'
         /\ (\A r \in N : r.key # k) => /\ NoRow(k) => NoRow(k)'
                                        /\ \A r \in log : LastRow(k, r) => LastRow(k, r)'
         /\ \A r \in log, s \in N : r.till < s.till
<1>1. \A r \in log, s \in N : r.till < s.till
  BY DEF SettingsInv, SettingsTypeOK, TickInv, Added, AuditRows
<1>2. ASSUME NEW r \in N, r.key = k PROVE LastRow(k, r)'
  BY <1>1, <1>2, Zenon DEF Added, LastRow
<1>3. ASSUME \A r \in N : r.key # k
      PROVE  (NoRow(k) => NoRow(k)') /\ \A r \in log : LastRow(k, r) => LastRow(k, r)'
  BY <1>3, Zenon DEF Added, LastRow, NoRow
<1> QED
  BY <1>1, <1>2, <1>3, Zenon

\* Where a row's old value comes from.
LOCAL Replaces(r) ==
    \/ r.old = NoValue \/ r.key \in r.blind
    \/ NoRow(r.key) /\ r.old = Default
    \/ \E s \in log : LastRow(r.key, s) /\ (r.old = s.new \/ s.till > r.from)

\* The log, across a commit.
LEMMA RowsAdded ==
  ASSUME SettingsInv, NEW N, Added(N), \A r \in N : Replaces(r)
  PROVE  RowInv' /\ OldValueReplaced'
<1>1. SettingsTypeOK /\ RowInv /\ OldValueReplaced
  BY Zenon DEF SettingsInv
<1>2. RowInv'
  <2> SUFFICES ASSUME NEW k \in ConfigKeys \ {PasswordKey}
               PROVE  \/ NoRow(k)' /\ value'[k] = Default
                      \/ \E r \in log' : LastRow(k, r)' /\ value'[k] = r.new
    BY Zenon DEF RowInv
  <2>1. CASE \E r \in N : r.key = k
    <3>1. PICK r \in N : r.key = k
      BY <2>1, Zenon
    <3>2. LastRow(k, r)'
      BY <3>1, LastRows, Zenon
    <3>3. r \in log' /\ value'[k] = r.new
      BY <3>1, Zenon DEF Added
    <3> QED
      BY <3>2, <3>3, Zenon
  <2>2. CASE \A r \in N : r.key # k
    <3>1. value'[k] = value[k] /\ log \subseteq log'
      BY <2>2, Zenon DEF Added
    <3> QED
      BY <1>1, <2>2, <3>1, LastRows, Zenon DEF RowInv
  <2> QED
    BY <2>1, <2>2, Zenon
<1>3. ASSUME NEW r \in log
      PROVE  {s \in log' : s.key = r.key /\ s.till < r.till} = {s \in log : s.key = r.key /\ s.till < r.till}
  <2>1. \A s \in N : ~(s.till < r.till)
    BY <1>1 DEF SettingsInv, SettingsTypeOK, TickInv, Added, AuditRows
  <2> QED
    BY <2>1, Zenon DEF Added
<1>4. ASSUME NEW r \in N
      PROVE  {s \in log' : s.key = r.key /\ s.till < r.till} = {s \in log : s.key = r.key}
  <2>1. ~(r.till < r.till)
    BY <1>1 DEF SettingsTypeOK, Added, AuditRows
  <2> QED
    BY <2>1, LastRows, Zenon DEF Added
<1>5. ASSUME NEW r \in N, NEW s \in log, LastRow(r.key, s), NEW u \in log, u.key = r.key
      PROVE  u.till <= s.till
  <2>1. u.till \in Nat /\ s.till \in Nat
    BY <1>1, Zenon DEF SettingsTypeOK, AuditRows
  <2>2. u = s \/ u.till < s.till
    BY <1>5, Zenon DEF LastRow
  <2> QED
    BY <2>1, <2>2
<1>6. OldValueReplaced'
  <2> SUFFICES ASSUME NEW r \in log', r.old # NoValue, r.key \notin r.blind
               PROVE  LET before == {s \in log' : s.key = r.key /\ s.till < r.till} IN
                        IF before = {} THEN r.old = Default
                        ELSE \E s \in before : /\ \A u \in before : u.till <= s.till
                                               /\ r.old = s.new \/ s.till > r.from
    BY Zenon DEF OldValueReplaced
  <2>1. CASE r \in log
    BY <1>1, <1>3, <2>1, Zenon DEF OldValueReplaced
  <2>2. CASE r \in N
    <3> DEFINE before == {s \in log : s.key = r.key}
    <3>1. CASE NoRow(r.key) /\ r.old = Default
      <4>1. before = {}
        BY <3>1, Zenon DEF NoRow
      <4> QED
        BY <1>4, <2>2, <3>1, <4>1, Zenon
    <3>2. ASSUME NEW s \in log, LastRow(r.key, s), r.old = s.new \/ s.till > r.from
          PROVE  s \in before /\ (\A u \in before : u.till <= s.till) /\ (r.old = s.new \/ s.till > r.from)
      BY <1>5, <2>2, <3>2, Zenon DEF LastRow
    <3>3. \/ NoRow(r.key) /\ r.old = Default
          \/ \E s \in log : LastRow(r.key, s) /\ (r.old = s.new \/ s.till > r.from)
      BY <2>2, Zenon DEF Replaces
    <3> QED
      BY <1>4, <2>2, <3>1, <3>2, <3>3, Zenon
  <2> QED
    BY <2>1, <2>2, Zenon DEF Added
<1> QED
  BY <1>2, <1>6, Zenon

\* A request, across a step of another one that writes nothing.
LEMMA OtherStays ==
  ASSUME SettingsInv, NEW q \in Writers, Stays(q), UNCHANGED <<value, log, admins>>
  PROVE  WriterInv(q)'
<1>1. WriterInv(q)
  BY Zenon DEF SettingsInv
<1>2. Named(q)' = Named(q) /\ Changes(q)' = Changes(q)
  BY Zenon DEF Stays, Named, Changes, Changed
<1>3. Seen(q)' = Seen(q)
  BY <1>2, Zenon DEF Stays, Seen
<1>4. \A k : Fresh(q, k) => Fresh(q, k)'
  BY Zenon DEF Fresh, Stays, NoRow, LastRow
<1>5. PatchInv(q)'
  <2> SUFFICES ASSUME phase[q] \in {"read", "write", "commit"}
               PROVE  /\ \A k \in Named(q) : value[k] = req[q][k] => k \in held'[q]
                      /\ phase[q] = "read" => pending[q] \cap blind[q] = {}
                      /\ phase[q] # "read" => chg[q] = Changes(q)
                      /\ \A k \in Seen(q) :
                           /\ k \in blind[q] => pre[q][k] = Zero
                           /\ k \notin blind[q] /\ pre[q][k] = req[q][k] => k \in held'[q]
                           /\ k \notin blind[q] \cup {PasswordKey} => Fresh(q, k)'
    BY <1>2, <1>3, Zenon DEF PatchInv, Stays
  <2> QED
    BY <1>1, <1>4, Zenon DEF WriterInv, PatchInv, Stays
<1>6. SetupInv(q)'
  BY <1>1, <1>2, Zenon DEF WriterInv, SetupInv, Stays, Creating
<1>7. phase'[q] = "answer" => \A k \in Named(q) : k \in held'[q] \/ (k \in blind'[q] /\ req'[q][k] = Zero)
  BY <1>1, <1>2, Zenon DEF WriterInv, Stays
<1>8. phase'[q] = "idle" => blind'[q] = {}
  BY <1>1, Zenon DEF WriterInv, Stays
<1> QED
  BY <1>2, <1>5, <1>6, <1>7, <1>8, Zenon DEF WriterInv

\* A request that has returned.
LEMMA Idle ==
  ASSUME NEW p, phase'[p] = "idle", blind'[p] = {}
  PROVE  WriterInv(p)'
BY Zenon DEF WriterInv, PatchInv, SetupInv, Creating

\* Emails, across a step that inserts none.
LEMMA EmailsKept ==
  ASSUME SettingsInv, \A q \in Writers : Creating(q)' => Creating(q) /\ email'[q] = email[q]
  PROVE  EmailInv'
<1>1. EmailInv
  BY Zenon DEF SettingsInv
<1> QED
  BY <1>1, Zenon DEF EmailInv

\* A step of one request that writes nothing.
LEMMA LocalStep ==
  ASSUME SettingsInv, UNCHANGED <<value, complete, admins, log>>, ticks <= ticks', SettingsTypeOK',
         NEW p \in Writers, Others(p), from'[p] <= ticks', at'[p] <= ticks', WriterInv(p)', EmailInv'
  PROVE  SettingsInv'
<1>1. \A q \in Writers : WriterInv(q)'
  BY OtherStays, Zenon DEF Others
<1>2. \A q \in Writers : from'[q] <= ticks' /\ at'[q] <= ticks'
  <2>1. ASSUME NEW q \in Writers, q # p PROVE from'[q] <= ticks' /\ at'[q] <= ticks'
    <3>1. from'[q] = from[q] /\ at'[q] = at[q]
      BY <2>1, Zenon DEF Others, Stays
    <3>2. /\ from[q] <= ticks /\ at[q] <= ticks
          /\ from[q] \in Nat /\ at[q] \in Nat /\ ticks \in Nat /\ ticks' \in Nat
      BY Zenon DEF SettingsInv, SettingsTypeOK, TickInv
    <3> QED
      BY <3>1, <3>2
  <2> QED
    BY <2>1, Zenon
<1>3. TickInv' /\ RowInv' /\ OldValueReplaced' /\ SetupOnce'
  <2>1. ticks' \in Nat
    BY Zenon DEF SettingsTypeOK
  <2> QED
    BY <1>2, <2>1, StoreKept, Zenon
<1> QED
  BY <1>1, <1>3, Zenon DEF SettingsInv

\* The steps of a PATCH.
LEMMA PatchStep ==
  ASSUME SettingsInv, SettingsTypeOK', NEW p \in Writers, NEW section \in SUBSET ConfigKeys, Patch(p, section)
  PROVE  SettingsInv'
<1>a. SettingsTypeOK /\ WriterInv(p) /\ TickInv
  BY Zenon DEF SettingsInv
<1> USE DEF store
<1>1. PICK S \in SUBSET section \ {{}} : \E new \in [S -> Values] :
        /\ ValidateSettings(S, new)
        /\ req' = [req EXCEPT ![p] = [k \in ConfigKeys |-> IF k \in S THEN new[k] ELSE NoValue]]
        /\ pending' = [pending EXCEPT ![p] = S]
        /\ held' = [held EXCEPT ![p] = {k \in S : value[k] = new[k]}]
  BY Zenon DEF Patch
<1>2. PICK new \in [S -> Values] :
        /\ req' = [req EXCEPT ![p] = [k \in ConfigKeys |-> IF k \in S THEN new[k] ELSE NoValue]]
        /\ pending' = [pending EXCEPT ![p] = S]
        /\ held' = [held EXCEPT ![p] = {k \in S : value[k] = new[k]}]
  BY <1>1, Zenon
<1>3. /\ \A k \in ConfigKeys : req'[p][k] = IF k \in S THEN new[k] ELSE NoValue
      /\ pending'[p] = S /\ held'[p] = {k \in S : value[k] = new[k]}
  BY <1>2, <1>a DEF SettingsTypeOK
<1>4. phase'[p] = "read" /\ blind'[p] = {} /\ from'[p] = ticks /\ at' = at
  BY <1>a, Zenon DEF Patch, StepTo, SettingsTypeOK, WriterInv
<1>5. Others(p)
  BY <1>2, <1>a DEF Patch, StepTo, SettingsTypeOK, Others, Stays
<1>6. Named(p)' = S
  <2>1. \A k \in S : k \in ConfigKeys /\ new[k] # NoValue
    BY SettingsAssumption
  <2> QED
    BY <1>3, <2>1, Zenon DEF Named
<1>7. WriterInv(p)'
  <2>1. Seen(p)' = {}
    BY <1>3, <1>4, <1>6, Zenon DEF Seen
  <2>2. \A k \in Named(p)' : value'[k] = req'[p][k] => k \in held'[p]
    BY <1>3, <1>6, Zenon DEF Patch
  <2> QED
    BY <1>4, <2>1, <2>2, Zenon DEF WriterInv, PatchInv, SetupInv, Creating
<1>8. EmailInv'
  BY <1>5, <1>4, EmailsKept, Zenon DEF Creating, Others, Stays
<1>9. ticks' = ticks /\ ticks \in Nat /\ from'[p] <= ticks' /\ at'[p] <= ticks'
  BY <1>4, <1>a DEF Patch, SettingsTypeOK, TickInv
<1>10. UNCHANGED <<value, complete, admins, log>> /\ ticks <= ticks'
  BY <1>9 DEF Patch
<1> QED
  BY <1>5, <1>7, <1>8, <1>9, <1>10, LocalStep, Zenon

\* A SELECT reads the value of the last audit row, or is younger than it
\* (ReadSetting).
LEMMA ReadStep ==
  ASSUME SettingsInv, SettingsTypeOK', NEW p \in Writers, ReadSetting(p)
  PROVE  SettingsInv'
<1>a. SettingsTypeOK /\ WriterInv(p) /\ TickInv /\ RowInv
  BY Zenon DEF SettingsInv
<1> USE DEF store, noted
<1>1. PICK k \in pending[p] : /\ pre' = [pre EXCEPT ![p][k] = value[k]]
                             /\ pending' = [pending EXCEPT ![p] = @ \ {k}]
  BY Zenon DEF ReadSetting, Foremost
<1>2. /\ k \in ConfigKeys /\ pre'[p][k] = value[k] /\ pending'[p] = pending[p] \ {k}
      /\ \A j \in ConfigKeys \ {k} : pre'[p][j] = pre[p][j]
  BY <1>1, <1>a DEF SettingsTypeOK
<1>3. /\ phase[p] = "read" /\ phase' = phase /\ blind' = blind /\ held' = held /\ req' = req
      /\ from' = from /\ at' = at /\ log' = log /\ value' = value
  BY Zenon DEF ReadSetting
<1>4. Others(p)
  BY <1>1, <1>a DEF ReadSetting, SettingsTypeOK, Others, Stays
<1>5. Named(p)' = Named(p) /\ Named(p) \subseteq ConfigKeys
  BY <1>3, Zenon DEF Named
<1>6. PatchInv(p)
  BY <1>a, Zenon DEF WriterInv
<1>7. ASSUME NEW j \in Seen(p)'
      PROVE  /\ j \in blind'[p] => pre'[p][j] = Zero
             /\ j \notin blind'[p] /\ pre'[p][j] = req'[p][j] => j \in held'[p]
             /\ j \notin blind'[p] \cup {PasswordKey} => Fresh(p, j)'
  <2>1. CASE j = k
    <3>1. j \notin blind[p] /\ j \in Named(p)
      BY <1>3, <1>5, <1>6, <2>1, Zenon DEF PatchInv, Seen
    <3>2. pre'[p][j] = req'[p][j] => j \in held'[p]
      BY <1>2, <1>3, <1>6, <2>1, <3>1, Zenon DEF PatchInv
    <3>3. j # PasswordKey => Fresh(p, j)'
      <4>1. NoRow(j)' <=> NoRow(j)
        BY <1>3, Zenon DEF NoRow
      <4>2. \A r : LastRow(j, r)' <=> LastRow(j, r)
        BY <1>3, Zenon DEF LastRow
      <4>3. j # PasswordKey => \/ NoRow(j) /\ value[j] = Default
                               \/ \E r \in log : LastRow(j, r) /\ value[j] = r.new
        BY <1>2, <1>a, <2>1, Zenon DEF RowInv
      <4>4. pre'[p][j] = value[j] /\ log' = log
        BY <1>2, <1>3, <2>1, Zenon
      <4> QED
        BY <4>1, <4>2, <4>3, <4>4, Zenon DEF Fresh
    <3> QED
      BY <1>3, <3>1, <3>2, <3>3, Zenon
  <2>2. CASE j # k
    <3>1. j \in Seen(p) /\ pre'[p][j] = pre[p][j]
      BY <1>2, <1>3, <1>5, <2>2, Zenon DEF Seen
    <3>2. Fresh(p, j) => Fresh(p, j)'
      BY <1>3, <3>1, Zenon DEF Fresh, NoRow, LastRow
    <3> QED
      BY <1>3, <1>6, <3>1, <3>2, Zenon DEF PatchInv
  <2> QED
    BY <2>1, <2>2, Zenon
<1>8. WriterInv(p)'
  <2>1. PatchInv(p)'
    <3>1. pending'[p] \cap blind'[p] = {}
      BY <1>2, <1>3, <1>6, Zenon DEF PatchInv
    <3>2. \A j \in Named(p)' : value'[j] = req'[p][j] => j \in held'[p]
      BY <1>3, <1>5, <1>6, Zenon DEF PatchInv
    <3> QED
      BY <1>3, <1>7, <3>1, <3>2, Zenon DEF PatchInv
  <2> QED
    BY <1>3, <2>1, Zenon DEF WriterInv, SetupInv, Creating
<1>9. EmailInv'
  BY <1>4, <1>3, EmailsKept, Zenon DEF Creating, Others, Stays
<1>10. ticks' = ticks /\ ticks \in Nat /\ from'[p] <= ticks' /\ at'[p] <= ticks'
  BY <1>3, <1>a, Zenon DEF ReadSetting, SettingsTypeOK, TickInv
<1>11. UNCHANGED <<value, complete, admins, log>> /\ ticks <= ticks'
  BY <1>10 DEF ReadSetting
<1> QED
  BY <1>4, <1>8, <1>9, <1>10, <1>11, LocalStep, Zenon

\* A SELECT that fails leaves the zero value and is recorded as blind
\* (ReadFails).
LEMMA ReadFailsStep ==
  ASSUME SettingsInv, SettingsTypeOK', NEW p \in Writers, ReadFails(p)
  PROVE  SettingsInv'
<1>a. SettingsTypeOK /\ WriterInv(p) /\ TickInv /\ RowInv
  BY Zenon DEF SettingsInv
<1> USE DEF store, noted
<1>1. PICK k \in pending[p] : /\ pre' = [pre EXCEPT ![p][k] = Zero]
                             /\ pending' = [pending EXCEPT ![p] = @ \ {k}]
                             /\ blind' = [blind EXCEPT ![p] = @ \cup {k}]
  BY Zenon DEF ReadFails, Foremost
<1>2. /\ k \in ConfigKeys /\ pre'[p][k] = Zero /\ pending'[p] = pending[p] \ {k}
      /\ blind'[p] = blind[p] \cup {k}
      /\ \A j \in ConfigKeys \ {k} : pre'[p][j] = pre[p][j]
  BY <1>1, <1>a DEF SettingsTypeOK
<1>3. /\ phase[p] = "read" /\ phase' = phase /\ held' = held /\ req' = req
      /\ from' = from /\ at' = at /\ log' = log /\ value' = value
  BY Zenon DEF ReadFails
<1>4. Others(p)
  BY <1>1, <1>a DEF ReadFails, SettingsTypeOK, Others, Stays
<1>5. Named(p)' = Named(p) /\ Named(p) \subseteq ConfigKeys
  BY <1>3, Zenon DEF Named
<1>6. PatchInv(p)
  BY <1>a, Zenon DEF WriterInv
<1>7. ASSUME NEW j \in Seen(p)'
      PROVE  /\ j \in blind'[p] => pre'[p][j] = Zero
             /\ j \notin blind'[p] /\ pre'[p][j] = req'[p][j] => j \in held'[p]
             /\ j \notin blind'[p] \cup {PasswordKey} => Fresh(p, j)'
  <2>1. CASE j = k
    BY <1>2, <2>1, Zenon
  <2>2. CASE j # k
    <3>1. j \in Seen(p) /\ pre'[p][j] = pre[p][j]
      BY <1>2, <1>3, <1>5, <2>2, Zenon DEF Seen
    <3>2. Fresh(p, j) => Fresh(p, j)'
      BY <1>3, <3>1, Zenon DEF Fresh, NoRow, LastRow
    <3>3. j \in blind'[p] <=> j \in blind[p]
      BY <1>2, <2>2, Zenon
    <3> QED
      BY <1>3, <1>6, <3>1, <3>2, <3>3, Zenon DEF PatchInv
  <2> QED
    BY <2>1, <2>2, Zenon
<1>8. WriterInv(p)'
  <2>1. PatchInv(p)'
    <3>1. pending'[p] \cap blind'[p] = {}
      BY <1>2, <1>3, <1>6, Zenon DEF PatchInv
    <3>2. \A j \in Named(p)' : value'[j] = req'[p][j] => j \in held'[p]
      BY <1>3, <1>5, <1>6, Zenon DEF PatchInv
    <3> QED
      BY <1>3, <1>7, <3>1, <3>2, Zenon DEF PatchInv
  <2> QED
    BY <1>3, <2>1, Zenon DEF WriterInv, SetupInv, Creating
<1>9. EmailInv'
  BY <1>4, <1>3, EmailsKept, Zenon DEF Creating, Others, Stays
<1>10. ticks' = ticks /\ ticks \in Nat /\ from'[p] <= ticks' /\ at'[p] <= ticks'
  BY <1>3, <1>a, Zenon DEF ReadFails, SettingsTypeOK, TickInv
<1>11. UNCHANGED <<value, complete, admins, log>> /\ ticks <= ticks'
  BY <1>10 DEF ReadFails
<1> QED
  BY <1>4, <1>8, <1>9, <1>10, <1>11, LocalStep, Zenon

\* If nothing differs, every named setting has had its value or was read
\* blind (NoChange).
LEMMA NoChangeStep ==
  ASSUME SettingsInv, SettingsTypeOK', NEW p \in Writers, NoChange(p)
  PROVE  SettingsInv'
<1>a. SettingsTypeOK /\ PatchInv(p)
  BY Zenon DEF SettingsInv, WriterInv
<1> USE DEF store, noted
<1>1. /\ phase[p] = "read" /\ pending[p] = {} /\ Changes(p) = {}
      /\ UNCHANGED <<value, complete, admins, log, ticks, req, held, blind>>
  BY Zenon DEF NoChange
<1>2. phase'[p] = "answer" /\ from'[p] = 0 /\ at'[p] = 0 /\ Others(p)
  BY <1>a DEF NoChange, StepTo, Clear, SettingsTypeOK, Others, Stays
<1>3. ASSUME NEW k \in Named(p)' PROVE k \in held'[p] \/ (k \in blind'[p] /\ req'[p][k] = Zero)
  <2>1. k \in Named(p) /\ k \in Seen(p)
    BY <1>1, Zenon DEF Named, Seen
  <2>2. req[p][k] = pre[p][k]
    BY <1>1, <2>1, Zenon DEF Changes, Changed
  <2> QED
    BY <1>1, <1>a, <2>1, <2>2, Zenon DEF PatchInv
<1>4. WriterInv(p)'
  BY <1>2, <1>3, Zenon DEF WriterInv, PatchInv, SetupInv, Creating
<1>5. EmailInv'
  BY <1>2, EmailsKept, Zenon DEF Creating, Others, Stays
<1>6. ticks \in Nat /\ ticks' = ticks
  BY <1>1, <1>a, Zenon DEF SettingsTypeOK
<1>7. ticks <= ticks' /\ from'[p] <= ticks' /\ at'[p] <= ticks'
  BY <1>2, <1>6
<1> QED
  BY <1>1, <1>2, <1>4, <1>5, <1>7, LocalStep, Zenon

\* Begin and Set keep what the request has read.
LEMMA SeenKept ==
  ASSUME NEW p \in Writers, WriterInv(p), UNCHANGED <<value, log>>,
         phase[p] \in {"read", "write"}, phase'[p] \in {"write", "commit"},
         phase[p] = "read" => pending[p] = {}, chg'[p] = Changes(p),
         UNCHANGED <<req, pre, from, held, blind>>
  PROVE  WriterInv(p)'
<1>1. PatchInv(p)
  BY Zenon DEF WriterInv
<1>2. Named(p)' = Named(p) /\ Changes(p)' = Changes(p)
  BY Zenon DEF Named, Changes, Changed
<1>3. Seen(p)' = Named(p) /\ Seen(p) = Named(p)
  BY <1>2, Zenon DEF Seen, Named
<1>4. \A k : Fresh(p, k) => Fresh(p, k)'
  BY Zenon DEF Fresh, NoRow, LastRow
<1>5. \A k \in Seen(p)' :
        /\ k \in blind'[p] => pre'[p][k] = Zero
        /\ k \notin blind'[p] /\ pre'[p][k] = req'[p][k] => k \in held'[p]
        /\ k \notin blind'[p] \cup {PasswordKey} => Fresh(p, k)'
  BY <1>1, <1>3, <1>4, Zenon DEF PatchInv
<1>6. \A k \in Named(p)' : value'[k] = req'[p][k] => k \in held'[p]
  BY <1>1, <1>2, Zenon DEF PatchInv
<1>7. PatchInv(p)'
  BY <1>2, <1>5, <1>6, Zenon DEF PatchInv
<1> QED
  BY <1>7, Zenon DEF WriterInv, SetupInv, Creating

\* The transaction begins with the changes found by the snapshot (Begin).
LEMMA BeginStep ==
  ASSUME SettingsInv, SettingsTypeOK', NEW p \in Writers, Begin(p)
  PROVE  SettingsInv'
<1>a. SettingsTypeOK /\ WriterInv(p) /\ TickInv
  BY Zenon DEF SettingsInv
<1> USE DEF store, noted
<1>1. phase'[p] = "write" /\ chg'[p] = Changes(p) /\ at'[p] = ticks + 1 /\ Others(p)
  BY <1>a DEF Begin, StepTo, SettingsTypeOK, Others, Stays
<1>2. WriterInv(p)'
  BY <1>1, <1>a, SeenKept, Zenon DEF Begin
<1>3. EmailInv'
  BY <1>1, EmailsKept, Zenon DEF Creating, Others, Stays
<1>4. ticks <= ticks' /\ from'[p] <= ticks' /\ at'[p] <= ticks'
  BY <1>1, <1>a DEF Begin, SettingsTypeOK, TickInv
<1>5. UNCHANGED <<value, complete, admins, log>>
  BY Zenon DEF Begin
<1> QED
  BY <1>1, <1>2, <1>3, <1>4, <1>5, LocalStep, Zenon

\* An UPDATE takes a row and shows nobody its value (Set).
LEMMA SetStep ==
  ASSUME SettingsInv, SettingsTypeOK', NEW p \in Writers, Set(p)
  PROVE  SettingsInv'
<1>a. SettingsTypeOK /\ WriterInv(p) /\ TickInv
  BY Zenon DEF SettingsInv
<1> USE DEF store, noted
<1>1. phase'[p] \in {"write", "commit"} /\ Others(p)
  BY <1>a DEF Set, StepTo, SettingsTypeOK, Others, Stays
<1>2. /\ phase[p] = "write"
      /\ UNCHANGED <<value, complete, admins, log, ticks, req, pre, chg, from, at, held, blind>>
  BY Zenon DEF Set
<1>3. WriterInv(p)'
  <2>1. chg'[p] = Changes(p)
    BY <1>2, <1>a, Zenon DEF WriterInv, PatchInv
  <2> QED
    BY <1>1, <1>2, <1>a, <2>1, SeenKept, Zenon
<1>4. EmailInv'
  BY <1>1, EmailsKept, Zenon DEF Creating, Others, Stays
<1>5. ticks <= ticks' /\ from'[p] <= ticks' /\ at'[p] <= ticks'
  BY <1>2, <1>a DEF SettingsTypeOK, TickInv
<1> QED
  BY <1>1, <1>2, <1>3, <1>4, <1>5, LocalStep, Zenon

\* Answer, EmailTaken and Abort.
LEMMA ReplyStep ==
  ASSUME SettingsInv, SettingsTypeOK', NEW p \in Writers, Reply(p),
         UNCHANGED <<value, complete, admins, log, ticks>>
  PROVE  SettingsInv'
<1>a. SettingsTypeOK
  BY Zenon DEF SettingsInv
<1>1. Others(p) /\ phase'[p] = "idle" /\ from'[p] = 0 /\ at'[p] = 0
  BY <1>a, ReplyOthers, Zenon
<1>2. blind'[p] = {}
  BY <1>a DEF Reply, SettingsTypeOK
<1>3. WriterInv(p)'
  BY <1>1, <1>2, Idle, Zenon
<1>4. EmailInv'
  BY <1>1, EmailsKept, Zenon DEF Creating, Others, Stays
<1>5. ticks <= ticks' /\ from'[p] <= ticks' /\ at'[p] <= ticks'
  BY <1>1, <1>a DEF SettingsTypeOK
<1> QED
  BY <1>1, <1>3, <1>4, <1>5, LocalStep, Zenon

\* The steps of the setup.
LEMMA PostSetupStep ==
  ASSUME SettingsInv, SettingsTypeOK', NEW p \in Writers, PostSetup(p)
  PROVE  SettingsInv'
<1>a. SettingsTypeOK /\ WriterInv(p) /\ TickInv
  BY Zenon DEF SettingsInv
<1> USE DEF store, noted
<1>1. PICK e \in Emails, v \in Values :
        /\ email' = [email EXCEPT ![p] = e]
        /\ req' = [req EXCEPT ![p] = [NoRequest EXCEPT ![NameKey] = v]]
  BY Zenon DEF PostSetup
<1>2. /\ phase'[p] = "setup" /\ email'[p] = e /\ from'[p] = ticks
      /\ req'[p] = [NoRequest EXCEPT ![NameKey] = v] /\ Others(p)
  BY <1>1, <1>a DEF PostSetup, StepTo, SettingsTypeOK, Others, Stays
<1>3. Named(p)' = {NameKey}
  <2>1. NameKey \in ConfigKeys /\ v # NoValue
    BY SettingsAssumption, Zenon DEF ConfigKeys
  <2> QED
    BY <1>2, <2>1, Zenon DEF Named, NoRequest
<1>4. admins' = {}
  <2>1. ~complete
    BY Zenon DEF PostSetup
  <2> QED
    BY <2>1, Zenon DEF PostSetup, SettingsInv, SetupOnce
<1>5. WriterInv(p)'
  BY <1>1, <1>2, <1>3, <1>4, Zenon DEF WriterInv, PatchInv, SetupInv, Creating
<1>6. EmailInv'
  BY <1>2, EmailsKept, Zenon DEF Creating, Others, Stays
<1>7. ticks <= ticks' /\ from'[p] <= ticks' /\ at'[p] <= ticks'
  BY <1>2, <1>a DEF PostSetup, SettingsTypeOK, TickInv
<1>8. UNCHANGED <<value, complete, admins, log>>
  BY Zenon DEF PostSetup
<1> QED
  BY <1>2, <1>5, <1>6, <1>7, <1>8, LocalStep, Zenon

\* A setup that goes on keeps its email and the tick it began at.
LEMMA SetupKept ==
  ASSUME NEW p \in Writers, SetupInv(p), UNCHANGED <<admins, req, email, from>>,
         phase[p] \in {"setup", "create", "complete", "name"},
         phase'[p] \in {"setup", "create", "complete", "name", "commitSetup"},
         Creating(p)' => \A a \in admins : a.email # email[p]
  PROVE  WriterInv(p)'
<1>1. Named(p)' = Named(p)
  BY Zenon DEF Named
<1>2. SetupInv(p)'
  BY <1>1, Zenon DEF SetupInv
<1> QED
  BY <1>2, Zenon DEF WriterInv, PatchInv

\* The statements of a setup before its commit; the unique index keeps the
\* emails apart (CreateAdmin).
LEMMA SetupStep ==
  ASSUME SettingsInv, SettingsTypeOK', NEW p \in Writers,
         BeginSetup(p) \/ CreateAdmin(p) \/ SetSetupComplete(p) \/ SetInstanceName(p)
  PROVE  SettingsInv'
<1>a. SettingsTypeOK /\ SetupInv(p) /\ TickInv /\ EmailInv
  BY Zenon DEF SettingsInv, WriterInv
<1> USE DEF store, locals, noted
<1>1. CASE BeginSetup(p)
  <2>1. phase'[p] = "create" /\ at'[p] = ticks + 1 /\ Others(p)
    BY <1>1, <1>a DEF BeginSetup, StepTo, SettingsTypeOK, Others, Stays
  <2>2. WriterInv(p)'
    BY <1>1, <1>a, <2>1, SetupKept, Zenon DEF BeginSetup, Creating
  <2>3. EmailInv'
    BY <2>1, EmailsKept, Zenon DEF Creating, Others, Stays
  <2>4. ticks <= ticks' /\ from'[p] <= ticks' /\ at'[p] <= ticks'
    BY <1>1, <1>a, <2>1 DEF BeginSetup, SettingsTypeOK, TickInv
  <2>5. UNCHANGED <<value, complete, admins, log>>
    BY <1>1, Zenon DEF BeginSetup
  <2> QED
    BY <2>1, <2>2, <2>3, <2>4, <2>5, LocalStep, Zenon
<1>2. CASE CreateAdmin(p)
  <2>1. phase'[p] = "complete" /\ Others(p)
    BY <1>2, <1>a, Zenon DEF CreateAdmin, StepTo, SettingsTypeOK, Others, Stays
  <2>2. WriterInv(p)'
    BY <1>2, <1>a, <2>1, SetupKept, Zenon DEF CreateAdmin
  <2>3. EmailInv'
    <3>1. \A q \in Writers : q # p => (Creating(q)' <=> Creating(q))
      BY <2>1, Zenon DEF Creating, Others, Stays
    <3>2. email' = email /\ \A q \in Writers : Creating(q) => email[q] # email[p]
      BY <1>2, Zenon DEF CreateAdmin
    <3> QED
      BY <1>a, <3>1, <3>2, Zenon DEF EmailInv
  <2>4. ticks <= ticks' /\ from'[p] <= ticks' /\ at'[p] <= ticks'
    BY <1>2, <1>a DEF CreateAdmin, SettingsTypeOK, TickInv
  <2>5. UNCHANGED <<value, complete, admins, log>>
    BY <1>2, Zenon DEF CreateAdmin
  <2> QED
    BY <2>1, <2>2, <2>3, <2>4, <2>5, LocalStep, Zenon
<1>3. CASE SetSetupComplete(p) \/ SetInstanceName(p)
  <2>1. Creating(p) /\ phase'[p] \in {"name", "commitSetup"} /\ Others(p)
    BY <1>3, <1>a DEF SetSetupComplete, SetInstanceName, StepTo, SettingsTypeOK, Others,
       Stays, Creating
  <2>2. /\ phase[p] \in {"complete", "name"}
        /\ UNCHANGED <<value, complete, admins, log, ticks, req, email, from, at>>
    BY <1>3, Zenon DEF SetSetupComplete, SetInstanceName
  <2>3. WriterInv(p)'
    BY <1>a, <2>1, <2>2, SetupKept, Zenon DEF SetupInv
  <2>4. EmailInv'
    BY <2>1, <2>2, EmailsKept, Zenon DEF Creating, Others, Stays
  <2>5. ticks <= ticks' /\ from'[p] <= ticks' /\ at'[p] <= ticks'
    BY <1>a, <2>2 DEF SettingsTypeOK, TickInv
  <2> QED
    BY <2>1, <2>2, <2>3, <2>4, <2>5, LocalStep, Zenon
<1> QED
  BY <1>1, <1>2, <1>3, Zenon

\* A request, across a commit of another one: what it has read of a key that was
\* written is now older than the key's last row.
LEMMA OtherCommits ==
  ASSUME SettingsInv, NEW N, Added(N), NEW q \in Writers, Stays(q),
         \A k \in ConfigKeys : value'[k] = req[q][k] => k \in held'[q],
         \A a \in admins' \ admins : a.till = ticks + 1 /\ (Creating(q) => a.email # email[q])
  PROVE  WriterInv(q)'
<1>1. WriterInv(q)
  BY Zenon DEF SettingsInv
<1>2. Named(q)' = Named(q) /\ Changes(q)' = Changes(q) /\ Named(q) \subseteq ConfigKeys
  BY Zenon DEF Stays, Named, Changes, Changed
<1>3. Seen(q)' = Seen(q)
  BY <1>2, Zenon DEF Stays, Seen
<1>4. from[q] < ticks + 1
  <2>1. from[q] \in Nat /\ ticks \in Nat /\ from[q] <= ticks
    BY Zenon DEF SettingsInv, SettingsTypeOK, TickInv
  <2> QED
    BY <2>1
<1>5. ASSUME NEW k, Fresh(q, k) PROVE Fresh(q, k)'
  <2>1. CASE \E r \in N : r.key = k
    <3>1. PICK r \in N : r.key = k
      BY <2>1, Zenon
    <3>2. LastRow(k, r)' /\ r \in log'
      BY <3>1, LastRows, Zenon DEF Added
    <3>3. r.till = ticks + 1 /\ from'[q] = from[q]
      BY Zenon DEF Added, Stays
    <3>4. r.till > from'[q]
      BY <1>4, <3>3, Zenon
    <3> QED
      BY <3>2, <3>4, Zenon DEF Fresh
  <2>2. CASE \A r \in N : r.key # k
    <3>1. (NoRow(k) => NoRow(k)') /\ \A r \in log : LastRow(k, r) => LastRow(k, r)'
      BY <2>2, LastRows, Zenon
    <3>2. from'[q] = from[q] /\ pre'[q] = pre[q] /\ log \subseteq log'
      BY Zenon DEF Added, Stays
    <3> QED
      BY <1>5, <3>1, <3>2, Zenon DEF Fresh
  <2> QED
    BY <2>1, <2>2, Zenon
<1>6. PatchInv(q)'
  <2> SUFFICES ASSUME phase[q] \in {"read", "write", "commit"}
               PROVE  /\ \A k \in Named(q) : value'[k] = req[q][k] => k \in held'[q]
                      /\ phase[q] = "read" => pending[q] \cap blind[q] = {}
                      /\ phase[q] # "read" => chg[q] = Changes(q)
                      /\ \A k \in Seen(q) :
                           /\ k \in blind[q] => pre[q][k] = Zero
                           /\ k \notin blind[q] /\ pre[q][k] = req[q][k] => k \in held'[q]
                           /\ k \notin blind[q] \cup {PasswordKey} => Fresh(q, k)'
    BY <1>2, <1>3 DEF PatchInv, Stays
  <2>1. PatchInv(q)
    BY <1>1, Zenon DEF WriterInv
  <2>2. \A k \in Named(q) : value'[k] = req[q][k] => k \in held'[q]
    BY <1>2, Zenon
  <2> QED
    BY <1>5, <2>1, <2>2, Zenon DEF PatchInv, Stays
<1>7. SetupInv(q)'
  <2>1. SetupInv(q)
    BY <1>1, Zenon DEF WriterInv
  <2>2. phase'[q] = phase[q] /\ email'[q] = email[q] /\ from'[q] = from[q]
    BY Zenon DEF Stays
  <2>3. \A a \in admins' : a \in admins \/ from[q] < a.till
    BY <1>4, Zenon
  <2> QED
    BY <1>2, <2>1, <2>2, <2>3, Zenon DEF SetupInv, Creating
<1>8. phase'[q] = "answer" => \A k \in Named(q) : k \in held'[q] \/ (k \in blind'[q] /\ req'[q][k] = Zero)
  BY <1>1, <1>2, Zenon DEF WriterInv, Stays
<1>9. phase'[q] = "idle" => blind'[q] = {}
  BY <1>1, Zenon DEF WriterInv, Stays
<1> QED
  BY <1>2, <1>6, <1>7, <1>8, <1>9, Zenon DEF WriterInv

\* A row that was there before a tick, or that the tick adds, lies before it.
LEMMA OrderedTicks ==
  ASSUME NEW b \in Nat, NEW e \in Nat, NEW t \in Nat, (b < e /\ e <= t) \/ (b <= t /\ e = t + 1)
  PROVE  b < e /\ e <= t + 1
BY SMT

\* Every request, across a commit.
LEMMA Commits ==
  ASSUME SettingsInv, SettingsTypeOK', NEW N, Added(N), \A r \in N : Replaces(r),
         NEW p \in Writers, Others(p), Notice, ticks' = ticks + 1, req' = req,
         phase'[p] = "answer", from'[p] = 0, at'[p] = 0,
         \A k \in Named(p) : value'[k] = req[p][k] \/ k \in held[p] \/ (k \in blind'[p] /\ req[p][k] = Zero),
         \A a \in admins' : a \in admins \/ a.from <= ticks,
         \A q \in Writers \ {p} : \A a \in admins' \ admins :
           a.till = ticks + 1 /\ (Creating(q) => a.email # email[q]),
         SetupOnce'
  PROVE  SettingsInv'
<1>a. SettingsTypeOK /\ TickInv
  BY Zenon DEF SettingsInv
<1>1. \A q \in Writers : held'[q] = held[q] \cup {k \in ConfigKeys : value'[k] = req[q][k]}
  BY Zenon DEF Notice
<1>2. ASSUME NEW q \in Writers, q # p PROVE WriterInv(q)'
  <2>1. Stays(q)
    BY <1>2, Zenon DEF Others
  <2>2. \A k \in ConfigKeys : value'[k] = req[q][k] => k \in held'[q]
    BY <1>1, Zenon
  <2> QED
    BY <1>2, <2>1, <2>2, OtherCommits, Zenon
<1>3. WriterInv(p)'
  <2>1. Named(p)' = Named(p) /\ Named(p) \subseteq ConfigKeys
    BY Zenon DEF Named
  <2>2. \A k \in Named(p)' : k \in held'[p] \/ (k \in blind'[p] /\ req'[p][k] = Zero)
    BY <1>1, <2>1, Zenon
  <2> QED
    BY <2>2, Zenon DEF WriterInv, PatchInv, SetupInv, Creating
<1>4. EmailInv'
  BY EmailsKept, Zenon DEF Creating, Others, Stays
<1>5. RowInv' /\ OldValueReplaced'
  BY RowsAdded, Zenon
<1>6. TickInv'
  <2>1. \A r \in log' : r.at < r.till /\ r.till <= ticks'
    <3>1. ticks \in Nat /\ \A r \in log' : r.at \in Nat /\ r.till \in Nat
      BY <1>a, Zenon DEF SettingsTypeOK, AuditRows
    <3>2. ASSUME NEW r \in log' PROVE r.at < r.till /\ r.till <= ticks'
      <4>1. (r.at < r.till /\ r.till <= ticks) \/ (r.at <= ticks /\ r.till = ticks + 1)
        BY <1>a, Zenon DEF TickInv, Added
      <4>2. r.at < r.till /\ r.till <= ticks + 1
        BY <3>1, <4>1, OrderedTicks, Zenon
      <4> QED
        BY <4>2, Zenon
    <3> QED
      BY <3>2, Zenon
  <2>2. \A a \in admins' : a.from <= ticks'
    <3>1. \A a \in admins : a.from <= ticks
      BY <1>a, Zenon DEF TickInv
    <3>2. \A a \in admins' : a.from <= ticks
      BY <3>1, Zenon
    <3>3. ticks \in Nat /\ \A a \in admins' : a.from \in Nat
      BY <1>a, Zenon DEF SettingsTypeOK
    <3> QED
      BY <3>2, <3>3
  <2>3. ASSUME NEW q \in Writers PROVE from'[q] <= ticks' /\ at'[q] <= ticks'
    <3>1. CASE q = p
      <4>1. ticks \in Nat
        BY <1>a, Zenon DEF SettingsTypeOK
      <4> QED
        BY <3>1, <4>1
    <3>2. CASE q # p
      <4>1. from'[q] = from[q] /\ at'[q] = at[q]
        BY <3>2, Zenon DEF Others, Stays
      <4>2. /\ from[q] \in Nat /\ at[q] \in Nat /\ ticks \in Nat
            /\ from[q] <= ticks /\ at[q] <= ticks
        BY <1>a, Zenon DEF SettingsTypeOK, TickInv
      <4> QED
        BY <4>1, <4>2
    <3> QED
      BY <3>1, <3>2, Zenon
  <2> QED
    BY <2>1, <2>2, <2>3, Zenon DEF TickInv
<1> QED
  BY <1>2, <1>3, <1>4, <1>5, <1>6, Zenon DEF SettingsInv

\* The commit of a PATCH adds the last row of every key that it changes
\* (CommitPatch).
LEMMA CommitPatchStep ==
  ASSUME SettingsInv, SettingsTypeOK', NEW p \in Writers, CommitPatch(p)
  PROVE  SettingsInv'
<1>a. SettingsTypeOK /\ PatchInv(p) /\ TickInv
  BY Zenon DEF SettingsInv, WriterInv
<1> DEFINE N == ChangeRows(p)
<1> DEFINE row(k) == [key |-> k, old |-> pre[p][k], new |-> req[p][k], from |-> from[p], at |-> at[p],
                      till |-> ticks + 1, blind |-> blind[p]]
<1>1. /\ phase[p] = "commit" /\ ticks' = ticks + 1 /\ log' = log \cup N /\ Notice
      /\ UNCHANGED <<complete, admins, req, blind>>
  BY Zenon DEF CommitPatch
<1>2. phase'[p] = "answer" /\ from'[p] = 0 /\ at'[p] = 0 /\ Others(p)
  BY <1>1, <1>a, CommitFrame, Zenon DEF CommitPatch
<1>3. chg[p] = Changes(p) /\ Seen(p) = Named(p) /\ Named(p) \subseteq ConfigKeys
  BY <1>1, <1>a, Zenon DEF PatchInv, Seen, Named
<1>4. \A k \in ConfigKeys : value'[k] = IF k \in Changes(p) THEN req[p][k] ELSE value[k]
  BY <1>3, Zenon DEF CommitPatch
<1>5. N = {row(k) : k \in Changes(p) \ {PasswordKey}}
  BY <1>3, Zenon DEF ChangeRows
<1>6. ASSUME NEW k \in Changes(p) \ {PasswordKey}
      PROVE  /\ row(k) \in AuditRows /\ row(k).key = k /\ row(k).till = ticks + 1 /\ row(k).at <= ticks
             /\ value'[k] = row(k).new /\ Replaces(row(k))
  <2>1. k \in Named(p) /\ k \in ConfigKeys /\ req[p][k] # NoValue
    BY Zenon DEF Changes, Named
  <2>2. req[p][k] \in Values /\ pre[p][k] \in MaybeValue
    <3>1. req[p][k] \in MaybeValue /\ pre[p][k] \in MaybeValue
      BY <1>a, <2>1 DEF SettingsTypeOK
    <3> QED
      BY <2>1, <3>1, Zenon DEF MaybeValue
  <2>3. from[p] \in Nat /\ at[p] \in Nat /\ ticks + 1 \in Nat /\ blind[p] \in SUBSET ConfigKeys
    BY <1>a DEF SettingsTypeOK
  <2>4. row(k) \in AuditRows
    BY <2>1, <2>2, <2>3, Zenon DEF AuditRows
  <2>5. row(k).key = k /\ row(k).till = ticks + 1 /\ row(k).at <= ticks /\ value'[k] = row(k).new
    BY <1>4, <1>a, <2>1, Zenon DEF TickInv
  <2>6. Replaces(row(k))
    <3>1. k \in blind[p] \/ Fresh(p, k)
      BY <1>1, <1>3, <1>a, <2>1, Zenon DEF PatchInv
    <3>2. row(k).key = k /\ row(k).blind = blind[p] /\ row(k).old = pre[p][k] /\ row(k).from = from[p]
      BY Zenon
    <3> HIDE DEF row
    <3> QED
      BY <3>1, <3>2, Zenon DEF Replaces, Fresh
  <2> QED
    BY <2>4, <2>5, <2>6, Zenon
<1> HIDE DEF row, N
<1>7. Added(N)
  <2>1. \A r \in N : \E k \in Changes(p) \ {PasswordKey} : r = row(k)
    BY <1>5, Zenon
  <2>2. N \subseteq AuditRows /\ \A r \in N : r.till = ticks + 1 /\ r.at <= ticks /\ value'[r.key] = r.new
    <3> SUFFICES ASSUME NEW r \in N
                 PROVE  r \in AuditRows /\ r.till = ticks + 1 /\ r.at <= ticks /\ value'[r.key] = r.new
      BY Zenon
    <3>1. PICK k \in Changes(p) \ {PasswordKey} : r = row(k)
      BY <2>1, Zenon
    <3>2. r \in AuditRows /\ r.key = k /\ r.till = ticks + 1 /\ r.at <= ticks /\ value'[k] = r.new
      BY <1>6, <3>1, Zenon
    <3> QED
      BY <3>2, Zenon
  <2>3. \A r, s \in N : r.key = s.key => r = s
    BY <1>6, <2>1, Zenon
  <2>4. ASSUME NEW k \in ConfigKeys \ {PasswordKey}, \A r \in N : r.key # k PROVE value'[k] = value[k]
    <3>1. k \notin Changes(p)
      BY <1>5, <1>6, <2>4, Zenon
    <3> QED
      BY <1>4, <3>1, Zenon
  <2> QED
    BY <1>1, <2>2, <2>3, <2>4, Zenon DEF Added
<1>8. \A r \in N : Replaces(r)
  BY <1>5, <1>6, Zenon
<1>9. ASSUME NEW k \in Named(p)
      PROVE  value'[k] = req[p][k] \/ k \in held[p] \/ (k \in blind'[p] /\ req[p][k] = Zero)
  <2>1. CASE k \in Changes(p)
    BY <1>3, <1>4, <2>1, Zenon
  <2>2. CASE k \notin Changes(p)
    <3>1. req[p][k] = pre[p][k]
      BY <2>2, Zenon DEF Changes, Changed
    <3> QED
      BY <1>1, <1>3, <1>a, <3>1, Zenon DEF PatchInv
  <2> QED
    BY <2>1, <2>2, Zenon
<1>10. SetupOnce'
  BY <1>1, Zenon DEF SettingsInv, SetupOnce
<1> QED
  BY <1>1, <1>2, <1>7, <1>8, <1>9, <1>10, Commits, Zenon

\* The commit of a setup adds an administrator and the last row of the name
\* (CommitSetup).
LEMMA CommitSetupStep ==
  ASSUME SettingsInv, SettingsTypeOK', NEW p \in Writers, CommitSetup(p)
  PROVE  SettingsInv'
<1>a. SettingsTypeOK /\ SetupInv(p) /\ TickInv /\ EmailInv /\ SetupOnce
  BY Zenon DEF SettingsInv, WriterInv
<1> DEFINE row == [key |-> NameKey, old |-> NoValue, new |-> req[p][NameKey],
                   from |-> from[p], at |-> at[p], till |-> ticks + 1, blind |-> {}]
<1> DEFINE N == {row}
<1> DEFINE admin == [email |-> email[p], from |-> from[p], till |-> ticks + 1]
<1>1. /\ phase[p] = "commitSetup" /\ ticks' = ticks + 1 /\ log' = log \cup N /\ Notice
      /\ admins' = admins \cup {admin} /\ UNCHANGED <<req, blind>>
  BY Zenon DEF CommitSetup
<1>2. phase'[p] = "answer" /\ from'[p] = 0 /\ at'[p] = 0 /\ Others(p)
  BY <1>1, <1>a, CommitFrame, Zenon DEF CommitSetup
<1>3. Named(p) = {NameKey} /\ NameKey \in ConfigKeys /\ Creating(p)
  BY <1>1, <1>a, Zenon DEF SetupInv, ConfigKeys, Creating
<1>4. value'[NameKey] = req[p][NameKey] /\ \A k \in ConfigKeys \ {NameKey} : value'[k] = value[k]
  BY <1>3, <1>a, Zenon DEF CommitSetup, SettingsTypeOK
<1>5. /\ row \in AuditRows /\ row.key = NameKey /\ row.till = ticks + 1 /\ row.at <= ticks
      /\ row.new = req[p][NameKey] /\ row.old = NoValue
  <2>1. req[p][NameKey] \in Values
    <3>1. req[p][NameKey] # NoValue
      BY <1>3, Zenon DEF Named
    <3>2. req[p][NameKey] \in MaybeValue
      BY <1>3, <1>a DEF SettingsTypeOK
    <3> QED
      BY <3>1, <3>2, Zenon DEF MaybeValue
  <2>2. from[p] \in Nat /\ at[p] \in Nat /\ ticks + 1 \in Nat
    BY <1>a DEF SettingsTypeOK
  <2>3. row \in AuditRows
    BY <1>3, <2>1, <2>2, Zenon DEF AuditRows, MaybeValue, NameKey, PasswordKey
  <2> QED
    BY <1>a, <2>3, Zenon DEF TickInv
<1>6. admin.email = email[p] /\ admin.from = from[p] /\ admin.till = ticks + 1
  BY Zenon
<1> HIDE DEF row, admin
<1>7. Added(N) /\ \A r \in N : Replaces(r)
  <2>1. \A r \in N : r = row
    BY Zenon
  <2>2. Added(N)
    <3>1. N \subseteq AuditRows /\ \A r \in N : r.till = ticks + 1 /\ r.at <= ticks /\ value'[r.key] = r.new
      BY <1>4, <1>5, <2>1, Zenon
    <3>2. \A k \in ConfigKeys \ {PasswordKey} : (\A r \in N : r.key # k) => value'[k] = value[k]
      BY <1>4, <1>5, Zenon
    <3> QED
      BY <1>1, <2>1, <3>1, <3>2, Zenon DEF Added
  <2> QED
    BY <1>5, <2>1, <2>2, Zenon DEF Replaces
<1>8. \A q \in Writers \ {p} : Creating(q) => email[p] # email[q]
  BY <1>3, <1>a, Zenon DEF EmailInv
<1>9. SetupOnce'
  <2>1. complete' <=> admins' # {}
    BY <1>1, Zenon DEF CommitSetup
  <2>2. from[p] \in Nat /\ ticks \in Nat /\ from[p] < ticks + 1
    BY <1>a DEF SettingsTypeOK, TickInv
  <2>3. ASSUME NEW a \in admins PROVE a.email # email[p] /\ a.from < ticks + 1 /\ from[p] < a.till
    <3>1. a.email # email[p] /\ from[p] < a.till
      BY <1>1, <1>3, <1>a, Zenon DEF SetupInv
    <3>2. a.from \in Nat /\ a.from <= ticks
      BY <1>a, Zenon DEF SettingsTypeOK, TickInv
    <3> QED
      BY <2>2, <3>1, <3>2
  <2>4. ASSUME NEW a \in admins', NEW b \in admins', a # b
        PROVE  a.email # b.email /\ a.from < b.till /\ b.from < a.till
    <3>1. CASE a \in admins /\ b \in admins
      BY <1>a, <2>4, <3>1, Zenon DEF SetupOnce
    <3>2. CASE a \in admins /\ b = admin
      BY <1>6, <2>3, <3>2, Zenon
    <3>3. CASE a = admin /\ b \in admins
      BY <1>6, <2>3, <3>3, Zenon
    <3> QED
      BY <1>1, <2>4, <3>1, <3>2, <3>3, Zenon
  <2> QED
    BY <2>1, <2>4, Zenon DEF SetupOnce
<1>10. from[p] <= ticks
  BY <1>a, Zenon DEF TickInv
<1>11. \A k \in Named(p) : value'[k] = req[p][k]
  BY <1>3, <1>4, Zenon
<1>12. \A a \in admins' : a \in admins \/ a.from <= ticks
  BY <1>1, <1>6, <1>10, Zenon
<1>13. \A q \in Writers \ {p} : \A a \in admins' \ admins :
         a.till = ticks + 1 /\ (Creating(q) => a.email # email[q])
  BY <1>1, <1>6, <1>8, Zenon
<1> HIDE DEF N
<1> QED
  BY <1>1, <1>2, <1>7, <1>9, <1>11, <1>12, <1>13, Commits, Zenon

\* Every step of the handlers keeps the invariant.
LEMMA SettingsStep == SettingsInv /\ [SettingsNext]_settingsVars => SettingsInv'
<1> SUFFICES ASSUME SettingsInv, [SettingsNext]_settingsVars PROVE SettingsInv'
  BY Zenon
<1>1. SettingsTypeOK'
  BY SettingsType, Zenon
<1>2. ASSUME NEW p \in Writers,
             PatchGeneral(p) \/ PatchSecurity(p) \/ PatchTokens(p) \/ PatchEmail(p)
      PROVE  SettingsInv'
  <2>1. {NameKey} \subseteq ConfigKeys /\ SecurityKeys \subseteq ConfigKeys
    BY Zenon DEF ConfigKeys
  <2>2. TokenKeys \subseteq ConfigKeys /\ EmailKeys \subseteq ConfigKeys
    BY Zenon DEF ConfigKeys
  <2>3. \E section \in SUBSET ConfigKeys : Patch(p, section)
    BY <1>2, <2>1, <2>2, Zenon DEF PatchGeneral, PatchSecurity, PatchTokens, PatchEmail
  <2> QED
    BY <1>1, <2>3, PatchStep, Zenon
<1>3. ASSUME NEW p \in Writers, Answer(p) \/ EmailTaken(p) \/ Abort(p) PROVE SettingsInv'
  <2>1. Reply(p) /\ UNCHANGED <<value, complete, admins, log, ticks>>
    BY <1>3, Zenon DEF Answer, EmailTaken, Abort, store
  <2> QED
    BY <1>1, <2>1, ReplyStep, Zenon
<1>4. CASE UNCHANGED settingsVars
  <2>1. UNCHANGED <<value, complete, admins, log, ticks, lock, phase, req, pre, pending, chg, email,
                    from, at, held, blind>>
    BY <1>4, Zenon DEF settingsVars, store, locals, noted
  <2>2. \A q \in Writers : Stays(q)
    BY <2>1, Zenon DEF Stays
  <2>3. \A q \in Writers : WriterInv(q)'
    BY <2>1, <2>2, OtherStays, Zenon
  <2>4. EmailInv'
    BY <2>1, EmailsKept, Zenon DEF Creating
  <2>5. TickInv' /\ RowInv' /\ OldValueReplaced' /\ SetupOnce'
    <3>1. TickInv /\ RowInv /\ OldValueReplaced /\ SetupOnce
      BY Zenon DEF SettingsInv
    <3>2. TickInv' /\ SetupOnce'
      BY <2>1, <3>1, Zenon DEF TickInv, SetupOnce
    <3> QED
      BY <2>1, <3>1, <3>2, Zenon DEF RowInv, NoRow, LastRow, OldValueReplaced
  <2> QED
    BY <1>1, <2>3, <2>4, <2>5, Zenon DEF SettingsInv
<1>5. ASSUME NEW p \in Writers, Start(p) PROVE SettingsInv'
  BY <1>1, <1>2, <1>5, PostSetupStep, Zenon DEF Start
<1>6. ASSUME NEW p \in Writers, Progress(p) PROVE SettingsInv'
  BY <1>1, <1>3, <1>6, ReadStep, NoChangeStep, BeginStep, SetStep, CommitPatchStep, SetupStep,
     CommitSetupStep, Zenon DEF Progress
<1> QED
  BY <1>1, <1>3, <1>4, <1>5, <1>6, ReadFailsStep, Zenon DEF SettingsNext, Reject

\* The audit rows tell the value, from the row that was committed last: one with
\* a later created_at was begun before that commit, and committed before it.
LEMMA LogTells == SettingsInv => LogTellsValue
<1> SUFFICES ASSUME SettingsInv PROVE LogTellsValue
  BY Zenon
<1>a. SettingsTypeOK /\ TickInv /\ RowInv
  BY Zenon DEF SettingsInv
<1>1. \A r \in log : r.key # PasswordKey /\ r.at \in Nat /\ r.till \in Nat /\ r.at < r.till
  BY <1>a, Zenon DEF SettingsTypeOK, TickInv, AuditRows
<1> SUFFICES ASSUME NEW k \in ConfigKeys \ {PasswordKey}
             PROVE  LET rows == {r \in log : r.key = k} IN
                      /\ rows = {} => value[k] = Default
                      /\ \A r \in rows : (\A s \in rows \ {r} : s.at < r.at) =>
                           value[k] = r.new \/ \E s \in rows \ {r} : Overlap(r, s)
  BY <1>1, Zenon DEF LogTellsValue
<1> DEFINE rows == {r \in log : r.key = k}
<1>2. CASE NoRow(k) /\ value[k] = Default
  <2>1. rows = {}
    BY <1>2, Zenon DEF NoRow
  <2> QED
    BY <1>2, <2>1, Zenon
<1>3. CASE \E s \in log : LastRow(k, s) /\ value[k] = s.new
  <2>1. PICK s \in log : LastRow(k, s) /\ value[k] = s.new
    BY <1>3, Zenon
  <2>2. s \in rows
    BY <2>1, Zenon DEF LastRow
  <2>3. ASSUME NEW r \in rows, \A u \in rows \ {r} : u.at < r.at
        PROVE  value[k] = r.new \/ \E u \in rows \ {r} : Overlap(r, u)
    <3>1. CASE r = s
      BY <2>1, <3>1, Zenon
    <3>2. CASE r # s
      <4>1. r.till < s.till /\ s.at < r.at
        BY <2>1, <2>2, <2>3, <3>2, Zenon DEF LastRow
      <4>2. Overlap(r, s)
        BY <1>1, <4>1 DEF Overlap
      <4> QED
        BY <2>2, <3>2, <4>2, Zenon
    <3> QED
      BY <3>1, <3>2, Zenon
  <2> QED
    BY <2>2, <2>3, Zenon
<1> QED
  BY <1>2, <1>3, <1>a, Zenon DEF RowInv

\* The invariant holds: a setting has the value of its last audit row, and what a
\* PATCH has read is that of the last row unless the row is younger than the
\* request (Settings, Set, PatchSecurity and the others, PostSetup).
THEOREM SettingsInvariant == SettingsSpec => []SettingsInv
BY SettingsStart, SettingsStep, PTL DEF SettingsSpec

\* A setting has the value of its latest audit row, unless transactions
\* overlapped (Commit, PatchSecurity and the other handlers, PostSetup).
THEOREM LogTellsValueHolds == SettingsSpec => []LogTellsValue
BY SettingsInvariant, LogTells, PTL

\* An audit row's old_value is what the change replaced, unless another commit
\* came in between or the SELECT failed (the snapshot pre of the handlers).
THEOREM OldValueReplacedHolds == SettingsSpec => []OldValueReplaced
<1>1. SettingsInv => OldValueReplaced
  BY Zenon DEF SettingsInv
<1> QED
  BY <1>1, SettingsInvariant, PTL

\* Every setting that an answered PATCH names has had its value since the request
\* came in, although the transaction writes only what differed before it.
THEOREM PatchHeldHolds == SettingsSpec => []PatchHeld
<1>1. SettingsInv => PatchHeld
  BY Zenon DEF SettingsInv, WriterInv, PatchHeld
<1> QED
  BY <1>1, SettingsInvariant, PTL

\* The setup is complete exactly if it has made an administrator, and only
\* requests that overlapped make two, with different emails (PostSetup).
THEOREM SetupOnceHolds == SettingsSpec => []SetupOnce
<1>1. SettingsInv => SetupOnce
  BY Zenon DEF SettingsInv
<1> QED
  BY <1>1, SettingsInvariant, PTL

=============================================================================
