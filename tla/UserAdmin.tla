------------------------------ MODULE UserAdmin ------------------------------
(***************************************************************************)
(* The admin operations on user accounts that change a role or a status:   *)
(* Create, Update, Disable, Enable and Delete of internal/users/handler.go *)
(* with the store operations they call.  Several requests run at once,     *)
(* each in a READ COMMITTED PostgreSQL transaction, and every SQL          *)
(* statement is a step: it sees what has been committed when it starts,    *)
(* plus the transaction's own write; a row that another transaction has    *)
(* written or locked makes an UPDATE, a DELETE or a SELECT ... FOR UPDATE  *)
(* wait, and when the wait is over the WHERE clause is evaluated again.    *)
(* What Disable and Delete do in Valkey after their commit touches no      *)
(* variable of this module.                                                *)
(***************************************************************************)

CONSTANTS
    Users,      \* user ids, one for every account that ever exists
    Handlers,   \* request handlers that may be in flight together
    NoHandler,  \* the owner of a row nobody has locked
    NoUser,     \* the target of a handler that is idle
    Requests    \* the calls the API receives: an operation and, for Create
                \* and Update, the requested role ("keep": the role is omitted)

Roles == {"super_admin", "user"}
Ops == {"create", "update", "disable", "enable", "delete"}
Calls == [op : Ops, newRole : Roles \cup {"keep"}]
NoCall == [op |-> "none", newRole |-> "keep"]

ASSUME NoHandlerAssumption == NoHandler \notin Handlers

ASSUME NoUserAssumption == NoUser \notin Users

ASSUME RequestsAssumption ==
    /\ Requests \subseteq Calls
    /\ \A q \in Requests : /\ q.op = "create" => q.newRole # "keep"
                           /\ q.newRole # "keep" => q.op \in {"create", "update"}

VARIABLES
    role,       \* users.role, committed
    status,     \* users.status, committed; "none" and "deleted": no such row
    rowLock,    \* the transaction that holds the lock on a row of users
    stmt,       \* the next statement of each request handler
    target,     \* the id in the path (for Create the id of the new row)
    call,       \* the request
    seen,       \* existing.Role, read by the handler
    toLock      \* rows the SELECT ... FOR UPDATE in progress still has to lock

usersVars == <<role, status, rowLock, stmt, target, call, seen, toLock>>

InTx == {"read", "select", "lock", "write", "count", "commit"}

UsersTypeOK ==
    /\ role \in [Users -> Roles]
    /\ status \in [Users -> {"none", "active", "disabled", "deleted"}]
    /\ rowLock \in [Users -> Handlers \cup {NoHandler}]
    /\ stmt \in [Handlers -> InTx \cup {"idle"}]
    /\ target \in [Handlers -> Users \cup {NoUser}]
    /\ call \in [Handlers -> Calls \cup {NoCall}]
    /\ seen \in [Handlers -> Roles]
    /\ toLock \in [Handlers -> SUBSET Users]

-----------------------------------------------------------------------------
Exists(u) == status[u] \in {"active", "disabled"}

SuperAdmins == {u \in Users : role[u] = "super_admin" /\ Exists(u)}

ActiveAdmins == {u \in SuperAdmins : status[u] = "active"}

Free(p, u) == rowLock[u] \in {NoHandler, p}

\* The role and the status that p's transaction gives the target row.
NewRole(p) ==
    IF call[p].newRole # "keep" THEN call[p].newRole
    ELSE IF call[p].op = "update" THEN seen[p] ELSE role[target[p]]

NewStatus(p) ==
    IF call[p].op \in {"create", "enable"} THEN "active"
    ELSE IF call[p].op = "disable" THEN "disabled"
    ELSE IF call[p].op = "delete" THEN "deleted" ELSE status[target[p]]

Demoting(p, existingRole) ==
    /\ call[p].op = "update"
    /\ existingRole = "super_admin"
    /\ call[p].newRole = "user"

\* What p's own transaction counts: the committed rows with its own write.
RemainingActiveSuperAdmins(p) ==
    {u \in Users : IF u = target[p]
                     THEN NewRole(p) = "super_admin" /\ NewStatus(p) = "active"
                     ELSE u \in ActiveAdmins}

ReleaseLocks(p) ==
    rowLock' = [u \in Users |-> IF rowLock[u] = p THEN NoHandler ELSE rowLock[u]]

NextStmt(p, label) == stmt' = [stmt EXCEPT ![p] = label]

\* The handler returns.
Finish(p) ==
    /\ NextStmt(p, "idle")
    /\ target' = [target EXCEPT ![p] = NoUser]
    /\ call' = [call EXCEPT ![p] = NoCall]
    /\ seen' = [seen EXCEPT ![p] = "user"]
    /\ toLock' = [toLock EXCEPT ![p] = {}]

Continue(p, label) ==
    /\ NextStmt(p, label)
    /\ UNCHANGED <<target, call, seen, toLock>>

Rollback(p) ==
    /\ Finish(p)
    /\ ReleaseLocks(p)
    /\ UNCHANGED <<role, status>>

-----------------------------------------------------------------------------
\* rejectSelfOp, and the one case in which Update applies it.
SelfOpRejected(q, a, t) ==
    /\ a = t
    /\ q.op \in {"disable", "delete"} \/ (q.op = "update" /\ q.newRole # "keep")

\* Middleware and RequirePermission admit a request of an active super_admin;
\* the handler's checks before the transaction follow.
Enter(p, op, firstStatement) ==
    /\ stmt[p] = "idle"
    /\ \E a \in ActiveAdmins, t \in Users, q \in Requests :
         /\ q.op = op
         /\ ~SelfOpRejected(q, a, t)
         /\ q.op = "create" <=> status[t] = "none"
         /\ target' = [target EXCEPT ![p] = t]
         /\ call' = [call EXCEPT ![p] = q]
    /\ NextStmt(p, firstStatement)
    /\ UNCHANGED <<role, status, rowLock, seen, toLock>>

\* The five handlers, by the first statement of their transactions on the
\* users table; the steps below finish them.
Create(p) == Enter(p, "create", "write")
Update(p) == Enter(p, "update", "read")
Disable(p) == Enter(p, "disable", "select")
Enable(p) == Enter(p, "enable", "read")

\* Mutant: Delete forgets lockSuperAdminsForUpdate.
DeleteUnlocked(p) == Enter(p, "delete", "read")

Delete(p) == Enter(p, "delete", "select")

Request(p) == Create(p) \/ Update(p) \/ Disable(p) \/ Enable(p) \/ Delete(p)

\* GetByID inside the transaction; it takes no lock.
Read(p) ==
    /\ stmt[p] = "read"
    /\ \/ /\ ~Exists(target[p])
          /\ Rollback(p)
       \/ /\ Exists(target[p])
          /\ seen' = [seen EXCEPT ![p] = role[target[p]]]
          /\ NextStmt(p, IF Demoting(p, role[target[p]]) THEN "select" ELSE "write")
          /\ UNCHANGED <<role, status, rowLock, target, call, toLock>>

\* lockSuperAdminsForUpdate: the statement's snapshot fixes the rows to visit.
SelectSuperAdmins(p) ==
    /\ stmt[p] = "select"
    /\ toLock' = [toLock EXCEPT ![p] = SuperAdmins]
    /\ NextStmt(p, "lock")
    /\ UNCHANGED <<role, status, rowLock, target, call, seen>>

\* It locks them one by one; a row that is no super_admin any more is skipped.
LockSuperAdmin(p, u) ==
    /\ stmt[p] = "lock"
    /\ u \in toLock[p]
    /\ Free(p, u)
    /\ toLock' = [toLock EXCEPT ![p] = @ \ {u}]
    /\ rowLock' = IF u \in SuperAdmins THEN [rowLock EXCEPT ![u] = p] ELSE rowLock
    /\ UNCHANGED <<role, status, stmt, target, call, seen>>

SuperAdminsLocked(p) ==
    /\ stmt[p] = "lock"
    /\ toLock[p] = {}
    /\ Continue(p, IF call[p].op = "update" THEN "write" ELSE "read")
    /\ UNCHANGED <<role, status, rowLock>>

\* RowsAffected # 0; for Create, the email is not taken.
Writable(p) == IF call[p].op = "create" THEN status[target[p]] = "none"
                                        ELSE Exists(target[p])

\* The count of the remaining admins is only made for a removal of one.
RemovesAdmin(p) ==
    \/ Demoting(p, seen[p])
    \/ call[p].op \in {"disable", "delete"} /\ seen[p] = "super_admin"

\* The store's Create, Update, SetStatus or Delete.  A row that is gone (or,
\* for Create, an email that is taken) ends the request.
Write(p) ==
    /\ stmt[p] = "write"
    /\ Free(p, target[p])
    /\ \/ /\ ~Writable(p)
          /\ Rollback(p)
       \/ /\ Writable(p)
          /\ rowLock' = [rowLock EXCEPT ![target[p]] = p]
          /\ Continue(p, IF RemovesAdmin(p) THEN "count" ELSE "commit")
          /\ UNCHANGED <<role, status>>

\* enforceLastAdminLockout.
EnforceLastAdminLockout(p) ==
    /\ stmt[p] = "count"
    /\ \/ /\ RemainingActiveSuperAdmins(p) = {}
          /\ Rollback(p)
       \/ /\ RemainingActiveSuperAdmins(p) # {}
          /\ Continue(p, "commit")
          /\ UNCHANGED <<role, status, rowLock>>

\* The audit rows and the commit.
Commit(p) ==
    /\ stmt[p] = "commit"
    /\ role' = [role EXCEPT ![target[p]] = NewRole(p)]
    /\ status' = [status EXCEPT ![target[p]] = NewStatus(p)]
    /\ ReleaseLocks(p)
    /\ Finish(p)

\* An error of any statement, of an audit write or of the commit (a deadlock
\* victim included) rolls the transaction back.
FailTx(p) ==
    /\ stmt[p] \in InTx
    /\ Rollback(p)

-----------------------------------------------------------------------------
UsersInit ==
    /\ role \in [Users -> Roles]
    /\ status \in [Users -> {"none", "active"}]
    /\ \A u \in Users : status[u] = "none" => role[u] = "user"
    /\ ActiveAdmins # {}
    /\ rowLock = [u \in Users |-> NoHandler]
    /\ stmt = [p \in Handlers |-> "idle"]
    /\ target = [p \in Handlers |-> NoUser]
    /\ call = [p \in Handlers |-> NoCall]
    /\ seen = [p \in Handlers |-> "user"]
    /\ toLock = [p \in Handlers |-> {}]

UsersNext ==
    \E p \in Handlers :
         \/ Request(p) \/ Read(p) \/ SelectSuperAdmins(p) \/ SuperAdminsLocked(p)
         \/ Write(p) \/ EnforceLastAdminLockout(p) \/ Commit(p) \/ FailTx(p)
         \/ \E u \in Users : LockSuperAdmin(p, u)

UsersSpec == UsersInit /\ [][UsersNext]_usersVars

-----------------------------------------------------------------------------
\* There is always an active super_admin.  Every operation that removes one
\* locks all super_admin rows, applies its write and counts what remains
\* before it commits (docs/security.md, "Last-admin lockout protection").
LastAdmin == ActiveAdmins # {}

-----------------------------------------------------------------------------
\* The handler is between the end of its SELECT ... FOR UPDATE and its commit.
Guarded(p) ==
    \/ stmt[p] = "read" /\ call[p].op \in {"disable", "delete"}
    \/ /\ stmt[p] \in {"write", "count", "commit"}
       /\ call[p].op \in {"disable", "delete"} \/ Demoting(p, seen[p])

HandlerInv(p) ==
    /\ stmt[p] = "lock" => \A u \in SuperAdmins : u \in toLock[p] \/ rowLock[u] = p
    /\ Guarded(p) => \A u \in SuperAdmins : rowLock[u] = p
    /\ stmt[p] \in {"select", "lock"} =>
         call[p].op \in {"disable", "delete"} \/ Demoting(p, seen[p])
    /\ stmt[p] \in {"write", "count", "commit"} /\ call[p].op # "create" /\ seen[p] = "user"
         => role[target[p]] = "user"
    /\ stmt[p] \in {"count", "commit"} => rowLock[target[p]] = p /\ Writable(p)
    /\ stmt[p] = "commit" /\ RemovesAdmin(p) => RemainingActiveSuperAdmins(p) # {}

\* LastAdmin made inductive.  While a handler is guarded it owns the lock of
\* every super_admin row, the rows it did not find in its snapshot included:
\* when nobody is given the role there are none.
AdminInv == LastAdmin /\ \A p \in Handlers : HandlerInv(p)

=============================================================================
