------------------------------- MODULE Accounts -------------------------------
(***************************************************************************)
(* The accounts of internal/mods/rbac: the tables user and user_role and   *)
(* the cache of roles that authentication consults.  Requests run at the   *)
(* same time, each a goroutine: they authenticate (ParseUserID), log in,   *)
(* change their password, or administer users.  Every read, statement,     *)
(* cache call and commit is a step of its own; a transaction locks the row *)
(* it updates until it ends.                                               *)
(*                                                                         *)
(* A form's fields are chosen where the code first uses them.  Fields that *)
(* no decision depends on (names of people, phone, mail) are left out.     *)
(***************************************************************************)
EXTENDS Naturals, FiniteSets

CONSTANTS
  Procs,      \* goroutines that serve requests
  MaxUsers,   \* bound on users ever created; ids are given in order (XIDs)
  Names,      \* user names
  Roles,      \* roles a user may have
  None        \* no row, no entry, no password in the form

Users     == 1..MaxUsers
Statuses  == {"activated", "freezed"}
Passwords == {"default", "own"}   \* General.DefaultLoginPwd, or another

ASSUME AccountsAssumption ==
  /\ MaxUsers \in Nat \ {0}
  /\ None \notin Passwords /\ None \notin Names
  /\ \A rs \in SUBSET Roles : rs # None
  /\ None \notin [name : Names, status : Statuses, pw : Passwords]

VARIABLES
  user,       \* table user: Users -> row or None
  user_role,  \* table user_role: Users -> the roles of its rows
  cache,      \* namespace "user" of the cache: Users -> roles or None
  minted,     \* ids given out so far
  job         \* what each process is doing

vars == <<user, user_role, cache, minted, job>>

Rows == [name : Names, status : Statuses, pw : Passwords]

(* at: the next step.  pw: the password to write; form: that of the form;  *)
(* roles: the roles read, or the user_role rows its transaction deletes.   *)
(* passed is no variable of the code: what others did to the data of this  *)
(* job since it looked ("rows": committed a change to the user; "name":    *)
(* committed the same name; "cache": filled the entry it had deleted).     *)
Idle == [op |-> "none", at |-> "idle", user |-> 0, name |-> None, pw |-> None,
         form |-> None, roles |-> {}, passed |-> {}]

Init ==
  /\ user = [u \in Users |-> None] /\ user_role = [u \in Users |-> {}]
  /\ cache = [u \in Users |-> None]
  /\ minted = 0
  /\ job = [p \in Procs |-> Idle]

-----------------------------------------------------------------------------

Step(p, op, label) == job[p].op = op /\ job[p].at = label
Goto(p, label)     == job' = [job EXCEPT ![p].at = label]
Done(p)            == job' = [job EXCEPT ![p] = Idle]
Starts(p, new)     == job[p] = Idle /\ job' = [job EXCEPT ![p] = new]

(* DAL.User.Exists, ExistsUsername, GetByUsername (First: the lowest id).  *)
Exists(u)     == user[u] # None
Named(n)      == { u \in Users : Exists(u) /\ user[u].name = n }
ByName(n)     == CHOOSE u \in Named(n) : \A v \in Named(n) : u <= v
Activated(u)  == Exists(u) /\ user[u].status = "activated"

(* DAL.UserRole.Query: a user's roles.                                     *)
RolesOf(u) == user_role[u]

(* DAL.User.Update and UpdatePasswordByID: no row, no effect; Create and   *)
(* DeleteByUserID of DAL.UserRole.                                         *)
Updated(u, row)        == IF Exists(u) THEN [user EXCEPT ![u] = row] ELSE user
WithPassword(u, pw)    == IF Exists(u) THEN [user EXCEPT ![u].pw = pw] ELSE user
WithRoles(u, gone, rs) == [user_role EXCEPT ![u] = (@ \ gone) \cup rs]

(* The row is locked by a transaction between its statements and its end.  *)
Locked(u) == Exists(u) /\ \E p \in Procs : job[p].at = "commit" /\ job[p].user = u

(* p ends its job; its commit to user u passes those who have read the     *)
(* user, and its commit of name n those who take the name.                 *)
PassedBy(j, u, n) ==
  (IF j.user = u /\ j.op \in {"admit", "update"} THEN {"rows"} ELSE {})
    \cup (IF n # None /\ j.name = n THEN {"name"} ELSE {})

CommitDone(p, u, n) ==
  job' = [q \in Procs |->
    IF q = p THEN Idle
    ELSE [job[q] EXCEPT !.passed = @ \cup PassedBy(job[q], u, n)]]

(* Cacher.Set, after the reads of p.                                       *)
Fill(p, u) ==
  /\ cache' = [cache EXCEPT ![u] = job[p].roles]
  /\ job' = [q \in Procs |->
       IF q = p THEN Idle
       ELSE IF job[q].at = "commit" /\ job[q].user = u
            THEN [job[q] EXCEPT !.passed = @ \cup {"cache"}] ELSE job[q]]
  /\ UNCHANGED <<user, user_role, minted>>

(* Login's entry expires, Logout deletes the entry, the cache is full or   *)
(* in the memory of a process that ended.                                  *)
Forget(u) ==
  /\ cache[u] # None
  /\ cache' = [cache EXCEPT ![u] = None]
  /\ UNCHANGED <<user, user_role, minted, job>>

(* A read, a statement, a commit or a cache call is refused, or the        *)
(* process ends: an open transaction is rolled back, the cache is as it is.*)
Fails(p) ==
  /\ job[p] # Idle
  /\ Done(p)
  /\ UNCHANGED <<user, user_role, cache, minted>>

-----------------------------------------------------------------------------
(* Login.ParseUserID.  Tokens outlive their user.  On a cache hit the      *)
(* request is admitted with the cached roles, whatever the status, and     *)
(* nothing changes: only a miss is a step.                                 *)

CacheMiss(p, u) ==
  /\ u <= minted /\ cache[u] = None
  /\ Starts(p, [Idle EXCEPT !.op = "admit", !.at = "status", !.user = u])
  /\ UNCHANGED <<user, user_role, cache, minted>>

ReadStatus(p) ==
  /\ Step(p, "admit", "status")
  /\ IF Activated(job[p].user) THEN Goto(p, "roles") ELSE Done(p)
  /\ UNCHANGED <<user, user_role, cache, minted>>

(* UserBIZ.GetRoleIDs, for ParseUserID and Login.                          *)
GetRoleIDs(p) ==
  /\ job[p].at = "roles"
  /\ job' = [job EXCEPT ![p].at = "fill", ![p].roles = RolesOf(job[p].user)]
  /\ UNCHANGED <<user, user_role, cache, minted>>

CacheSet(p) == job[p].at = "fill" /\ Fill(p, job[p].user)

-----------------------------------------------------------------------------
(* Login.Login and Login.UpdatePassword.  An incorrect password ends them; *)
(* that is one of the ways a job Fails.                                    *)

Login(p, n) ==
  /\ Named(n) # {} /\ Activated(ByName(n))
  /\ Starts(p, [Idle EXCEPT !.op = "admit", !.at = "roles", !.user = ByName(n)])
  /\ UNCHANGED <<user, user_role, cache, minted>>

UpdatePassword(p, u) ==
  /\ Exists(u)
  /\ Starts(p, [Idle EXCEPT !.op = "password", !.at = "set", !.user = u, !.form = "own"])
  /\ UNCHANGED <<user, user_role, cache, minted>>

(* User.ResetPassword, up to its statement.                                *)
ResetPassword(p, u) ==
  /\ Exists(u)
  /\ Starts(p, [Idle EXCEPT !.op = "password", !.at = "set", !.user = u, !.form = "default"])
  /\ UNCHANGED <<user, user_role, cache, minted>>

UpdatePasswordByID(p) ==
  /\ Step(p, "password", "set")
  /\ LET u == job[p].user IN
       /\ ~Locked(u)
       /\ user' = WithPassword(u, job[p].form)
       /\ CommitDone(p, u, None)
  /\ UNCHANGED <<user_role, cache, minted>>

-----------------------------------------------------------------------------
(* User.Create.                                                            *)

CreateUnchecked(p, n) ==   \* mutant: the name is not looked for
  /\ minted < MaxUsers
  /\ Starts(p, [Idle EXCEPT !.op = "create", !.at = "insert", !.user = minted + 1, !.name = n])
  /\ minted' = minted + 1
  /\ UNCHANGED <<user, user_role, cache>>

Create(p, n) ==
  /\ minted < MaxUsers
  /\ Named(n) = {}
  /\ Starts(p, [Idle EXCEPT !.op = "create", !.at = "insert", !.user = minted + 1, !.name = n])
  /\ minted' = minted + 1
  /\ UNCHANGED <<user, user_role, cache>>

(* The row and its roles, in one transaction; no password: the default.    *)
CreateCommit(p) ==
  /\ Step(p, "create", "insert")
  /\ \E st \in Statuses, pw \in Passwords, rs \in SUBSET Roles :
       /\ user' = [user EXCEPT ![job[p].user] = [name |-> job[p].name, status |-> st, pw |-> pw]]
       /\ user_role' = WithRoles(job[p].user, {}, rs)
  /\ CommitDone(p, job[p].user, job[p].name)
  /\ UNCHANGED <<cache, minted>>

-----------------------------------------------------------------------------
(* User.Update and User.Delete.                                            *)

(* UserForm.FillTo on the row read: a form without a password leaves it.   *)
FillToDefault(row, form) ==   \* mutant: as in Create, the default then
  IF form = None THEN "default" ELSE form

FillToEmpty(row, form) == form   \* mutant: the password is written as it came

FillTo(row, form) == IF form = None THEN row.pw ELSE form

Update(p, u, n, form) ==
  /\ Exists(u)
  /\ Starts(p, [Idle EXCEPT !.op = "update", !.user = u, !.name = n, !.form = form,
                            !.pw = FillTo(user[u], form),
                            !.at = IF user[u].name = n THEN "write" ELSE "name"])
  /\ UNCHANGED <<user, user_role, cache, minted>>

ExistsUsername(p) ==
  /\ Step(p, "update", "name")
  /\ IF Named(job[p].name) = {} THEN Goto(p, "write") ELSE Done(p)
  /\ UNCHANGED <<user, user_role, cache, minted>>

Delete(p, u) ==
  /\ Exists(u)
  /\ Starts(p, [Idle EXCEPT !.op = "delete", !.at = "write", !.user = u])
  /\ UNCHANGED <<user, user_role, cache, minted>>

(* The statements of the transaction, then the deletion of the entry.      *)
WriteNotEvicting(p) ==   \* mutant: the cache entry stays
  /\ job[p].at = "write"
  /\ ~Locked(job[p].user)
  /\ job' = [job EXCEPT ![p].at = "commit", ![p].roles = user_role[job[p].user]]
  /\ UNCHANGED <<user, user_role, cache, minted>>

Write(p) ==
  /\ job[p].at = "write"
  /\ ~Locked(job[p].user)
  /\ job' = [job EXCEPT ![p].at = "commit", ![p].roles = user_role[job[p].user]]
  /\ cache' = [cache EXCEPT ![job[p].user] = None]
  /\ UNCHANGED <<user, user_role, minted>>

(* The whole row is written, whatever others did to it since it was read.  *)
(* A row that is gone is not updated, and its roles are inserted.          *)
UpdateCommit(p) ==
  /\ Step(p, "update", "commit")
  /\ \E st \in Statuses, rs \in SUBSET Roles :
       LET u   == job[p].user
           row == [name |-> job[p].name, status |-> st, pw |-> job[p].pw]
       IN  /\ user' = Updated(u, row)
           /\ user_role' = WithRoles(u, job[p].roles, rs)
           /\ CommitDone(p, u, IF Exists(u) THEN job[p].name ELSE None)
  /\ UNCHANGED <<cache, minted>>

DeleteCommitRowOnly(p) ==   \* mutant: DeleteByUserID not called
  /\ Step(p, "delete", "commit")
  /\ user' = [user EXCEPT ![job[p].user] = None]
  /\ CommitDone(p, job[p].user, None)
  /\ UNCHANGED <<user_role, cache, minted>>

DeleteCommit(p) ==
  /\ Step(p, "delete", "commit")
  /\ user' = [user EXCEPT ![job[p].user] = None]
  /\ user_role' = WithRoles(job[p].user, job[p].roles, {})
  /\ CommitDone(p, job[p].user, None)
  /\ UNCHANGED <<cache, minted>>

-----------------------------------------------------------------------------
(* Role.Delete takes the role from all users, in one transaction, and      *)
(* leaves the cache alone.  It waits for a transaction that has deleted     *)
(* rows it is to delete.  Those who read a user's roles are passed by it.   *)

ReadersPassed(r) ==
  job' = [q \in Procs |->
    IF job[q].op = "admit" /\ r \in user_role[job[q].user]
    THEN [job[q] EXCEPT !.passed = @ \cup {"rows"}] ELSE job[q]]

DeleteRole(r) ==
  /\ \E u \in Users : r \in user_role[u]
  /\ \A p \in Procs : job[p].at = "commit" => r \notin job[p].roles
  /\ user_role' = [u \in Users |-> user_role[u] \ {r}]
  /\ ReadersPassed(r)
  /\ UNCHANGED <<user, cache, minted>>

-----------------------------------------------------------------------------

(* The handlers of the two APIs: parse the request, call the operation and *)
(* answer.  ParseUserID is the middleware's, before any of them.           *)
UserAPI(p) ==
  \/ \E n \in Names : Create(p, n)
  \/ \E u \in Users, n \in Names, form \in {None, "own"} : Update(p, u, n, form)
  \/ \E u \in Users : Delete(p, u) \/ ResetPassword(p, u)

LoginAPI(p) ==
  \/ \E n \in Names : Login(p, n)
  \/ \E u \in Users : UpdatePassword(p, u)

Begin(p) ==
  \/ \E u \in Users : CacheMiss(p, u)
  \/ LoginAPI(p)
  \/ UserAPI(p)

Continue(p) ==
  \/ ReadStatus(p) \/ GetRoleIDs(p) \/ CacheSet(p)
  \/ UpdatePasswordByID(p)
  \/ CreateCommit(p)
  \/ ExistsUsername(p) \/ Write(p) \/ UpdateCommit(p) \/ DeleteCommit(p)

Next ==
  \/ \E p \in Procs : Begin(p) \/ Continue(p) \/ Fails(p)
  \/ \E u \in Users : Forget(u)
  \/ \E r \in Roles : DeleteRole(r)

Spec == Init /\ [][Next]_vars

-----------------------------------------------------------------------------
(* Properties.                                                             *)

Jobs == [op : {"none", "admit", "password", "create", "update", "delete"},
         at : {"idle", "status", "roles", "fill", "set", "insert", "name",
               "write", "commit"},
         user : 0..MaxUsers, name : Names \cup {None}, pw : Passwords \cup {None},
         form : Passwords \cup {None}, roles : SUBSET Roles,
         passed : SUBSET {"rows", "name", "cache"}]

(* Every variable holds a value of its column or field.                    *)
TypeOK ==
  /\ user \in [Users -> Rows \cup {None}]
  /\ user_role \in [Users -> SUBSET Roles]
  /\ cache \in [Users -> {None} \cup SUBSET Roles]
  /\ minted \in 0..MaxUsers
  /\ job \in [Procs -> Jobs]

(* The job of p that ends with this step, one of ops, on user u.           *)
Ends(p, ops) == job[p].op \in ops /\ job'[p] = Idle
Passed(p, by) == by \in job[p].passed

(* An entry is stale when its user is no longer activated, or no longer    *)
(* exists, or has other roles.  ParseUserID asks nobody else on a hit.     *)
Stale(u) == cache[u] # None /\ (~Activated(u) \/ cache[u] # RolesOf(u))

(* The step of no process that takes a role from everybody.                *)
RoleDeleted(r) ==
  /\ \A u \in Users : user_role'[u] = user_role[u] \ {r}
  /\ \A p \in Procs : job'[p].at = job[p].at

(* The entry of a user becomes stale in three ways only: it is filled from *)
(* reads that a commit has passed; it was filled between the deletion of   *)
(* the entry inside a transaction and the commit (user.biz.go:170,190,     *)
(* login.biz.go:62-86); or one of its roles is deleted (role.biz.go:169).  *)
EntriesExplained ==
  [][\A u \in Users : Stale(u)' /\ ~Stale(u) =>
       \/ \E p \in Procs : /\ job[p].user = u
                           /\ \/ Ends(p, {"admit"}) /\ Passed(p, "rows")
                              \/ Ends(p, {"update", "delete"}) /\ Passed(p, "cache")
       \/ \E r \in cache[u] : RoleDeleted(r)]_vars

(* A password changes by a request to change or reset it, by an edit that  *)
(* brings one, or by an edit that was passed: one that read the row before *)
(* another commit puts back the password it read (user.biz.go:129-149).    *)
PasswordKept ==
  [][\A u \in Users :
       user[u] # None /\ user'[u] # None /\ user[u].pw # user'[u].pw =>
         \E p \in Procs : /\ job[p].user = u
                          /\ \/ Ends(p, {"password"})
                             \/ Ends(p, {"update"}) /\ job[p].form # None
                             \/ Ends(p, {"update"}) /\ Passed(p, "rows")]_vars

(* A user who is gone has roles only through an edit that the deletion     *)
(* passed: it updates no row and inserts the roles (user.biz.go:148-168).  *)
Orphaned(u) == user[u] = None /\ user_role[u] # {}

OrphansNeedOverlap ==
  [][\A u \in Users : Orphaned(u)' /\ ~Orphaned(u) =>
       \E p \in Procs : Ends(p, {"update"}) /\ job[p].user = u /\ Passed(p, "rows")]_vars

(* Two users come to have one name only when one of them took it after the *)
(* other had looked for it (user.biz.go:84-89,134-140), for no index       *)
(* forbids it; or when an edit puts back the name it read, which another   *)
(* commit had changed meanwhile and a third user had doubled before.       *)
Doubled(n) == Cardinality(Named(n)) > 1

DoubledNamesNeedOverlap ==
  [][\A n \in Names : Doubled(n)' /\ ~Doubled(n) =>
       \E p \in Procs : /\ job[p].name = n
                        /\ \/ Ends(p, {"create", "update"}) /\ Passed(p, "name")
                           \/ Ends(p, {"update"}) /\ Passed(p, "rows")]_vars

=============================================================================
