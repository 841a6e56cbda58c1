-------------------------- MODULE Accounts_proofs --------------------------
(***************************************************************************)
(* Proofs about Accounts, for any processes, names and roles and any       *)
(* number of users: the inductive invariant AInv, and from it what a step  *)
(* may do to the cache of roles, to a password, to the roles of a user who *)
(* is gone and to a name.                                                  *)
(***************************************************************************)
EXTENDS Accounts, NumberLemmas

-----------------------------------------------------------------------------
(* The inductive invariant.                                                *)

(* What a job of each kind carries, and where it can be.                   *)
Started(p) == job[p].user \in 1..minted

JobShape(p) ==
  \/ job[p].op = "none" /\ job[p].at = "idle" /\ job[p].user = 0
  \/ job[p].op = "admit" /\ job[p].at \in {"status", "roles", "fill"} /\ Started(p)
  \/ job[p].op = "password" /\ job[p].at = "set" /\ job[p].form \in Passwords /\ Started(p)
  \/ job[p].op = "create" /\ job[p].at = "insert" /\ job[p].name \in Names /\ Started(p)
  \/ /\ job[p].op = "update" /\ job[p].at \in {"name", "write", "commit"} /\ Started(p)
     /\ job[p].name \in Names /\ job[p].pw \in Passwords
     /\ job[p].form # None => job[p].pw = job[p].form
  \/ job[p].op = "delete" /\ job[p].at \in {"write", "commit"} /\ Started(p)

Shapes == \A p \in Procs : JobShape(p)

(* A user who is being created has no row and no roles yet, and only those *)
(* who come with a token may meet that id.                                 *)
Unborn(u) == user[u] = None /\ user_role[u] = {}

CreatorsAlone ==
  /\ \A u \in Users : u > minted => Unborn(u)
  /\ \A p \in Procs : job[p].op = "create" => Unborn(job[p].user)
  /\ \A p, q \in Procs :
       job[p].op = "create" /\ job[q].user = job[p].user /\ q # p => job[q].op = "admit"

(* What a job has read is still so, unless a commit has passed it.         *)
StatusRead(p) ==
  job[p].op = "admit" /\ ~Passed(p, "rows") =>
    /\ job[p].at \in {"roles", "fill"} => Activated(job[p].user)
    /\ job[p].at = "fill" => job[p].roles = user_role[job[p].user]

RowRead(p) ==
  job[p].op = "update" /\ ~Passed(p, "rows") =>
    /\ Exists(job[p].user)
    /\ job[p].form = None => job[p].pw = user[job[p].user].pw

NameFree(p) ==
  /\ job[p].op = "create" /\ ~Passed(p, "name") => Named(job[p].name) = {}
  /\ job[p].op = "update" /\ job[p].at \in {"write", "commit"}
       /\ ~Passed(p, "name") /\ ~Passed(p, "rows") =>
       Named(job[p].name) = {} \/ user[job[p].user].name = job[p].name

ReadsKept == \A p \in Procs : StatusRead(p) /\ RowRead(p) /\ NameFree(p)

(* An open transaction has deleted the entry, and holds the row and all    *)
(* its roles.                                                              *)
EntryDeleted(p) ==
  job[p].at = "commit" /\ ~Passed(p, "cache") => cache[job[p].user] = None

RowHeld(p) ==
  job[p].at = "commit" /\ Exists(job[p].user) =>
    /\ user_role[job[p].user] \subseteq job[p].roles
    /\ \A q \in Procs : job[q].at = "commit" /\ job[q].user = job[p].user => q = p

Transactions == \A p \in Procs : EntryDeleted(p) /\ RowHeld(p)

AInv == TypeOK /\ Shapes /\ CreatorsAlone /\ ReadsKept /\ Transactions

-----------------------------------------------------------------------------
(* The jobs.                                                               *)

LEMMA Constants ==
  /\ MaxUsers \in Nat /\ Users = 1..MaxUsers /\ IsFiniteSet(Users)
  /\ None \notin Names /\ None \notin Passwords /\ None \notin Rows
  /\ None \notin SUBSET Roles
<1>1. MaxUsers \in Nat /\ Users = 1..MaxUsers
  BY AccountsAssumption DEF AccountsAssumption, Users
<1>2. IsFiniteSet(Users)
  BY <1>1, FS_Interval
<1> QED
  BY <1>1, <1>2, AccountsAssumption DEF AccountsAssumption, Rows

LEMMA IdleTypes ==
  /\ Idle \in Jobs /\ Idle.op = "none" /\ Idle.at = "idle" /\ Idle.user = 0
  /\ Idle.name = None /\ Idle.pw = None /\ Idle.form = None
  /\ Idle.roles = {} /\ Idle.passed = {}
BY Constants DEF Idle, Jobs

(* What a step of p does to the job of another process.                    *)
Around(q) ==
  \E by \in SUBSET {"rows", "name", "cache"} :
    job'[q] = [job[q] EXCEPT !.passed = @ \cup by]

StepOf(p) ==
  /\ job' = [q \in Procs |-> job'[q]]
  /\ \A q \in Procs \ {p} : Around(q)

LEMMA AroundFields ==
  ASSUME TypeOK, NEW q \in Procs, Around(q)
  PROVE  /\ job'[q].op = job[q].op /\ job'[q].at = job[q].at
         /\ job'[q].user = job[q].user /\ job'[q].name = job[q].name
         /\ job'[q].pw = job[q].pw /\ job'[q].form = job[q].form
         /\ job'[q].roles = job[q].roles
         /\ job[q].passed \subseteq job'[q].passed
         /\ job'[q] \in Jobs
<1>1. job[q] \in Jobs
  BY DEF TypeOK
<1>2. PICK by \in SUBSET {"rows", "name", "cache"} :
         job'[q] = [job[q] EXCEPT !.passed = @ \cup by]
  BY DEF Around
<1>3. /\ job'[q].op = job[q].op /\ job'[q].at = job[q].at
      /\ job'[q].user = job[q].user /\ job'[q].name = job[q].name
      /\ job'[q].pw = job[q].pw /\ job'[q].form = job[q].form
      /\ job'[q].roles = job[q].roles
      /\ job'[q].passed = job[q].passed \cup by
      /\ job'[q] \in Jobs
  BY <1>1, <1>2 DEF Jobs
<1> QED
  BY <1>3

LEMMA SetOne ==
  ASSUME TypeOK, NEW p \in Procs, NEW new, job' = [job EXCEPT ![p] = new]
  PROVE  StepOf(p) /\ job'[p] = new
<1>1. ASSUME NEW q \in Procs \ {p}
      PROVE  Around(q)
  <2>1. job'[q] = job[q] /\ job[q] \in Jobs
    BY DEF TypeOK
  <2>2. job[q] = [job[q] EXCEPT !.passed = @ \cup {}]
    BY <2>1 DEF Jobs
  <2> QED
    BY <2>1, <2>2 DEF Around
<1> QED
  BY <1>1 DEF StepOf, TypeOK

LEMMA CommitMarks ==
  ASSUME TypeOK, NEW p \in Procs, NEW u, NEW n, CommitDone(p, u, n)
  PROVE  /\ StepOf(p) /\ job'[p] = Idle
         /\ \A q \in Procs \ {p} : PassedBy(job[q], u, n) \subseteq job'[q].passed
<1>1. ASSUME NEW q \in Procs \ {p}
      PROVE  Around(q) /\ PassedBy(job[q], u, n) \subseteq job'[q].passed
  <2> DEFINE by == PassedBy(job[q], u, n)
  <2>1. job'[q] = [job[q] EXCEPT !.passed = @ \cup by]
    BY DEF CommitDone
  <2>2. by \in SUBSET {"rows", "name", "cache"}
    BY DEF PassedBy
  <2> HIDE DEF by
  <2>3. job[q] \in Jobs
    BY DEF TypeOK
  <2>4. by \subseteq job'[q].passed
    BY <2>1, <2>3 DEF Jobs
  <2>5. Around(q)
    BY <2>1, <2>2 DEF Around
  <2> QED
    BY <2>4, <2>5 DEF by
<1> QED
  BY <1>1 DEF CommitDone, StepOf

LEMMA FillMarks ==
  ASSUME TypeOK, NEW p \in Procs, NEW u, Fill(p, u)
  PROVE  /\ StepOf(p) /\ job'[p] = Idle
         /\ \A q \in Procs \ {p} :
              job[q].at = "commit" /\ job[q].user = u => "cache" \in job'[q].passed
<1>1. ASSUME NEW q \in Procs \ {p}
      PROVE  /\ Around(q)
             /\ job[q].at = "commit" /\ job[q].user = u => "cache" \in job'[q].passed
  <2>1. job[q] \in Jobs
    BY DEF TypeOK
  <2>2. CASE job[q].at = "commit" /\ job[q].user = u
    <3>1. job'[q] = [job[q] EXCEPT !.passed = @ \cup {"cache"}]
      BY <2>2 DEF Fill
    <3> QED
      BY <2>1, <3>1 DEF Around, Jobs
  <2>3. CASE ~(job[q].at = "commit" /\ job[q].user = u)
    <3>1. job'[q] = job[q]
      BY <2>3 DEF Fill
    <3>2. job[q] = [job[q] EXCEPT !.passed = @ \cup {}]
      BY <2>1 DEF Jobs
    <3> QED
      BY <2>3, <3>1, <3>2 DEF Around
  <2> QED
    BY <2>2, <2>3
<1> QED
  BY <1>1 DEF Fill, StepOf

LEMMA DeletionMarks ==
  ASSUME TypeOK, NEW r \in Roles, ReadersPassed(r)
  PROVE  /\ job' = [q \in Procs |-> job'[q]]
         /\ \A q \in Procs : Around(q)
         /\ \A q \in Procs : job[q].op = "admit" /\ r \in user_role[job[q].user]
                               => "rows" \in job'[q].passed
<1>1. ASSUME NEW q \in Procs
      PROVE  /\ Around(q)
             /\ job[q].op = "admit" /\ r \in user_role[job[q].user]
                  => "rows" \in job'[q].passed
  <2>1. job[q] \in Jobs
    BY DEF TypeOK
  <2>2. CASE job[q].op = "admit" /\ r \in user_role[job[q].user]
    <3>1. job'[q] = [job[q] EXCEPT !.passed = @ \cup {"rows"}]
      BY <2>2 DEF ReadersPassed
    <3> QED
      BY <2>1, <3>1 DEF Around, Jobs
  <2>3. CASE ~(job[q].op = "admit" /\ r \in user_role[job[q].user])
    <3>1. job'[q] = job[q]
      BY <2>3 DEF ReadersPassed
    <3>2. job[q] = [job[q] EXCEPT !.passed = @ \cup {}]
      BY <2>1 DEF Jobs
    <3> QED
      BY <2>3, <3>1, <3>2 DEF Around
  <2> QED
    BY <2>2, <2>3
<1> QED
  BY <1>1 DEF ReadersPassed

(* First finds a user of that name when there is one.                      *)
LEMMA FirstNamed ==
  ASSUME NEW n, Named(n) # {}
  PROVE  ByName(n) \in Named(n)
<1>1. Named(n) \in SUBSET Nat
  BY Constants DEF Named
<1>2. \E u \in Named(n) : \A v \in Named(n) : u <= v
  BY <1>1, LeastNumber
<1> QED
  BY <1>2 DEF ByName

LEMMA StartedUsers ==
  ASSUME TypeOK
  PROVE  minted \in Nat /\ 1..minted \subseteq Users
BY Constants DEF TypeOK

-----------------------------------------------------------------------------
(* The types and the shapes of the jobs.                                   *)

(* A step that leaves p a job of the right kind leaves everyone one.       *)
LEMMA JobsStay ==
  ASSUME TypeOK, Shapes, NEW p \in Procs, StepOf(p), minted' \in 0..MaxUsers,
         minted' >= minted, job'[p] \in Jobs, JobShape(p)'
  PROVE  job' \in [Procs -> Jobs] /\ Shapes'
<1>1. ASSUME NEW q \in Procs \ {p}
      PROVE  job'[q] \in Jobs /\ JobShape(q)'
  <2>1. Around(q)
    BY DEF StepOf
  <2>2. /\ job'[q].op = job[q].op /\ job'[q].at = job[q].at
        /\ job'[q].user = job[q].user /\ job'[q].name = job[q].name
        /\ job'[q].pw = job[q].pw /\ job'[q].form = job[q].form
        /\ job'[q] \in Jobs
    BY <2>1, AroundFields
  <2>3. Started(q) => Started(q)'
    BY <2>2, Constants DEF Started, TypeOK
  <2>4. JobShape(q)
    BY DEF Shapes
  <2> QED
    BY <2>2, <2>3, <2>4 DEF JobShape
<1>2. \A q \in Procs : job'[q] \in Jobs /\ JobShape(q)'
  BY <1>1
<1>3. job' \in [Procs -> Jobs]
  BY <1>2 DEF StepOf
<1> QED
  BY <1>2, <1>3 DEF Shapes

LEMMA EndStays ==
  ASSUME TypeOK, Shapes, NEW p \in Procs, StepOf(p), minted' = minted, job'[p] = Idle
  PROVE  job' \in [Procs -> Jobs] /\ Shapes'
<1>1. job'[p] \in Jobs /\ JobShape(p)'
  BY IdleTypes DEF JobShape
<1>2. minted' \in 0..MaxUsers /\ minted' >= minted
  BY Constants DEF TypeOK
<1> QED
  BY <1>1, <1>2, JobsStay

LEMMA TypesKept ==
  ASSUME AInv, [Next]_vars
  PROVE  TypeOK' /\ Shapes'
<1> USE DEF AInv
<1>0. /\ MaxUsers \in Nat /\ minted \in Nat /\ minted \in 0..MaxUsers
      /\ minted >= minted /\ Users = 1..MaxUsers
      /\ None \notin Names /\ None \notin Passwords
      /\ Users \subseteq 0..MaxUsers
  BY Constants DEF TypeOK
<1>1. CASE UNCHANGED vars
  BY <1>1 DEF vars, TypeOK, Shapes, JobShape, Started
<1>2. ASSUME NEW p \in Procs, UNCHANGED <<user, user_role, cache, minted>>,
             StepOf(p), job'[p] \in Jobs, JobShape(p)'
      PROVE  TypeOK' /\ Shapes'
  <2>1. job' \in [Procs -> Jobs] /\ Shapes'
    BY <1>0, <1>2, JobsStay
  <2> QED
    BY <1>2, <2>1 DEF TypeOK
<1>3. ASSUME NEW p \in Procs, UNCHANGED <<user, user_role, cache, minted>>, Done(p)
      PROVE  TypeOK' /\ Shapes'
  <2>1. StepOf(p) /\ job'[p] = Idle
    BY <1>3, SetOne DEF Done
  <2>2. job'[p] \in Jobs /\ JobShape(p)'
    BY <2>1, IdleTypes DEF JobShape
  <2> QED
    BY <1>2, <1>3, <2>1, <2>2
<1>4. ASSUME NEW p \in Procs, UNCHANGED <<user, user_role, cache, minted>>,
             NEW new \in Jobs, Starts(p, new), new.user \in 1..minted,
             \/ new.op = "admit" /\ new.at \in {"status", "roles", "fill"}
             \/ new.op = "password" /\ new.at = "set" /\ new.form \in Passwords
             \/ /\ new.op = "update" /\ new.at \in {"name", "write"}
                /\ new.name \in Names /\ new.pw \in Passwords
                /\ new.form # None => new.pw = new.form
             \/ new.op = "delete" /\ new.at = "write"
      PROVE  TypeOK' /\ Shapes'
  <2>1. StepOf(p) /\ job'[p] = new
    BY <1>4, SetOne DEF Starts
  <2>2. JobShape(p)'
    BY <1>4, <2>1 DEF JobShape, Started
  <2> QED
    BY <1>2, <1>4, <2>1, <2>2
<1>5. ASSUME NEW u \in Users, Exists(u) \/ u <= minted
      PROVE  u \in 1..minted
  BY <1>0, <1>5 DEF CreatorsAlone, Unborn, Exists
<1>6. ASSUME NEW p \in Procs, NEW u \in Users, CacheMiss(p, u)
      PROVE  TypeOK' /\ Shapes'
  <2> DEFINE new == [Idle EXCEPT !.op = "admit", !.at = "status", !.user = u]
  <2>1. new \in Jobs /\ new.op = "admit" /\ new.at = "status" /\ new.user = u
    BY <1>0, u \in 0..MaxUsers, IdleTypes DEF Jobs
  <2>2. u \in 1..minted /\ Starts(p, new) /\ UNCHANGED <<user, user_role, cache, minted>>
    BY <1>5, <1>6 DEF CacheMiss
  <2> HIDE DEF new
  <2> QED
    BY <1>4, <2>1, <2>2
<1>7. ASSUME NEW p \in Procs, NEW n \in Names, Login(p, n)
      PROVE  TypeOK' /\ Shapes'
  <2> DEFINE u == ByName(n)
             new == [Idle EXCEPT !.op = "admit", !.at = "roles", !.user = u]
  <2>1. u \in Users /\ Exists(u)
    BY <1>7, FirstNamed DEF Login, Named
  <2> HIDE DEF u
  <2>2. new \in Jobs /\ new.op = "admit" /\ new.at = "roles" /\ new.user = u
    BY <1>0, <2>1, u \in 0..MaxUsers, IdleTypes DEF Jobs
  <2>3. u \in 1..minted /\ Starts(p, new) /\ UNCHANGED <<user, user_role, cache, minted>>
    BY <1>5, <1>7, <2>1 DEF Login, u
  <2> HIDE DEF new
  <2> QED
    BY <1>4, <2>2, <2>3
<1>8. ASSUME NEW p \in Procs, NEW u \in Users, NEW form \in Passwords, Exists(u),
             Starts(p, [Idle EXCEPT !.op = "password", !.at = "set", !.user = u,
                                    !.form = form]),
             UNCHANGED <<user, user_role, cache, minted>>
      PROVE  TypeOK' /\ Shapes'
  <2> DEFINE new == [Idle EXCEPT !.op = "password", !.at = "set", !.user = u,
                                 !.form = form]
  <2>1. /\ new \in Jobs /\ new.op = "password" /\ new.at = "set" /\ new.user = u
        /\ new.form = form
    BY <1>0, u \in 0..MaxUsers, IdleTypes DEF Jobs
  <2>2. u \in 1..minted /\ Starts(p, new)
    BY <1>5, <1>8
  <2> HIDE DEF new
  <2> QED
    BY <1>4, <1>8, <2>1, <2>2
<1>9. ASSUME NEW p \in Procs, NEW u \in Users, UpdatePassword(p, u) \/ ResetPassword(p, u)
      PROVE  TypeOK' /\ Shapes'
  <2>1. {"own", "default"} \subseteq Passwords
    BY DEF Passwords
  <2>2. CASE UpdatePassword(p, u)
    BY <1>8, <2>1, <2>2 DEF UpdatePassword
  <2>3. CASE ResetPassword(p, u)
    BY <1>8, <2>1, <2>3 DEF ResetPassword
  <2> QED
    BY <1>9, <2>2, <2>3
<1>10. ASSUME NEW p \in Procs, NEW n \in Names, Create(p, n)
       PROVE  TypeOK' /\ Shapes'
  <2> DEFINE new == [Idle EXCEPT !.op = "create", !.at = "insert",
                                 !.user = minted + 1, !.name = n]
  <2>1. minted < MaxUsers /\ minted' = minted + 1 /\ UNCHANGED <<user, user_role, cache>>
    BY <1>10 DEF Create
  <2>2. minted' \in 0..MaxUsers /\ minted' >= minted /\ minted + 1 \in 0..MaxUsers
    BY <1>0, <2>1
  <2>3. /\ new \in Jobs /\ new.op = "create" /\ new.at = "insert"
        /\ new.user = minted + 1 /\ new.name = n
    BY <2>2, IdleTypes DEF Jobs
  <2>4. StepOf(p) /\ job'[p] = new
    BY <1>10, SetOne DEF Create, Starts
  <2> HIDE DEF new
  <2>5. JobShape(p)'
    BY <1>0, <2>1, <2>2, <2>3, <2>4 DEF JobShape, Started
  <2>6. job' \in [Procs -> Jobs] /\ Shapes'
    BY <2>2, <2>3, <2>4, <2>5, JobsStay
  <2> QED
    BY <2>1, <2>2, <2>6 DEF TypeOK
<1>11. ASSUME NEW p \in Procs, NEW u \in Users, NEW n \in Names,
              NEW form \in {None, "own"}, Update(p, u, n, form)
       PROVE  TypeOK' /\ Shapes'
  <2> DEFINE pw  == FillTo(user[u], form)
             at  == IF user[u].name = n THEN "write" ELSE "name"
             new == [Idle EXCEPT !.op = "update", !.user = u, !.name = n,
                                 !.form = form, !.pw = pw, !.at = at]
  <2>1. Exists(u) /\ user[u] \in Rows
    BY <1>11 DEF Update, Exists, TypeOK
  <2>2. /\ pw \in Passwords /\ form \in Passwords \cup {None}
        /\ form # None => pw = form
    BY <2>1 DEF FillTo, Rows, Passwords
  <2>3. at \in {"name", "write"}
    OBVIOUS
  <2>4. Starts(p, new) /\ UNCHANGED <<user, user_role, cache, minted>>
    BY <1>11 DEF Update
  <2> HIDE DEF pw, at
  <2>5. /\ new \in Jobs /\ new.op = "update" /\ new.at = at /\ new.user = u
        /\ new.name = n /\ new.pw = pw /\ new.form = form
    BY <1>0, <2>2, <2>3, u \in 0..MaxUsers, IdleTypes DEF Jobs
  <2>6. u \in 1..minted
    BY <1>5, <2>1
  <2> HIDE DEF new
  <2> QED
    BY <1>4, <2>2, <2>3, <2>4, <2>5, <2>6
<1>12. ASSUME NEW p \in Procs, NEW u \in Users, Delete(p, u)
       PROVE  TypeOK' /\ Shapes'
  <2> DEFINE new == [Idle EXCEPT !.op = "delete", !.at = "write", !.user = u]
  <2>1. new \in Jobs /\ new.op = "delete" /\ new.at = "write" /\ new.user = u
    BY <1>0, u \in 0..MaxUsers, IdleTypes DEF Jobs
  <2>2. u \in 1..minted /\ Starts(p, new) /\ UNCHANGED <<user, user_role, cache, minted>>
    BY <1>5, <1>12 DEF Delete
  <2> HIDE DEF new
  <2> QED
    BY <1>4, <2>1, <2>2
<1>13. ASSUME NEW p \in Procs, NEW label,
              \/ Step(p, "admit", "status") /\ label = "roles"
              \/ Step(p, "update", "name") /\ label = "write",
              Goto(p, label), UNCHANGED <<user, user_role, cache, minted>>
       PROVE  TypeOK' /\ Shapes'
  <2>1. job[p] \in Jobs /\ JobShape(p)
    BY DEF TypeOK, Shapes
  <2>2. StepOf(p) /\ job'[p] = [job[p] EXCEPT !.at = label]
    <3>1. job' = [job EXCEPT ![p] = [job[p] EXCEPT !.at = label]]
      BY <1>13 DEF Goto
    <3> QED
      BY <3>1, SetOne
  <2>5. label \in {"roles", "write"}
    BY <1>13
  <2>3. /\ job'[p] \in Jobs /\ job'[p].op = job[p].op /\ job'[p].at = label
        /\ job'[p].user = job[p].user /\ job'[p].name = job[p].name
        /\ job'[p].pw = job[p].pw /\ job'[p].form = job[p].form
    BY <2>1, <2>2, <2>5 DEF Jobs
  <2>4. JobShape(p)'
    BY <1>13, <2>1, <2>3 DEF JobShape, Step, Started
  <2> QED
    BY <1>2, <1>13, <2>2, <2>3, <2>4
<1>14. ASSUME NEW p \in Procs, ReadStatus(p) \/ ExistsUsername(p)
       PROVE  TypeOK' /\ Shapes'
  <2>1. Done(p) \/ ~Done(p)
    OBVIOUS
  <2>2. UNCHANGED <<user, user_role, cache, minted>>
    BY <1>14 DEF ReadStatus, ExistsUsername
  <2>3. CASE ReadStatus(p) /\ ~Done(p)
    <3>1. Step(p, "admit", "status") /\ Goto(p, "roles")
      BY <2>3 DEF ReadStatus
    <3> QED
      BY <1>13, <2>2, <3>1
  <2>4. CASE ExistsUsername(p) /\ ~Done(p)
    <3>1. Step(p, "update", "name") /\ Goto(p, "write")
      BY <2>4 DEF ExistsUsername
    <3> QED
      BY <1>13, <2>2, <3>1
  <2> QED
    BY <1>3, <1>14, <2>1, <2>2, <2>3, <2>4
<1>15. ASSUME NEW p \in Procs, NEW label, NEW rs \in SUBSET Roles,
              \/ job[p].at = "roles" /\ label = "fill"
              \/ job[p].at = "write" /\ label = "commit",
              job' = [job EXCEPT ![p].at = label, ![p].roles = rs],
              minted' = minted
       PROVE  job' \in [Procs -> Jobs] /\ Shapes'
  <2>1. job[p] \in Jobs /\ JobShape(p)
    BY DEF TypeOK, Shapes
  <2> DEFINE new == [job[p] EXCEPT !.at = label, !.roles = rs]
  <2>2. StepOf(p) /\ job'[p] = new
    <3>1. job' = [job EXCEPT ![p] = new]
      BY <1>15 DEF TypeOK
    <3> QED
      BY <3>1, SetOne
  <2>3. /\ job'[p] \in Jobs /\ job'[p].op = job[p].op /\ job'[p].at = label
        /\ job'[p].user = job[p].user /\ job'[p].name = job[p].name
        /\ job'[p].pw = job[p].pw /\ job'[p].form = job[p].form
    <3>1. label \in {"fill", "commit"}
      BY <1>15
    <3> QED
      BY <2>1, <2>2, <3>1, rs \in SUBSET Roles DEF Jobs
  <2>4. JobShape(p)'
    BY <1>15, <2>1, <2>3 DEF JobShape, Started
  <2> QED
    BY <1>0, <1>15, <2>2, <2>3, <2>4, JobsStay
<1>16. ASSUME NEW p \in Procs, job[p].at \notin {"idle"}
       PROVE  job[p].user \in Users
  BY <1>0, <1>16, StartedUsers DEF Shapes, JobShape, Started
<1>17. ASSUME NEW p \in Procs, GetRoleIDs(p)
       PROVE  TypeOK' /\ Shapes'
  <2>1. user_role[job[p].user] \in SUBSET Roles
    BY <1>16, <1>17 DEF GetRoleIDs, TypeOK
  <2>2. job' \in [Procs -> Jobs] /\ Shapes'
    <3>1. /\ job[p].at = "roles" /\ minted' = minted
          /\ job' = [job EXCEPT ![p].at = "fill", ![p].roles = user_role[job[p].user]]
      BY <1>17 DEF GetRoleIDs, RolesOf
    <3> QED
      BY <1>15, <2>1, <3>1
  <2> QED
    BY <1>17, <2>2 DEF GetRoleIDs, TypeOK
<1>18. ASSUME NEW p \in Procs, Write(p)
       PROVE  TypeOK' /\ Shapes'
  <2>1. user_role[job[p].user] \in SUBSET Roles /\ job[p].user \in Users
    BY <1>16, <1>18 DEF Write, TypeOK
  <2>2. job' \in [Procs -> Jobs] /\ Shapes'
    BY <1>15, <1>18, <2>1 DEF Write
  <2>3. cache' \in [Users -> {None} \cup SUBSET Roles]
    BY <1>18, <2>1 DEF Write, TypeOK
  <2> QED
    BY <1>18, <2>2, <2>3 DEF Write, TypeOK
<1>19. ASSUME NEW p \in Procs, CacheSet(p)
       PROVE  TypeOK' /\ Shapes'
  <2>1. StepOf(p) /\ job'[p] = Idle /\ UNCHANGED <<user, user_role, minted>>
    BY <1>19, FillMarks DEF CacheSet, Fill
  <2>2. job' \in [Procs -> Jobs] /\ Shapes'
    BY <2>1, EndStays
  <2>3. cache' \in [Users -> {None} \cup SUBSET Roles]
    <3>1. job[p].roles \in SUBSET Roles
      BY DEF TypeOK, Jobs
    <3> QED
      BY <1>16, <1>19, <3>1 DEF CacheSet, Fill, TypeOK
  <2> QED
    BY <2>1, <2>2, <2>3 DEF TypeOK
<1>20. ASSUME NEW p \in Procs, UpdatePasswordByID(p)
       PROVE  TypeOK' /\ Shapes'
  <2>1. /\ StepOf(p) /\ job'[p] = Idle /\ UNCHANGED <<user_role, cache, minted>>
        /\ user' = WithPassword(job[p].user, job[p].form)
    BY <1>20, CommitMarks DEF UpdatePasswordByID
  <2>2. job' \in [Procs -> Jobs] /\ Shapes'
    BY <2>1, EndStays
  <2>3. job[p].form \in Passwords /\ job[p].user \in Users
    BY <1>16, <1>20 DEF UpdatePasswordByID, Step, Shapes, JobShape
  <2>4. user' \in [Users -> Rows \cup {None}]
    BY <2>1, <2>3 DEF WithPassword, Exists, TypeOK, Rows
  <2> QED
    BY <2>1, <2>2, <2>4 DEF TypeOK
<1>21. ASSUME NEW u \in Users, NEW gone, NEW rs \in SUBSET Roles,
              user_role' = WithRoles(u, gone, rs)
       PROVE  user_role' \in [Users -> SUBSET Roles]
  BY <1>21 DEF WithRoles, TypeOK
<1>22. ASSUME NEW p \in Procs, CreateCommit(p)
       PROVE  TypeOK' /\ Shapes'
  <2>1. /\ StepOf(p) /\ job'[p] = Idle /\ UNCHANGED <<cache, minted>>
    BY <1>22, CommitMarks DEF CreateCommit
  <2>2. job' \in [Procs -> Jobs] /\ Shapes'
    BY <2>1, EndStays
  <2>3. job[p].name \in Names /\ job[p].user \in Users
    BY <1>16, <1>22 DEF CreateCommit, Step, Shapes, JobShape
  <2>4. PICK st \in Statuses, pw \in Passwords, rs \in SUBSET Roles :
          /\ user' = [user EXCEPT ![job[p].user] =
                        [name |-> job[p].name, status |-> st, pw |-> pw]]
          /\ user_role' = WithRoles(job[p].user, {}, rs)
    BY <1>22 DEF CreateCommit
  <2>5. user' \in [Users -> Rows \cup {None}]
    BY <2>3, <2>4 DEF TypeOK, Rows
  <2>6. user_role' \in [Users -> SUBSET Roles]
    BY <1>21, <2>3, <2>4
  <2> QED
    BY <2>1, <2>2, <2>5, <2>6 DEF TypeOK
<1>23. ASSUME NEW p \in Procs, UpdateCommit(p)
       PROVE  TypeOK' /\ Shapes'
  <2>1. /\ StepOf(p) /\ job'[p] = Idle /\ UNCHANGED <<cache, minted>>
    BY <1>23, CommitMarks DEF UpdateCommit
  <2>2. job' \in [Procs -> Jobs] /\ Shapes'
    BY <2>1, EndStays
  <2>3. job[p].name \in Names /\ job[p].pw \in Passwords /\ job[p].user \in Users
    BY <1>16, <1>23 DEF UpdateCommit, Step, Shapes, JobShape
  <2>4. PICK st \in Statuses, rs \in SUBSET Roles :
          /\ user' = Updated(job[p].user,
                       [name |-> job[p].name, status |-> st, pw |-> job[p].pw])
          /\ user_role' = WithRoles(job[p].user, job[p].roles, rs)
    BY <1>23 DEF UpdateCommit
  <2>5. user' \in [Users -> Rows \cup {None}]
    BY <2>3, <2>4 DEF Updated, TypeOK, Rows
  <2>6. user_role' \in [Users -> SUBSET Roles]
    BY <1>21, <2>3, <2>4
  <2> QED
    BY <2>1, <2>2, <2>5, <2>6 DEF TypeOK
<1>24. ASSUME NEW p \in Procs, DeleteCommit(p)
       PROVE  TypeOK' /\ Shapes'
  <2>1. /\ StepOf(p) /\ job'[p] = Idle /\ UNCHANGED <<cache, minted>>
    BY <1>24, CommitMarks DEF DeleteCommit
  <2>2. job' \in [Procs -> Jobs] /\ Shapes'
    BY <2>1, EndStays
  <2>3. job[p].user \in Users
    BY <1>16, <1>24 DEF DeleteCommit, Step
  <2>4. user' \in [Users -> Rows \cup {None}]
    BY <1>24, <2>3 DEF DeleteCommit, TypeOK
  <2>5. user_role' \in [Users -> SUBSET Roles]
    BY <1>21, <1>24, <2>3 DEF DeleteCommit
  <2> QED
    BY <2>1, <2>2, <2>4, <2>5 DEF TypeOK
<1>25. ASSUME NEW u \in Users, Forget(u)
       PROVE  TypeOK' /\ Shapes'
  BY <1>25 DEF Forget, TypeOK, Shapes, JobShape, Started
<1>26. ASSUME NEW r \in Roles, DeleteRole(r)
       PROVE  TypeOK' /\ Shapes'
  <2>1. /\ job' = [q \in Procs |-> job'[q]] /\ \A q \in Procs : Around(q)
        /\ UNCHANGED <<user, cache, minted>>
        /\ user_role' = [u \in Users |-> user_role[u] \ {r}]
    BY <1>26, DeletionMarks DEF DeleteRole
  <2>2. ASSUME NEW p \in Procs
        PROVE  job'[p] \in Jobs /\ JobShape(p)'
    <3>1. /\ job'[p].op = job[p].op /\ job'[p].at = job[p].at
          /\ job'[p].user = job[p].user /\ job'[p].name = job[p].name
          /\ job'[p].pw = job[p].pw /\ job'[p].form = job[p].form
          /\ job'[p] \in Jobs
      BY <2>1, AroundFields
    <3>2. JobShape(p)
      BY DEF Shapes
    <3> QED
      BY <2>1, <3>1, <3>2 DEF JobShape, Started
  <2>3. job' \in [Procs -> Jobs] /\ Shapes'
    BY <2>1, <2>2 DEF Shapes
  <2>4. user_role' \in [Users -> SUBSET Roles]
    BY <2>1 DEF TypeOK
  <2> QED
    BY <2>1, <2>3, <2>4 DEF TypeOK
<1>27. ASSUME NEW p \in Procs, Fails(p)
       PROVE  TypeOK' /\ Shapes'
  BY <1>3, <1>27 DEF Fails
<1>28. ASSUME NEW p \in Procs, Begin(p)
       PROVE  TypeOK' /\ Shapes'
  BY <1>6, <1>7, <1>9, <1>10, <1>11, <1>12, <1>28 DEF Begin, LoginAPI, UserAPI
<1>29. ASSUME NEW p \in Procs, Continue(p)
       PROVE  TypeOK' /\ Shapes'
  BY <1>14, <1>17, <1>18, <1>19, <1>20, <1>22, <1>23, <1>24, <1>29 DEF Continue
<1> QED
  BY <1>1, <1>25, <1>26, <1>27, <1>28, <1>29 DEF Next

-----------------------------------------------------------------------------
(* The steps of a job that write nothing but the job.                      *)
Quiet == UNCHANGED <<user, user_role, cache, minted>>

GoesOn(p) ==
  /\ job'[p].op = job[p].op /\ job'[p].user = job[p].user
  /\ job'[p].name = job[p].name /\ job'[p].pw = job[p].pw
  /\ job'[p].form = job[p].form /\ job'[p].passed = job[p].passed

Reads(p) ==
  \/ job'[p] = Idle
  \/ /\ job'[p].op = "admit" /\ job'[p].passed = {}
     /\ \/ job'[p].at = "status"
        \/ job'[p].at = "roles" /\ Activated(job'[p].user)
  \/ job'[p].op = "password" /\ job'[p].at = "set" /\ Exists(job'[p].user)
  \/ job'[p].op = "delete" /\ job'[p].at = "write" /\ Exists(job'[p].user)
  \/ /\ job'[p].op = "update" /\ job'[p].passed = {} /\ Exists(job'[p].user)
     /\ job'[p].form = None => job'[p].pw = user[job'[p].user].pw
     /\ \/ job'[p].at = "name"
        \/ job'[p].at = "write" /\ user[job'[p].user].name = job'[p].name
  \/ /\ GoesOn(p) /\ job[p].op = "admit" /\ job[p].at = "status"
     /\ job'[p].at = "roles" /\ Activated(job[p].user)
  \/ /\ GoesOn(p) /\ job[p].op = "admit" /\ job[p].at = "roles"
     /\ job'[p].at = "fill" /\ job'[p].roles = user_role[job[p].user]
  \/ /\ GoesOn(p) /\ job[p].op = "update" /\ job[p].at = "name"
     /\ job'[p].at = "write" /\ Named(job[p].name) = {}

LEMMA QuietSteps ==
  ASSUME TypeOK, Shapes, NEW p \in Procs,
         \/ \E u \in Users : CacheMiss(p, u) \/ UpdatePassword(p, u)
                               \/ ResetPassword(p, u) \/ Delete(p, u)
         \/ \E n \in Names : Login(p, n)
         \/ \E u \in Users, n \in Names, form \in {None, "own"} : Update(p, u, n, form)
         \/ ReadStatus(p) \/ GetRoleIDs(p) \/ ExistsUsername(p) \/ Fails(p)
  PROVE  Quiet /\ StepOf(p) /\ Reads(p)
<1>1. ASSUME Done(p)
      PROVE  StepOf(p) /\ Reads(p)
  <2>1. StepOf(p) /\ job'[p] = Idle
    BY <1>1, SetOne DEF Done
  <2> QED
    BY <2>1 DEF Reads
<1>2. ASSUME NEW label, Goto(p, label)
      PROVE  /\ StepOf(p) /\ GoesOn(p) /\ job'[p].at = label
  <2>1. job[p] \in Jobs /\ job' = [job EXCEPT ![p] = [job[p] EXCEPT !.at = label]]
    BY <1>2 DEF Goto, TypeOK
  <2>2. StepOf(p) /\ job'[p] = [job[p] EXCEPT !.at = label]
    BY <2>1, SetOne
  <2> QED
    BY <2>1, <2>2 DEF GoesOn, Jobs
<1>3. ASSUME NEW new, Starts(p, new)
      PROVE  StepOf(p) /\ job'[p] = new
  BY <1>3, SetOne DEF Starts
<1>4. CASE \E u \in Users : CacheMiss(p, u)
  <2>1. PICK u \in Users : CacheMiss(p, u)
    BY <1>4
  <2> DEFINE new == [Idle EXCEPT !.op = "admit", !.at = "status", !.user = u]
  <2>2. Starts(p, new) /\ Quiet
    BY <2>1 DEF CacheMiss, Quiet
  <2>3. new.op = "admit" /\ new.at = "status" /\ new.passed = {}
    BY DEF Idle
  <2> HIDE DEF new
  <2> QED
    BY <1>3, <2>2, <2>3 DEF Reads
<1>5. CASE \E u \in Users : UpdatePassword(p, u) \/ ResetPassword(p, u)
  <2>1. PICK u \in Users : UpdatePassword(p, u) \/ ResetPassword(p, u)
    BY <1>5
  <2>2. PICK form \in {"own", "default"} :
          Starts(p, [Idle EXCEPT !.op = "password", !.at = "set", !.user = u,
                                 !.form = form])
    BY <2>1 DEF UpdatePassword, ResetPassword
  <2>3. Quiet /\ Exists(u)
    BY <2>1 DEF UpdatePassword, ResetPassword, Quiet
  <2> DEFINE new == [Idle EXCEPT !.op = "password", !.at = "set", !.user = u,
                                 !.form = form]
  <2>4. new.op = "password" /\ new.at = "set" /\ new.user = u
    BY DEF Idle
  <2>5. Starts(p, new)
    BY <2>2
  <2> HIDE DEF new
  <2> QED
    BY <1>3, <2>3, <2>4, <2>5 DEF Reads
<1>6. CASE \E u \in Users : Delete(p, u)
  <2>1. PICK u \in Users : Delete(p, u)
    BY <1>6
  <2> DEFINE new == [Idle EXCEPT !.op = "delete", !.at = "write", !.user = u]
  <2>2. Starts(p, new) /\ Quiet /\ Exists(u)
    BY <2>1 DEF Delete, Quiet
  <2>3. new.op = "delete" /\ new.at = "write" /\ new.user = u
    BY DEF Idle
  <2> HIDE DEF new
  <2> QED
    BY <1>3, <2>2, <2>3 DEF Reads
<1>7. CASE \E n \in Names : Login(p, n)
  <2>1. PICK n \in Names : Login(p, n)
    BY <1>7
  <2> DEFINE new == [Idle EXCEPT !.op = "admit", !.at = "roles", !.user = ByName(n)]
  <2>2. Starts(p, new) /\ Quiet /\ Activated(ByName(n))
    BY <2>1 DEF Login, Quiet
  <2>3. /\ new.op = "admit" /\ new.at = "roles" /\ new.passed = {}
        /\ new.user = ByName(n)
    BY DEF Idle
  <2> HIDE DEF new
  <2> QED
    BY <1>3, <2>2, <2>3 DEF Reads
<1>8. CASE \E u \in Users, n \in Names, form \in {None, "own"} : Update(p, u, n, form)
  <2>1. PICK u \in Users, n \in Names, form \in {None, "own"} : Update(p, u, n, form)
    BY <1>8
  <2> DEFINE pw  == FillTo(user[u], form)
             at  == IF user[u].name = n THEN "write" ELSE "name"
             new == [Idle EXCEPT !.op = "update", !.user = u, !.name = n,
                                 !.form = form, !.pw = pw, !.at = at]
  <2>2. Starts(p, new) /\ Quiet /\ Exists(u)
    BY <2>1 DEF Update, Quiet
  <2>3. form = None => pw = user[u].pw
    BY DEF FillTo
  <2>4. at = "name" \/ (at = "write" /\ user[u].name = n)
    OBVIOUS
  <2> HIDE DEF pw, at
  <2>5. /\ new.op = "update" /\ new.at = at /\ new.user = u /\ new.name = n
        /\ new.pw = pw /\ new.form = form /\ new.passed = {}
    BY DEF Idle
  <2> HIDE DEF new
  <2> QED
    BY <1>3, <2>2, <2>3, <2>4, <2>5 DEF Reads
<1>9. CASE ReadStatus(p)
  <2>1. CASE Activated(job[p].user)
    BY <1>2, <1>9, <2>1 DEF ReadStatus, Step, Quiet, Reads
  <2>2. CASE ~Activated(job[p].user)
    BY <1>1, <1>9, <2>2 DEF ReadStatus, Quiet
  <2> QED
    BY <2>1, <2>2
<1>10. CASE GetRoleIDs(p)
  <2> DEFINE rs  == user_role[job[p].user]
             new == [job[p] EXCEPT !.at = "fill", !.roles = rs]
  <2>1. job[p] \in Jobs /\ job[p].at = "roles" /\ Quiet
    BY <1>10 DEF TypeOK, GetRoleIDs, Quiet
  <2>2. job[p].op = "admit"
    BY <2>1 DEF Shapes, JobShape
  <2>3. job' = [job EXCEPT ![p] = new]
    BY <1>10 DEF GetRoleIDs, RolesOf, TypeOK
  <2>4. StepOf(p) /\ job'[p] = new
    BY <2>3, SetOne
  <2>5. GoesOn(p) /\ job'[p].at = "fill" /\ job'[p].roles = user_role[job[p].user]
    <3> HIDE DEF rs
    <3>1. GoesOn(p) /\ job'[p].at = "fill" /\ job'[p].roles = rs
      BY <2>1, <2>4 DEF GoesOn, Jobs
    <3> QED
      BY <3>1 DEF rs
  <2> QED
    BY <2>1, <2>2, <2>4, <2>5 DEF Reads
<1>11. CASE ExistsUsername(p)
  <2>1. CASE Named(job[p].name) = {}
    BY <1>2, <1>11, <2>1 DEF ExistsUsername, Step, Quiet, Reads
  <2>2. CASE Named(job[p].name) # {}
    BY <1>1, <1>11, <2>2 DEF ExistsUsername, Quiet
  <2> QED
    BY <2>1, <2>2
<1>12. CASE Fails(p)
  BY <1>1, <1>12 DEF Fails, Quiet
<1> QED
  BY <1>4, <1>5, <1>6, <1>7, <1>8, <1>9, <1>10, <1>11, <1>12

(* The other steps of a job.                                               *)
LEMMA WriteStep ==
  ASSUME TypeOK, Shapes, NEW p \in Procs, Write(p)
  PROVE  /\ StepOf(p) /\ GoesOn(p) /\ job[p].user \in Users
         /\ job[p].op \in {"update", "delete"}
         /\ job[p].at = "write" /\ job'[p].at = "commit" /\ ~Locked(job[p].user)
         /\ job'[p].roles = user_role[job[p].user]
         /\ cache' = [cache EXCEPT ![job[p].user] = None]
         /\ UNCHANGED <<user, user_role, minted>>
<1> DEFINE rs  == user_role[job[p].user]
           new == [job[p] EXCEPT !.at = "commit", !.roles = rs]
<1>1. /\ job[p] \in Jobs /\ job[p].at = "write" /\ ~Locked(job[p].user)
      /\ cache' = [cache EXCEPT ![job[p].user] = None]
      /\ UNCHANGED <<user, user_role, minted>>
  BY DEF TypeOK, Write
<1>2. job[p].op \in {"update", "delete"} /\ job[p].user \in Users
  BY <1>1, StartedUsers DEF Shapes, JobShape, Started
<1>3. job' = [job EXCEPT ![p] = new]
  BY DEF Write, TypeOK
<1>4. StepOf(p) /\ job'[p] = new
  BY <1>3, SetOne
<1>5. GoesOn(p) /\ job'[p].at = "commit" /\ job'[p].roles = user_role[job[p].user]
  <2> HIDE DEF rs
  <2>1. GoesOn(p) /\ job'[p].at = "commit" /\ job'[p].roles = rs
    BY <1>1, <1>4 DEF GoesOn, Jobs
  <2> QED
    BY <2>1 DEF rs
<1> QED
  BY <1>1, <1>2, <1>4, <1>5

(* A commit ends its job, writes one user, and marks who it passes.        *)
Commits(p) ==
  LET u == job[p].user
      others == Procs \ {p}
  IN  /\ StepOf(p) /\ job'[p] = Idle /\ u \in Users
      /\ UNCHANGED <<cache, minted>>
      /\ \/ job[p].op = "create"
         \/ job[p].op = "password" /\ ~Locked(u)
         \/ job[p].op \in {"update", "delete"} /\ job[p].at = "commit"
      /\ \A v \in Users \ {u} : user'[v] = user[v] /\ user_role'[v] = user_role[v]
      /\ job[p].op # "create" /\ ~Exists(u) => user'[u] = None
      /\ \A q \in others : job[q].user = u /\ job[q].op \in {"admit", "update"}
                             => "rows" \in job'[q].passed
      /\ \A q \in others : job[q].name \in Names /\ ~("name" \in job'[q].passed)
                             => Named(job[q].name)' \subseteq Named(job[q].name)

LEMMA CommitSteps ==
  ASSUME TypeOK, Shapes, NEW p \in Procs,
         UpdatePasswordByID(p) \/ CreateCommit(p) \/ UpdateCommit(p) \/ DeleteCommit(p)
  PROVE  Commits(p)
<1> DEFINE u == job[p].user
<1>1. u \in Users /\ minted \in Nat
  BY StartedUsers
     DEF Shapes, JobShape, Started, UpdatePasswordByID, CreateCommit, UpdateCommit,
         DeleteCommit, Step
<1>2. ASSUME NEW n, CommitDone(p, u, n),
             UNCHANGED <<cache, minted>>,
             \/ job[p].op = "create"
             \/ job[p].op = "password" /\ ~Locked(u)
             \/ job[p].op \in {"update", "delete"} /\ job[p].at = "commit",
             \A v \in Users \ {u} : user'[v] = user[v] /\ user_role'[v] = user_role[v],
             job[p].op # "create" /\ ~Exists(u) => user'[u] = None,
             user'[u] = None \/ user'[u].name = n \/
               (Exists(u) /\ user'[u].name = user[u].name)
      PROVE  Commits(p)
  <2>1. /\ StepOf(p) /\ job'[p] = Idle
        /\ \A q \in Procs \ {p} : PassedBy(job[q], u, n) \subseteq job'[q].passed
    BY <1>2, CommitMarks
  <2>2. ASSUME NEW q \in Procs \ {p}, job[q].user = u, job[q].op \in {"admit", "update"}
        PROVE  "rows" \in job'[q].passed
    BY <2>1, <2>2 DEF PassedBy
  <2>3. ASSUME NEW q \in Procs \ {p}, job[q].name \in Names, "name" \notin job'[q].passed
        PROVE  Named(job[q].name)' \subseteq Named(job[q].name)
    <3> DEFINE m == job[q].name
    <3>1. n = None \/ m # n
      BY <2>1, <2>3 DEF PassedBy
    <3>2. m # n
      BY <2>3, <3>1, Constants
    <3>3. job'[q].name = m
      BY <2>1, <2>3, AroundFields DEF StepOf
    <3>4. ASSUME NEW v \in Users, user'[v] # None, user'[v].name = m
          PROVE  user[v] # None /\ user[v].name = m
      BY <1>2, <3>2, <3>4 DEF Exists
    <3> QED
      BY <3>3, <3>4 DEF Named, Exists
  <2> QED
    BY <1>1, <1>2, <2>1, <2>2, <2>3 DEF Commits
<1>3. CASE UpdatePasswordByID(p)
  <2>1. /\ CommitDone(p, u, None) /\ UNCHANGED <<user_role, cache, minted>>
        /\ job[p].op = "password" /\ ~Locked(u)
        /\ user' = WithPassword(u, job[p].form)
    BY <1>3 DEF UpdatePasswordByID, Step
  <2>2. \A v \in Users \ {u} : user'[v] = user[v]
    BY <2>1 DEF WithPassword, TypeOK
  <2>3. CASE Exists(u)
    <3>1. user' = [user EXCEPT ![u].pw = job[p].form] /\ user[u] \in Rows
      BY <1>1, <2>1, <2>3 DEF WithPassword, TypeOK, Exists
    <3>2. user'[u].name = user[u].name
      BY <1>1, <3>1 DEF TypeOK, Rows
    <3> QED
      BY <1>2, <2>1, <2>2, <2>3, <3>2
  <2>4. CASE ~Exists(u)
    <3>1. user'[u] = None
      BY <2>1, <2>4 DEF WithPassword, Exists
    <3> QED
      BY <1>2, <2>1, <2>2, <2>4, <3>1
  <2> QED
    BY <2>3, <2>4
<1>4. CASE CreateCommit(p)
  <2>1. PICK st \in Statuses, pw \in Passwords, rs \in SUBSET Roles :
          /\ user' = [user EXCEPT ![u] = [name |-> job[p].name, status |-> st, pw |-> pw]]
          /\ user_role' = WithRoles(u, {}, rs)
    BY <1>4 DEF CreateCommit
  <2>2. \A v \in Users \ {u} : user'[v] = user[v] /\ user_role'[v] = user_role[v]
    BY <2>1 DEF WithRoles, TypeOK
  <2>3. user'[u].name = job[p].name
    BY <1>1, <2>1 DEF TypeOK
  <2>4. CommitDone(p, u, job[p].name) /\ job[p].op = "create" /\ UNCHANGED <<cache, minted>>
    BY <1>4 DEF CreateCommit, Step
  <2> QED
    BY <1>2, <2>2, <2>3, <2>4
<1>5. CASE UpdateCommit(p)
  <2> DEFINE n == IF Exists(u) THEN job[p].name ELSE None
  <2>1. PICK st \in Statuses, rs \in SUBSET Roles :
          /\ user' = Updated(u, [name |-> job[p].name, status |-> st, pw |-> job[p].pw])
          /\ user_role' = WithRoles(u, job[p].roles, rs)
    BY <1>5 DEF UpdateCommit
  <2>2. \A v \in Users \ {u} : user'[v] = user[v] /\ user_role'[v] = user_role[v]
    BY <2>1 DEF Updated, WithRoles, TypeOK
  <2>3. user'[u] = None \/ user'[u].name = n
    BY <1>1, <2>1 DEF Updated, Exists, TypeOK
  <2>4. ~Exists(u) => user'[u] = None
    BY <2>1 DEF Updated, Exists
  <2>5. /\ CommitDone(p, u, n) /\ UNCHANGED <<cache, minted>>
        /\ job[p].op = "update" /\ job[p].at = "commit"
    BY <1>5 DEF UpdateCommit, Step
  <2> HIDE DEF n
  <2> QED
    BY <1>2, <2>2, <2>3, <2>4, <2>5
<1>6. CASE DeleteCommit(p)
  <2>1. /\ user' = [user EXCEPT ![u] = None]
        /\ user_role' = WithRoles(u, job[p].roles, {})
        /\ CommitDone(p, u, None) /\ UNCHANGED <<cache, minted>>
        /\ job[p].op = "delete" /\ job[p].at = "commit"
    BY <1>6 DEF DeleteCommit, Step
  <2>2. \A v \in Users \ {u} : user'[v] = user[v] /\ user_role'[v] = user_role[v]
    BY <2>1 DEF WithRoles, TypeOK
  <2>3. user'[u] = None
    BY <1>1, <2>1 DEF TypeOK
  <2> QED
    BY <1>2, <2>1, <2>2, <2>3
<1> QED
  BY <1>3, <1>4, <1>5, <1>6

-----------------------------------------------------------------------------
(* The steps by what they do, for the proofs of the parts.                 *)

CommitOf(p) ==
  UpdatePasswordByID(p) \/ CreateCommit(p) \/ UpdateCommit(p) \/ DeleteCommit(p)

LEMMA StepKinds ==
  ASSUME TypeOK, Shapes, [Next]_vars
  PROVE  \/ UNCHANGED vars
         \/ \E p \in Procs : Quiet /\ StepOf(p) /\ Reads(p)
         \/ \E p \in Procs, n \in Names : Create(p, n)
         \/ \E p \in Procs : Write(p)
         \/ \E p \in Procs : CacheSet(p)
         \/ \E p \in Procs : Commits(p) /\ CommitOf(p)
         \/ \E u \in Users : Forget(u)
         \/ \E r \in Roles : DeleteRole(r)
<1>1. ASSUME NEW p \in Procs, Begin(p) \/ Fails(p),
             ~ \E n \in Names : Create(p, n)
      PROVE  Quiet /\ StepOf(p) /\ Reads(p)
  <2>1. \/ \E u \in Users : CacheMiss(p, u) \/ UpdatePassword(p, u)
                              \/ ResetPassword(p, u) \/ Delete(p, u)
        \/ \E n \in Names : Login(p, n)
        \/ \E u \in Users, n \in Names, form \in {None, "own"} : Update(p, u, n, form)
        \/ Fails(p)
    BY <1>1 DEF Begin, LoginAPI, UserAPI
  <2> QED
    BY <2>1, QuietSteps
<1>2. ASSUME NEW p \in Procs, ReadStatus(p) \/ GetRoleIDs(p) \/ ExistsUsername(p)
      PROVE  Quiet /\ StepOf(p) /\ Reads(p)
  BY <1>2, QuietSteps
<1>3. ASSUME NEW p \in Procs, CommitOf(p)
      PROVE  Commits(p)
  BY <1>3, CommitSteps DEF CommitOf
<1> QED
  BY <1>1, <1>2, <1>3 DEF Next, Continue, CommitOf

LEMMA CreatorsStay ==
  ASSUME AInv, Shapes', NEW p \in Procs, StepOf(p), minted' = minted,
         \/ job'[p].op = job[p].op /\ job'[p].user = job[p].user
         \/ job'[p].op = "admit"
         \/ job'[p].op \in {"password", "update", "delete"} /\ Exists(job'[p].user)
         \/ job'[p].op = "none",
         \A u \in Users : Unborn(u) =>
           \/ Unborn(u)'
           \/ /\ u = job[p].user /\ job[p].op \in {"create", "password", "update", "delete"}
              /\ job'[p].op = "none"
  PROVE  CreatorsAlone'
<1> USE DEF AInv
<1>1. ASSUME NEW q \in Procs
      PROVE  /\ q # p => job'[q].op = job[q].op /\ job'[q].user = job[q].user
             /\ job[q].op = "create" => job[q].user \in Users /\ job[q].user <= minted
             /\ job'[q].op = "create" => job'[q].user \in Users
  <2>1. q # p => job'[q].op = job[q].op /\ job'[q].user = job[q].user
    BY AroundFields DEF StepOf
  <2>2. job[q].op = "create" => job[q].user \in 1..minted
    BY DEF Shapes, JobShape, Started
  <2>3. job'[q].op = "create" => job'[q].user \in 1..minted
    BY DEF Shapes, JobShape, Started
  <2> QED
    BY <2>1, <2>2, <2>3, StartedUsers
<1>2. job[p].op \in {"create", "password", "update", "delete"} => job[p].user <= minted
  BY StartedUsers DEF Shapes, JobShape, Started
<1>3. ASSUME NEW u \in Users, u > minted'
      PROVE  Unborn(u)'
  <2>1. Unborn(u) /\ u > minted
    BY <1>3 DEF CreatorsAlone
  <2>2. minted \in Nat /\ u \in Nat
    BY Constants, StartedUsers
  <2> QED
    BY <1>2, <2>1, <2>2
<1>4. ASSUME NEW q \in Procs, job'[q].op = "create"
      PROVE  job[q].op = "create" /\ job'[q].user = job[q].user
  BY <1>1, <1>4
<1>5. ASSUME NEW q \in Procs, job'[q].op = "create"
      PROVE  Unborn(job[q].user)'
  <2>1. job[q].op = "create" /\ job'[q].user = job[q].user
    BY <1>4, <1>5
  <2>2. Unborn(job[q].user) /\ job[q].user \in Users
    BY <1>1, <2>1 DEF CreatorsAlone
  <2>3. CASE q = p
    BY <1>5, <2>1, <2>2, <2>3
  <2>4. CASE q # p
    <3>1. job[p].user = job[q].user => job[p].op = "admit"
      BY <2>1, <2>4 DEF CreatorsAlone
    <3> QED
      BY <2>1, <2>2, <3>1
  <2> QED
    BY <2>3, <2>4
<1>6. ASSUME NEW q \in Procs, NEW o \in Procs, job'[q].op = "create",
             job'[o].user = job'[q].user, o # q
      PROVE  job'[o].op = "admit"
  <2>1. job[q].op = "create" /\ job'[q].user = job[q].user
    BY <1>4, <1>6
  <2>2. job[o].user = job[q].user => job[o].op = "admit"
    BY <1>6, <2>1 DEF CreatorsAlone
  <2>3. Unborn(job[q].user) /\ job'[q].user \in 1..minted
    BY <1>6, <2>1 DEF CreatorsAlone, Shapes, JobShape, Started
  <2>4. CASE o # p
    BY <1>1, <1>6, <2>1, <2>2, <2>4
  <2>5. CASE o = p
    <3>1. ~Exists(job'[o].user)
      BY <1>6, <2>1, <2>3 DEF Unborn, Exists
    <3>2. job'[o].op # "none"
      BY <1>6, <2>3, StartedUsers DEF Shapes, JobShape
    <3> QED
      BY <1>6, <2>1, <2>2, <2>5, <3>1, <3>2
  <2> QED
    BY <2>4, <2>5
<1> QED
  BY <1>3, <1>5, <1>6 DEF CreatorsAlone

LEMMA CreatorsKept ==
  ASSUME AInv, [Next]_vars
  PROVE  CreatorsAlone'
<1> USE DEF AInv
<1>0. TypeOK' /\ Shapes'
  BY TypesKept
<1>1. CASE UNCHANGED vars
  BY <1>1 DEF vars, CreatorsAlone, Unborn
<1>2. ASSUME NEW p \in Procs, Quiet, StepOf(p), Reads(p)
      PROVE  CreatorsAlone'
  <2>1. \/ job'[p].op = job[p].op /\ job'[p].user = job[p].user
        \/ job'[p].op = "admit"
        \/ job'[p].op \in {"password", "update", "delete"} /\ Exists(job'[p].user)
        \/ job'[p].op = "none"
    BY <1>2, IdleTypes DEF Reads, GoesOn
  <2>2. \A u \in Users : Unborn(u) => Unborn(u)'
    BY <1>2 DEF Quiet, Unborn
  <2> QED
    BY <1>0, <1>2, <2>1, <2>2, CreatorsStay DEF Quiet
<1>3. ASSUME NEW p \in Procs, NEW n \in Names, Create(p, n)
      PROVE  CreatorsAlone'
  <2> DEFINE new == [Idle EXCEPT !.op = "create", !.at = "insert",
                                 !.user = minted + 1, !.name = n]
  <2>1. /\ minted < MaxUsers /\ minted' = minted + 1 /\ UNCHANGED <<user, user_role>>
        /\ job' = [job EXCEPT ![p] = new]
    BY <1>3 DEF Create, Starts
  <2>2. new.op = "create" /\ new.user = minted + 1
    BY DEF Idle
  <2> HIDE DEF new
  <2>3. minted \in Nat /\ minted + 1 \in Users /\ \A u \in Users : u \in Nat
    BY <2>1, Constants, StartedUsers
  <2>4. job'[p].op = "create" /\ job'[p].user = minted + 1
    BY <2>1, <2>2 DEF TypeOK
  <2>5. \A q \in Procs \ {p} : job'[q] = job[q]
    BY <2>1 DEF TypeOK
  <2>6. \A q \in Procs : job[q].user \in 0..minted
    BY <2>3 DEF Shapes, JobShape, Started
  <2>7. \A q \in Procs \ {p} : job'[q].user # minted + 1
    BY <2>3, <2>5, <2>6
  <2>8. Unborn(minted + 1)
    BY <2>3 DEF CreatorsAlone
  <2>9. ASSUME NEW u \in Users, u > minted'
        PROVE  Unborn(u)'
    BY <2>1, <2>3, <2>9 DEF CreatorsAlone, Unborn
  <2>10. ASSUME NEW q \in Procs, job'[q].op = "create"
         PROVE  Unborn(job[q].user)'
    BY <2>1, <2>4, <2>5, <2>8, <2>10 DEF CreatorsAlone, Unborn
  <2>11. ASSUME NEW q \in Procs, NEW o \in Procs, job'[q].op = "create",
                job'[o].user = job'[q].user, o # q
         PROVE  job'[o].op = "admit"
    BY <2>4, <2>5, <2>7, <2>11 DEF CreatorsAlone
  <2> QED
    BY <2>9, <2>10, <2>11 DEF CreatorsAlone
<1>4. ASSUME NEW p \in Procs, Write(p)
      PROVE  CreatorsAlone'
  <2>1. StepOf(p) /\ GoesOn(p) /\ UNCHANGED <<user, user_role, minted>>
    BY <1>4, WriteStep
  <2>2. \A u \in Users : Unborn(u) => Unborn(u)'
    BY <2>1 DEF Unborn
  <2> QED
    BY <1>0, <2>1, <2>2, CreatorsStay DEF GoesOn
<1>5. ASSUME NEW p \in Procs, CacheSet(p)
      PROVE  CreatorsAlone'
  <2>1. StepOf(p) /\ job'[p] = Idle /\ UNCHANGED <<user, user_role, minted>>
    BY <1>5, FillMarks DEF CacheSet, Fill
  <2>2. \A u \in Users : Unborn(u) => Unborn(u)'
    BY <2>1 DEF Unborn
  <2> QED
    BY <1>0, <2>1, <2>2, CreatorsStay, IdleTypes
<1>6. ASSUME NEW p \in Procs, Commits(p)
      PROVE  CreatorsAlone'
  <2>1. /\ StepOf(p) /\ job'[p].op = "none" /\ minted' = minted
        /\ job[p].op \in {"create", "password", "update", "delete"}
    BY <1>6, IdleTypes DEF Commits
  <2>2. \A u \in Users : Unborn(u) => Unborn(u)' \/ u = job[p].user
    BY <1>6 DEF Commits, Unborn
  <2> QED
    BY <1>0, <2>1, <2>2, CreatorsStay
<1>7. ASSUME NEW u \in Users, Forget(u)
      PROVE  CreatorsAlone'
  BY <1>7 DEF Forget, CreatorsAlone, Unborn
<1>8. ASSUME NEW r \in Roles, DeleteRole(r)
      PROVE  CreatorsAlone'
  <2>1. /\ UNCHANGED <<user, minted>>
        /\ user_role' = [u \in Users |-> user_role[u] \ {r}]
        /\ \A q \in Procs : job'[q].op = job[q].op /\ job'[q].user = job[q].user
    BY <1>8, DeletionMarks, AroundFields DEF DeleteRole
  <2>2. \A u \in Users : Unborn(u) => Unborn(u)'
    BY <2>1 DEF Unborn
  <2>3. \A q \in Procs : job[q].op = "create" => job[q].user \in Users
    BY StartedUsers DEF Shapes, JobShape, Started
  <2> QED
    BY <2>1, <2>2, <2>3 DEF CreatorsAlone
<1> QED
  BY <1>1, <1>2, <1>3, <1>4, <1>5, <1>6, <1>7, <1>8, StepKinds

-----------------------------------------------------------------------------
(* What the jobs have read.                                                *)

SameReads(q) ==
  /\ job'[q].op = job[q].op /\ job'[q].user = job[q].user
  /\ job'[q].name = job[q].name /\ job'[q].pw = job[q].pw
  /\ job'[q].form = job[q].form /\ job[q].passed \subseteq job'[q].passed

Read(q) == StatusRead(q) /\ RowRead(q) /\ NameFree(q)

(* A job that goes on, with what it has read as it was or passed.          *)
LEMMA ReadsStay ==
  ASSUME Shapes, NEW q \in Procs, Read(q), SameReads(q),
         job[q].op = "admit" =>
           \/ "rows" \in job'[q].passed
           \/ /\ job'[q].at = job[q].at /\ job'[q].roles = job[q].roles
              /\ user'[job[q].user] = user[job[q].user]
              /\ user_role'[job[q].user] = user_role[job[q].user],
         job[q].op = "update" =>
           \/ "rows" \in job'[q].passed
           \/ user'[job[q].user] = user[job[q].user],
         job[q].op = "update" /\ job'[q].at \in {"write", "commit"} =>
           job[q].at \in {"write", "commit"},
         job[q].name \in Names /\ "name" \notin job'[q].passed =>
           Named(job[q].name)' \subseteq Named(job[q].name)
  PROVE  Read(q)'
<1>1. StatusRead(q)'
  BY DEF Read, SameReads, StatusRead, Passed, Activated, Exists
<1>2. RowRead(q)'
  BY DEF Read, SameReads, RowRead, Passed, Exists
<1>3. NameFree(q)'
  <2>1. job[q].op \in {"create", "update"} => job[q].name \in Names
    BY DEF Shapes, JobShape
  <2>2. SUFFICES ASSUME job'[q].op \in {"create", "update"},
                        "name" \notin job'[q].passed,
                        job'[q].op = "update" =>
                          job'[q].at \in {"write", "commit"} /\ "rows" \notin job'[q].passed
                 PROVE  \/ Named(job[q].name)' = {}
                        \/ /\ job'[q].op = "update"
                           /\ user'[job'[q].user].name = job'[q].name
    BY DEF NameFree, Passed
  <2>3. Named(job[q].name)' \subseteq Named(job[q].name)
    BY <2>1, <2>2 DEF SameReads
  <2>4. \/ Named(job[q].name) = {}
        \/ /\ job[q].op = "update"
           /\ user[job[q].user].name = job[q].name
    BY <2>2 DEF Read, NameFree, Passed, SameReads
  <2> QED
    BY <2>2, <2>3, <2>4 DEF SameReads
<1> QED
  BY <1>1, <1>2, <1>3 DEF Read

LEMMA AroundReads ==
  ASSUME TypeOK, NEW q \in Procs, Around(q)
  PROVE  SameReads(q) /\ job'[q].at = job[q].at /\ job'[q].roles = job[q].roles
BY AroundFields DEF SameReads

LEMMA ReadsStayPut ==
  ASSUME TypeOK, Shapes, NEW q \in Procs, Read(q), Around(q), UNCHANGED <<user, user_role>>
  PROVE  Read(q)'
<1>1. SameReads(q) /\ job'[q].at = job[q].at /\ job'[q].roles = job[q].roles
  BY AroundReads
<1>2. Named(job[q].name)' = Named(job[q].name)
  BY <1>1 DEF Named, Exists, SameReads
<1> QED
  BY <1>1, <1>2, ReadsStay

LEMMA ReadsKeptOn ==
  ASSUME AInv, [Next]_vars
  PROVE  ReadsKept'
<1> USE DEF AInv
<1>0. \A q \in Procs : Read(q)
  BY DEF ReadsKept, Read
<1>1. SUFFICES \A q \in Procs : Read(q)'
  BY DEF ReadsKept, Read
<1>2. CASE UNCHANGED vars
  BY <1>0, <1>2 DEF vars, Read, StatusRead, RowRead, NameFree, Passed, Activated, Exists,
                    Named
<1>3. ASSUME NEW p \in Procs, Quiet, StepOf(p), Reads(p)
      PROVE  Read(p)'
  <2> USE DEF Read, StatusRead, RowRead, NameFree, Passed
  <2>1. UNCHANGED <<user, user_role>> /\ \A n : Named(n)' = Named(n)
    BY <1>3 DEF Quiet, Named, Exists
  <2>2. CASE job'[p].op \in {"none", "password", "delete"}
    BY <2>2
  <2>3. CASE /\ job'[p].op = "admit" /\ job'[p].passed = {}
             /\ \/ job'[p].at = "status"
                \/ job'[p].at = "roles" /\ Activated(job'[p].user)
    BY <2>1, <2>3 DEF Activated, Exists
  <2>4. CASE /\ job'[p].op = "update" /\ job'[p].passed = {} /\ Exists(job'[p].user)
             /\ job'[p].form = None => job'[p].pw = user[job'[p].user].pw
             /\ \/ job'[p].at = "name"
                \/ job'[p].at = "write" /\ user[job'[p].user].name = job'[p].name
    BY <2>1, <2>4 DEF Exists
  <2>5. CASE /\ GoesOn(p) /\ job[p].op = "admit" /\ job[p].at = "status"
             /\ job'[p].at = "roles" /\ Activated(job[p].user)
    BY <2>1, <2>5 DEF GoesOn, Activated, Exists
  <2>6. CASE /\ GoesOn(p) /\ job[p].op = "admit" /\ job[p].at = "roles"
             /\ job'[p].at = "fill" /\ job'[p].roles = user_role[job[p].user]
    BY <1>0, <2>1, <2>6 DEF GoesOn, Activated, Exists
  <2>7. CASE /\ GoesOn(p) /\ job[p].op = "update" /\ job[p].at = "name"
             /\ job'[p].at = "write" /\ Named(job[p].name) = {}
    <3>1. Named(job[p].name)' = {}
      BY <2>1, <2>7 DEF GoesOn, Exists, Named
    <3> QED
      BY <1>0, <2>1, <2>7, <3>1 DEF GoesOn, Exists
  <2> QED
    BY <1>3, <2>2, <2>3, <2>4, <2>5, <2>6, <2>7, IdleTypes DEF Reads
<1>4. ASSUME NEW p \in Procs, StepOf(p), UNCHANGED <<user, user_role>>, Read(p)'
      PROVE  \A q \in Procs : Read(q)'
  BY <1>0, <1>4, ReadsStayPut DEF StepOf
<1>5. ASSUME NEW p \in Procs, NEW n \in Names, Create(p, n)
      PROVE  \A q \in Procs : Read(q)'
  <2> DEFINE new == [Idle EXCEPT !.op = "create", !.at = "insert",
                                 !.user = minted + 1, !.name = n]
  <2>1. /\ UNCHANGED <<user, user_role>> /\ Named(n) = {}
        /\ job' = [job EXCEPT ![p] = new]
    BY <1>5 DEF Create, Starts
  <2>2. new.op = "create" /\ new.name = n
    BY DEF Idle
  <2> HIDE DEF new
  <2>3. StepOf(p) /\ job'[p] = new
    BY <2>1, SetOne
  <2>4. Named(job[p].name)' = {}
    BY <2>1, <2>2, <2>3 DEF Named, Exists
  <2>5. Read(p)'
    BY <2>2, <2>3, <2>4 DEF Read, StatusRead, RowRead, NameFree
  <2> QED
    BY <1>4, <2>1, <2>3, <2>5
<1>6. ASSUME NEW p \in Procs, Write(p)
      PROVE  \A q \in Procs : Read(q)'
  <2>1. /\ StepOf(p) /\ GoesOn(p) /\ job[p].op \in {"update", "delete"}
        /\ job[p].at = "write" /\ UNCHANGED <<user, user_role>>
    BY <1>6, WriteStep
  <2>2. SameReads(p) /\ Named(job[p].name)' = Named(job[p].name)
    BY <2>1 DEF SameReads, GoesOn, Named, Exists
  <2>3. Read(p)'
    BY <1>0, <2>1, <2>2, ReadsStay
  <2> QED
    BY <1>4, <2>1, <2>3
<1>7. ASSUME NEW p \in Procs, CacheSet(p)
      PROVE  \A q \in Procs : Read(q)'
  <2>1. StepOf(p) /\ job'[p] = Idle /\ UNCHANGED <<user, user_role>>
    BY <1>7, FillMarks DEF CacheSet, Fill
  <2>2. Read(p)'
    BY <2>1, IdleTypes DEF Read, StatusRead, RowRead, NameFree
  <2> QED
    BY <1>4, <2>1, <2>2
<1>8. ASSUME NEW p \in Procs, Commits(p)
      PROVE  \A q \in Procs : Read(q)'
  <2>1. job'[p] = Idle /\ StepOf(p)
    BY <1>8 DEF Commits
  <2>2. Read(p)'
    BY <2>1, IdleTypes DEF Read, StatusRead, RowRead, NameFree
  <2>3. ASSUME NEW q \in Procs \ {p}
        PROVE  Read(q)'
    <3>1. SameReads(q) /\ job'[q].at = job[q].at /\ job'[q].roles = job[q].roles
      BY <2>1, AroundReads DEF StepOf
    <3>2. job[q].op \in {"admit", "update"} => job[q].user \in Users
      BY StartedUsers DEF Shapes, JobShape, Started
    <3>3. job[q].op \in {"admit", "update"} =>
            \/ "rows" \in job'[q].passed
            \/ /\ user'[job[q].user] = user[job[q].user]
               /\ user_role'[job[q].user] = user_role[job[q].user]
      BY <1>8, <3>2 DEF Commits
    <3>4. job[q].name \in Names /\ "name" \notin job'[q].passed =>
            Named(job[q].name)' \subseteq Named(job[q].name)
      BY <1>8 DEF Commits
    <3> QED
      BY <1>0, <3>1, <3>3, <3>4, ReadsStay
  <2> QED
    BY <2>2, <2>3
<1>9. ASSUME NEW u \in Users, Forget(u)
      PROVE  \A q \in Procs : Read(q)'
  BY <1>0, <1>9 DEF Forget, Read, StatusRead, RowRead, NameFree, Passed, Activated,
                    Exists, Named
<1>10. ASSUME NEW r \in Roles, DeleteRole(r)
       PROVE  \A q \in Procs : Read(q)'
  <2>1. /\ UNCHANGED user /\ user_role' = [u \in Users |-> user_role[u] \ {r}]
        /\ \A q \in Procs : Around(q)
        /\ \A q \in Procs : job[q].op = "admit" /\ r \in user_role[job[q].user]
                              => "rows" \in job'[q].passed
    BY <1>10, DeletionMarks DEF DeleteRole
  <2>2. ASSUME NEW q \in Procs
        PROVE  Read(q)'
    <3>1. SameReads(q) /\ job'[q].at = job[q].at /\ job'[q].roles = job[q].roles
      BY <2>1, AroundReads
    <3>2. job[q].op = "admit" => job[q].user \in Users
      BY StartedUsers DEF Shapes, JobShape, Started
    <3>3. job[q].op = "admit" => \/ "rows" \in job'[q].passed
                                 \/ user_role'[job[q].user] = user_role[job[q].user]
      BY <2>1, <3>2
    <3>4. Named(job[q].name)' = Named(job[q].name)
      BY <2>1, <3>1 DEF Named, Exists, SameReads
    <3> QED
      BY <1>0, <2>1, <3>1, <3>3, <3>4, ReadsStay
  <2> QED
    BY <2>2
<1>11. ASSUME NEW p \in Procs, Quiet, StepOf(p), Reads(p)
       PROVE  \A q \in Procs : Read(q)'
  BY <1>3, <1>4, <1>11 DEF Quiet
<1> QED
  BY <1>2, <1>5, <1>6, <1>7, <1>8, <1>9, <1>10, <1>11, StepKinds

-----------------------------------------------------------------------------
(* What an open transaction holds.                                         *)

LEMMA TransactionsStay ==
  ASSUME AInv,
         \A q \in Procs : job'[q].at = "commit" =>
           /\ Around(q)
           /\ \/ user'[job[q].user] = None
              \/ /\ user'[job[q].user] = user[job[q].user]
                 /\ user_role'[job[q].user] \subseteq user_role[job[q].user]
           /\ \/ "cache" \in job'[q].passed
              \/ cache'[job[q].user] \in {None, cache[job[q].user]}
  PROVE  Transactions'
<1> USE DEF AInv
<1>1. ASSUME NEW q \in Procs, job'[q].at = "commit"
      PROVE  /\ job[q].at = "commit" /\ job'[q].user = job[q].user
             /\ job'[q].roles = job[q].roles /\ job[q].passed \subseteq job'[q].passed
             /\ EntryDeleted(q) /\ RowHeld(q)
  BY <1>1, AroundFields DEF Transactions
<1>2. ASSUME NEW q \in Procs
      PROVE  EntryDeleted(q)'
  BY <1>1 DEF EntryDeleted, Passed
<1>3. ASSUME NEW q \in Procs, job'[q].at = "commit", user'[job'[q].user] # None
      PROVE  /\ user_role'[job'[q].user] \subseteq job'[q].roles
             /\ \A o \in Procs : job'[o].at = "commit" /\ job'[o].user = job'[q].user => o = q
  <2>1. /\ user[job[q].user] # None
        /\ user_role'[job[q].user] \subseteq user_role[job[q].user]
    BY <1>1, <1>3
  <2> QED
    BY <1>1, <1>3, <2>1 DEF RowHeld, Exists
<1> QED
  BY <1>2, <1>3 DEF Transactions, RowHeld, Exists

LEMMA TransactionsKept ==
  ASSUME AInv, [Next]_vars
  PROVE  Transactions'
<1> USE DEF AInv
<1>1. CASE UNCHANGED vars
  BY <1>1 DEF vars, Transactions, EntryDeleted, RowHeld, Passed, Exists
<1>2. ASSUME NEW p \in Procs, StepOf(p), UNCHANGED <<user, user_role>>, job'[p].at # "commit",
             \A q \in Procs : job'[q].at = "commit" =>
               \/ "cache" \in job'[q].passed
               \/ cache'[job[q].user] \in {None, cache[job[q].user]}
      PROVE  Transactions'
  BY <1>2, TransactionsStay DEF StepOf
<1>3. ASSUME NEW p \in Procs, Quiet, StepOf(p), Reads(p)
      PROVE  Transactions'
  <2>1. job'[p].at # "commit"
    BY <1>3, IdleTypes DEF Reads
  <2> QED
    BY <1>2, <1>3, <2>1 DEF Quiet
<1>4. ASSUME NEW p \in Procs, NEW n \in Names, Create(p, n)
      PROVE  Transactions'
  <2> DEFINE new == [Idle EXCEPT !.op = "create", !.at = "insert",
                                 !.user = minted + 1, !.name = n]
  <2>1. UNCHANGED <<user, user_role, cache>> /\ job' = [job EXCEPT ![p] = new]
    BY <1>4 DEF Create, Starts
  <2>2. new.at # "commit"
    BY DEF Idle
  <2> HIDE DEF new
  <2>3. StepOf(p) /\ job'[p].at # "commit"
    BY <2>1, <2>2, SetOne
  <2> QED
    BY <1>2, <2>1, <2>3
<1>5. ASSUME NEW p \in Procs, Write(p)
      PROVE  Transactions'
  <2> DEFINE u == job[p].user
  <2>1. /\ StepOf(p) /\ GoesOn(p) /\ u \in Users /\ job[p].at = "write"
        /\ ~Locked(u) /\ job'[p].roles = user_role[u]
        /\ cache' = [cache EXCEPT ![u] = None]
        /\ UNCHANGED <<user, user_role>>
    BY <1>5, WriteStep
  <2>2. \A q \in Procs : job[q].user \in Users \/ job[q].at = "idle"
    BY StartedUsers DEF Shapes, JobShape, Started
  <2>3. ASSUME NEW q \in Procs, job'[q].at = "commit"
        PROVE  /\ job'[q].user = job[q].user
               /\ q = p \/ (job[q].at = "commit" /\ job'[q].roles = job[q].roles
                             /\ job[q].passed \subseteq job'[q].passed
                             /\ cache'[job[q].user] \in {None, cache[job[q].user]})
    <3>1. CASE q = p
      BY <2>1, <3>1 DEF GoesOn
    <3>2. CASE q # p
      <4>1. /\ job[q].at = "commit" /\ job'[q].user = job[q].user
            /\ job'[q].roles = job[q].roles /\ job[q].passed \subseteq job'[q].passed
        BY <2>1, <2>3, <3>2, AroundFields DEF StepOf
      <4>2. job[q].user \in Users
        BY <2>2, <4>1
      <4> QED
        BY <2>1, <4>1, <4>2 DEF TypeOK
    <3> QED
      BY <3>1, <3>2
  <2>4. cache'[u] = None
    BY <2>1 DEF TypeOK
  <2>5. ASSUME NEW q \in Procs
        PROVE  EntryDeleted(q)'
    BY <2>3, <2>4 DEF Transactions, EntryDeleted, Passed
  <2>6. ASSUME NEW q \in Procs, job'[q].at = "commit", user[job'[q].user] # None
        PROVE  /\ user_role[job'[q].user] \subseteq job'[q].roles
               /\ \A o \in Procs : job'[o].at = "commit" /\ job'[o].user = job'[q].user => o = q
    <3>1. \A o \in Procs : job[o].at = "commit" /\ Exists(u) => job[o].user # u
      BY <2>1 DEF Locked
    <3>2. CASE q = p
      BY <2>1, <2>3, <2>6, <3>1, <3>2 DEF Exists
    <3>3. CASE q # p
      BY <2>3, <2>6, <3>1, <3>3 DEF Exists, Transactions, RowHeld
    <3> QED
      BY <3>2, <3>3
  <2> QED
    BY <2>1, <2>5, <2>6 DEF Transactions, RowHeld, Exists
<1>6. ASSUME NEW p \in Procs, CacheSet(p)
      PROVE  Transactions'
  <2>1. /\ StepOf(p) /\ job'[p] = Idle /\ UNCHANGED <<user, user_role>>
        /\ \A q \in Procs \ {p} :
             job[q].at = "commit" /\ job[q].user = job[p].user => "cache" \in job'[q].passed
        /\ cache' = [cache EXCEPT ![job[p].user] = job[p].roles]
    BY <1>6, FillMarks DEF CacheSet, Fill
  <2>2. job'[p].at # "commit"
    BY <2>1, IdleTypes
  <2>3. ASSUME NEW q \in Procs, job'[q].at = "commit"
        PROVE  \/ "cache" \in job'[q].passed
               \/ cache'[job[q].user] = cache[job[q].user]
    <3>1. job[q].at = "commit" /\ job[q].user \in Users
      BY <2>1, <2>2, <2>3, AroundFields, StartedUsers
         DEF StepOf, Shapes, JobShape, Started
    <3> QED
      BY <2>1, <2>2, <2>3, <3>1 DEF TypeOK
  <2> QED
    BY <1>2, <2>1, <2>2, <2>3
<1>7. ASSUME NEW p \in Procs, Commits(p)
      PROVE  Transactions'
  <2> DEFINE u == job[p].user
  <2>1. /\ StepOf(p) /\ job'[p].at # "commit" /\ cache' = cache
        /\ \A v \in Users \ {u} : user'[v] = user[v] /\ user_role'[v] = user_role[v]
    BY <1>7, IdleTypes DEF Commits
  <2>2. ASSUME NEW q \in Procs, job'[q].at = "commit"
        PROVE  /\ Around(q)
               /\ \/ user'[job[q].user] = None
                  \/ /\ user'[job[q].user] = user[job[q].user]
                     /\ user_role'[job[q].user] \subseteq user_role[job[q].user]
    <3>1. q # p /\ Around(q) /\ job[q].at = "commit"
      BY <2>1, <2>2, AroundFields DEF StepOf
    <3>2. job[q].op \in {"update", "delete"} /\ job[q].user \in Users
      BY <3>1, StartedUsers DEF Shapes, JobShape, Started
    <3>3. CASE job[q].user # u
      BY <2>1, <3>1, <3>2, <3>3
    <3>4. CASE job[q].user = u
      <4>1. job[p].op # "create"
        BY <3>1, <3>2, <3>4 DEF CreatorsAlone
      <4>2. ~Exists(u)
        <5>1. CASE job[p].op = "password" /\ ~Locked(u)
          BY <3>1, <3>4, <5>1 DEF Locked
        <5>2. CASE job[p].at = "commit"
          BY <3>1, <3>4, <5>2 DEF Transactions, RowHeld
        <5> QED
          BY <1>7, <4>1, <5>1, <5>2 DEF Commits
      <4>3. user'[u] = None
        BY <1>7, <4>1, <4>2 DEF Commits
      <4> QED
        BY <3>1, <3>4, <4>3
    <3> QED
      BY <3>3, <3>4
  <2> QED
    BY <2>1, <2>2, TransactionsStay
<1>8. ASSUME NEW u \in Users, Forget(u)
      PROVE  Transactions'
  <2>1. UNCHANGED <<user, user_role, job>> /\ cache' = [cache EXCEPT ![u] = None]
    BY <1>8 DEF Forget
  <2>2. \A v \in Users : cache'[v] \in {None, cache[v]}
    BY <2>1 DEF TypeOK
  <2>3. \A q \in Procs : job[q].at = "commit" => job[q].user \in Users
    BY StartedUsers DEF Shapes, JobShape, Started
  <2> QED
    BY <2>1, <2>2, <2>3 DEF Transactions, EntryDeleted, RowHeld, Passed, Exists
<1>9. ASSUME NEW r \in Roles, DeleteRole(r)
      PROVE  Transactions'
  <2>1. /\ \A q \in Procs : Around(q)
        /\ UNCHANGED <<user, cache>>
        /\ user_role' = [u \in Users |-> user_role[u] \ {r}]
    BY <1>9, DeletionMarks DEF DeleteRole
  <2>2. \A q \in Procs : job'[q].at = "commit" => job[q].user \in Users
    BY <2>1, AroundFields, StartedUsers DEF Shapes, JobShape, Started
  <2> QED
    BY <2>1, <2>2, TransactionsStay
<1> QED
  BY <1>1, <1>3, <1>4, <1>5, <1>6, <1>7, <1>8, <1>9, StepKinds

-----------------------------------------------------------------------------
(* The invariant.                                                          *)

LEMMA InitAccounts == Init => AInv
<1> SUFFICES ASSUME Init PROVE AInv
  OBVIOUS
<1>1. \A p \in Procs : job[p] = Idle
  BY DEF Init
<1>2. TypeOK
  <2>1. minted \in 0..MaxUsers
    BY Constants DEF Init
  <2>2. job \in [Procs -> Jobs]
    BY IdleTypes DEF Init
  <2> QED
    BY <2>1, <2>2 DEF Init, TypeOK
<1>3. Shapes
  BY <1>1, IdleTypes DEF Shapes, JobShape
<1>4. CreatorsAlone
  BY <1>1, IdleTypes DEF CreatorsAlone, Unborn, Init
<1>5. ReadsKept
  BY <1>1, IdleTypes DEF ReadsKept, StatusRead, RowRead, NameFree
<1>6. Transactions
  BY <1>1, IdleTypes DEF Transactions, EntryDeleted, RowHeld
<1> QED
  BY <1>2, <1>3, <1>4, <1>5, <1>6 DEF AInv

(* Everything that is so of the users, their jobs and the cache in every   *)
(* reachable state, however the requests of User and Login interleave.     *)
THEOREM AccountsInvariance == Spec => []AInv
<1>1. AInv /\ [Next]_vars => AInv'
  BY TypesKept, CreatorsKept, ReadsKeptOn, TransactionsKept DEF AInv
<1> QED
  BY <1>1, InitAccounts, PTL DEF Spec

(* Every column, cache entry and job holds a value of its type.            *)
THEOREM AccountsTypes == Spec => []TypeOK
<1>1. AInv => TypeOK
  BY DEF AInv
<1> QED
  BY <1>1, AccountsInvariance, PTL

-----------------------------------------------------------------------------
(* What a step may do.                                                     *)

LEMMA EntryStep ==
  ASSUME AInv, [Next]_vars, NEW u \in Users, Stale(u)', ~Stale(u)
  PROVE  \/ \E p \in Procs : /\ job[p].user = u
                             /\ \/ Ends(p, {"admit"}) /\ Passed(p, "rows")
                                \/ Ends(p, {"update", "delete"}) /\ Passed(p, "cache")
         \/ \E r \in cache[u] : RoleDeleted(r)
<1> USE DEF AInv
<1>1. ~(user'[u] = user[u] /\ user_role'[u] = user_role[u] /\ cache'[u] = cache[u])
  BY DEF Stale, Activated, Exists, RolesOf
<1>2. cache'[u] # None
  BY DEF Stale
<1>3. ~ UNCHANGED <<user, user_role, cache>>
  BY <1>1
<1>4. ~ \E p \in Procs : Write(p)
  <2>1. SUFFICES ASSUME NEW p \in Procs, Write(p)
                 PROVE  FALSE
    OBVIOUS
  <2>2. UNCHANGED <<user, user_role>> /\ cache' = [cache EXCEPT ![job[p].user] = None]
    BY <2>1, WriteStep
  <2> QED
    BY <1>1, <1>2, <2>2 DEF TypeOK
<1>5. ~ \E v \in Users : Forget(v)
  BY <1>1, <1>2 DEF Forget, TypeOK
<1>6. CASE \E p \in Procs : CacheSet(p)
  <2>1. PICK p \in Procs : CacheSet(p)
    BY <1>6
  <2>2. /\ job'[p] = Idle /\ UNCHANGED <<user, user_role>> /\ job[p].at = "fill"
        /\ cache' = [cache EXCEPT ![job[p].user] = job[p].roles]
    BY <2>1, FillMarks DEF CacheSet, Fill
  <2>3. job[p].op = "admit" /\ StatusRead(p)
    BY <2>2 DEF Shapes, JobShape, ReadsKept
  <2>4. job[p].user = u /\ cache'[u] = job[p].roles
    BY <1>1, <2>2 DEF TypeOK
  <2>5. Passed(p, "rows")
    BY <2>2, <2>3, <2>4 DEF StatusRead, Stale, Activated, Exists, RolesOf
  <2> QED
    BY <2>2, <2>3, <2>4, <2>5 DEF Ends
<1>7. CASE \E p \in Procs : Commits(p) /\ CommitOf(p)
  <2>1. PICK p \in Procs : Commits(p) /\ CommitOf(p)
    BY <1>7
  <2>2. job[p].user = u /\ job'[p] = Idle /\ cache[u] # None
    BY <1>1, <1>2, <2>1 DEF Commits
  <2>3. job[p].op # "create"
    BY <2>2 DEF CreatorsAlone, Unborn, Stale, Activated, Exists
  <2>4. job[p].op # "password"
    <3>1. SUFFICES ASSUME job[p].op = "password" PROVE FALSE
      OBVIOUS
    <3>2. user' = WithPassword(u, job[p].form) /\ user_role' = user_role
      BY <2>1, <2>2, <3>1
         DEF CommitOf, UpdatePasswordByID, CreateCommit, UpdateCommit, DeleteCommit, Step
    <3>3. CASE Exists(u)
      <4>1. user' = [user EXCEPT ![u].pw = job[p].form] /\ user[u] \in Rows
        BY <3>2, <3>3 DEF WithPassword, Exists, TypeOK
      <4>2. user'[u] # None /\ user'[u].status = user[u].status
        <5>1. user'[u] = [user[u] EXCEPT !.pw = job[p].form]
          BY <4>1 DEF TypeOK
        <5>2. job[p].form \in Passwords
          BY <3>1 DEF Shapes, JobShape
        <5> QED
          BY <4>1, <5>1, <5>2, Constants DEF Rows
      <4> QED
        BY <2>1, <3>2, <3>3, <4>2 DEF Commits, Stale, Activated, Exists, RolesOf
    <3>4. CASE ~Exists(u)
      BY <1>1, <2>1, <3>2, <3>4 DEF WithPassword, Commits
    <3> QED
      BY <3>3, <3>4
  <2>5. job[p].op \in {"update", "delete"} /\ job[p].at = "commit"
    BY <2>1, <2>3, <2>4 DEF Commits
  <2>6. Passed(p, "cache")
    BY <2>2, <2>5 DEF Transactions, EntryDeleted
  <2> QED
    BY <2>2, <2>5, <2>6 DEF Ends
<1>8. CASE \E r \in Roles : DeleteRole(r)
  <2>1. PICK r \in Roles : DeleteRole(r)
    BY <1>8
  <2>2. /\ UNCHANGED <<user, cache>>
        /\ user_role' = [v \in Users |-> user_role[v] \ {r}]
        /\ \A q \in Procs : job'[q].at = job[q].at
    BY <2>1, DeletionMarks, AroundFields DEF DeleteRole
  <2>3. r \in cache[u]
    BY <2>2 DEF Stale, Activated, Exists, RolesOf
  <2> QED
    BY <2>2, <2>3 DEF RoleDeleted
<1> QED
  BY <1>3, <1>4, <1>5, <1>6, <1>7, <1>8, StepKinds DEF vars, Quiet, Create

(* An entry of the cache becomes stale only in the three ways that the     *)
(* code leaves open: filled from reads that a commit passed (GetRoleIDs    *)
(* and Cacher.Set of ParseUserID and Login), filled again between the      *)
(* deletion inside User.Update's or User.Delete's transaction and its      *)
(* commit, or a role of it is deleted by Role.Delete.                      *)
THEOREM StaleEntriesExplained == Spec => EntriesExplained
<1>1. AInv /\ [Next]_vars =>
        [\A u \in Users : Stale(u)' /\ ~Stale(u) =>
           \/ \E p \in Procs : /\ job[p].user = u
                               /\ \/ Ends(p, {"admit"}) /\ Passed(p, "rows")
                                  \/ Ends(p, {"update", "delete"}) /\ Passed(p, "cache")
           \/ \E r \in cache[u] : RoleDeleted(r)]_vars
  BY EntryStep
<1> QED
  BY <1>1, AccountsInvariance, PTL DEF Spec, EntriesExplained

(* A step that writes table user or user_role is a commit or Role.Delete.  *)
LEMMA WhoWrites ==
  ASSUME AInv, [Next]_vars
  PROVE  \/ UNCHANGED <<user, user_role>>
         \/ \E p \in Procs : Commits(p) /\ CommitOf(p)
         \/ UNCHANGED user /\ \E r \in Roles :
              user_role' = [v \in Users |-> user_role[v] \ {r}]
<1> USE DEF AInv
<1>1. ASSUME NEW p \in Procs, Write(p) \/ CacheSet(p)
      PROVE  UNCHANGED <<user, user_role>>
  BY <1>1 DEF Write, CacheSet, Fill
<1> QED
  BY <1>1, StepKinds DEF vars, Quiet, Create, Forget, DeleteRole

(* What each commit writes to its user.                                    *)
LEMMA WhatIsWritten ==
  ASSUME AInv, NEW p \in Procs, Commits(p), CommitOf(p)
  PROVE  LET u == job[p].user IN
         \/ /\ job[p].op = "password" /\ UNCHANGED user_role
            /\ (user'[u] = None) <=> (user[u] = None)
            /\ Exists(u) => user'[u].name = user[u].name
         \/ /\ job[p].op = "create" /\ Unborn(u)
            /\ user'[u] # None /\ user'[u].name = job[p].name
         \/ /\ job[p].op = "update" /\ job[p].at = "commit"
            /\ (user'[u] = None) <=> (user[u] = None)
            /\ Exists(u) => user'[u].name = job[p].name /\ user'[u].pw = job[p].pw
         \/ /\ job[p].op = "delete" /\ job[p].at = "commit"
            /\ user'[u] = None /\ user_role'[u] = user_role[u] \ job[p].roles
<1> USE DEF AInv
<1> DEFINE u == job[p].user
<1>1. u \in Users /\ JobShape(p)
  BY DEF Commits, Shapes
<1>2. CASE UpdatePasswordByID(p)
  <2>1. /\ job[p].op = "password" /\ UNCHANGED user_role
        /\ user' = WithPassword(u, job[p].form)
    BY <1>2 DEF UpdatePasswordByID, Step
  <2>2. CASE Exists(u)
    <3>1. user' = [user EXCEPT ![u].pw = job[p].form] /\ user[u] \in Rows
      BY <1>1, <2>1, <2>2 DEF WithPassword, Exists, TypeOK
    <3>2. user'[u] = [user[u] EXCEPT !.pw = job[p].form] /\ job[p].form \in Passwords
      BY <1>1, <2>1, <3>1 DEF TypeOK, JobShape
    <3>3. user'[u] # None /\ user'[u].name = user[u].name
      BY <3>1, <3>2, Constants DEF Rows
    <3> QED
      BY <2>1, <2>2, <3>3 DEF Exists
  <2>3. CASE ~Exists(u)
    BY <2>1, <2>3 DEF WithPassword, Exists
  <2> QED
    BY <2>2, <2>3
<1>3. CASE CreateCommit(p)
  <2>1. PICK st \in Statuses, pw \in Passwords, rs \in SUBSET Roles :
          user' = [user EXCEPT ![u] = [name |-> job[p].name, status |-> st, pw |-> pw]]
    BY <1>3 DEF CreateCommit
  <2>2. job[p].op = "create" /\ job[p].name \in Names
    BY <1>1, <1>3 DEF CreateCommit, Step, JobShape
  <2>3. user'[u] \in Rows /\ user'[u].name = job[p].name
    BY <1>1, <2>1, <2>2 DEF TypeOK, Rows
  <2> QED
    BY <2>2, <2>3, Constants DEF CreatorsAlone
<1>4. CASE UpdateCommit(p)
  <2> DEFINE row(st) == [name |-> job[p].name, status |-> st, pw |-> job[p].pw]
  <2>1. PICK st \in Statuses : user' = Updated(u, row(st))
    BY <1>4 DEF UpdateCommit
  <2>2. job[p].op = "update" /\ job[p].at = "commit" /\ row(st) \in Rows
    BY <1>1, <1>4 DEF UpdateCommit, Step, JobShape, Rows
  <2>3. row(st) # None /\ row(st).name = job[p].name /\ row(st).pw = job[p].pw
    BY <2>2, Constants
  <2> HIDE DEF row
  <2>4. CASE Exists(u)
    BY <1>1, <2>1, <2>2, <2>3, <2>4 DEF Updated, Exists, TypeOK
  <2>5. CASE ~Exists(u)
    BY <2>1, <2>2, <2>5 DEF Updated, Exists
  <2> QED
    BY <2>4, <2>5
<1>5. CASE DeleteCommit(p)
  <2>1. /\ job[p].op = "delete" /\ job[p].at = "commit"
        /\ user' = [user EXCEPT ![u] = None]
        /\ user_role' = WithRoles(u, job[p].roles, {})
    BY <1>5 DEF DeleteCommit, Step
  <2>2. user'[u] = None /\ user_role'[u] = user_role[u] \ job[p].roles
    BY <1>1, <2>1 DEF WithRoles, TypeOK
  <2> QED
    BY <2>1, <2>2
<1> QED
  BY <1>2, <1>3, <1>4, <1>5 DEF CommitOf

LEMMA PasswordStep ==
  ASSUME AInv, [Next]_vars, NEW u \in Users, user[u] # None, user'[u] # None,
         user[u].pw # user'[u].pw
  PROVE  \E p \in Procs : /\ job[p].user = u
                          /\ \/ Ends(p, {"password"})
                             \/ Ends(p, {"update"}) /\ job[p].form # None
                             \/ Ends(p, {"update"}) /\ Passed(p, "rows")
<1>1. PICK p \in Procs : Commits(p) /\ CommitOf(p)
  BY WhoWrites
<1>2. job[p].user = u /\ job'[p] = Idle
  BY <1>1 DEF Commits
<1>3. job[p].op \in {"password", "update"} /\ Exists(u)
  BY <1>1, <1>2, WhatIsWritten DEF Unborn, Exists
<1>4. job[p].op = "update" => user'[u].pw = job[p].pw
  BY <1>1, <1>2, <1>3, WhatIsWritten
<1>5. job[p].op = "update" => job[p].form # None \/ Passed(p, "rows")
  BY <1>2, <1>4 DEF AInv, ReadsKept, RowRead
<1> QED
  BY <1>2, <1>3, <1>5 DEF Ends

(* A password changes only by UpdatePassword, ResetPassword, an Update     *)
(* whose form brings one, or an Update that another commit passed after it *)
(* had read the row.                                                       *)
THEOREM PasswordsAreKept == Spec => PasswordKept
<1>1. AInv /\ [Next]_vars =>
        [\A u \in Users :
           user[u] # None /\ user'[u] # None /\ user[u].pw # user'[u].pw =>
             \E p \in Procs : /\ job[p].user = u
                              /\ \/ Ends(p, {"password"})
                                 \/ Ends(p, {"update"}) /\ job[p].form # None
                                 \/ Ends(p, {"update"}) /\ Passed(p, "rows")]_vars
  BY PasswordStep
<1> QED
  BY <1>1, AccountsInvariance, PTL DEF Spec, PasswordKept

LEMMA OrphanStep ==
  ASSUME AInv, [Next]_vars, NEW u \in Users, Orphaned(u)', ~Orphaned(u)
  PROVE  \E p \in Procs : Ends(p, {"update"}) /\ job[p].user = u /\ Passed(p, "rows")
<1>1. user'[u] = None /\ user_role'[u] # {} /\ (user[u] # None \/ user_role[u] = {})
  BY DEF Orphaned
<1>2. PICK p \in Procs : Commits(p) /\ CommitOf(p)
  BY <1>1, WhoWrites
<1>3. job[p].user = u /\ job'[p] = Idle
  BY <1>1, <1>2 DEF Commits
<1>4. job[p].op # "delete"
  <2>1. SUFFICES ASSUME job[p].op = "delete" PROVE FALSE
    OBVIOUS
  <2>2. job[p].at = "commit" /\ user_role'[u] = user_role[u] \ job[p].roles
    BY <1>2, <1>3, <2>1, WhatIsWritten
  <2>3. Exists(u)
    BY <1>1, <2>2 DEF Exists
  <2>4. user_role[u] \subseteq job[p].roles
    BY <1>3, <2>2, <2>3 DEF AInv, Transactions, RowHeld
  <2> QED
    BY <1>1, <2>2, <2>4
<1>5. job[p].op = "update" /\ ~Exists(u)
  BY <1>1, <1>2, <1>3, <1>4, WhatIsWritten DEF Exists
<1>6. Passed(p, "rows")
  BY <1>3, <1>5 DEF AInv, ReadsKept, RowRead
<1> QED
  BY <1>3, <1>5, <1>6 DEF Ends

(* A user who is gone has roles only through an Update that the deletion   *)
(* passed: DAL.User.Update meets no row, DAL.UserRole.Create inserts.      *)
THEOREM OrphansAreOverlaps == Spec => OrphansNeedOverlap
<1>1. AInv /\ [Next]_vars =>
        [\A u \in Users : Orphaned(u)' /\ ~Orphaned(u) =>
           \E p \in Procs :
             Ends(p, {"update"}) /\ job[p].user = u /\ Passed(p, "rows")]_vars
  BY OrphanStep
<1> QED
  BY <1>1, AccountsInvariance, PTL DEF Spec, OrphansNeedOverlap

LEMMA DoubleStep ==
  ASSUME AInv, [Next]_vars, NEW n \in Names, Doubled(n)', ~Doubled(n)
  PROVE  \E p \in Procs : /\ job[p].name = n
                          /\ \/ Ends(p, {"create", "update"}) /\ Passed(p, "name")
                             \/ Ends(p, {"update"}) /\ Passed(p, "rows")
<1> DEFINE A == Named(n)
           B == { v \in Users : user'[v] # None /\ user'[v].name = n }
<1>1. A \subseteq Users /\ B \subseteq Users /\ B = Named(n)'
  BY DEF Named, Exists
<1>2. Cardinality(B) > 1 /\ ~(Cardinality(A) > 1)
  BY <1>1 DEF Doubled
<1>3. \A v \in Users : v \in A <=> user[v] # None /\ user[v].name = n
  BY DEF Named, Exists
<1>4. \A v \in Users : v \in B <=> user'[v] # None /\ user'[v].name = n
  OBVIOUS
<1> HIDE DEF A, B
<1>5. IsFiniteSet(A)
  BY <1>1, Constants, FS_Subset
<1>6. ~(B \subseteq A)
  <2>1. SUFFICES ASSUME B \subseteq A PROVE FALSE
    OBVIOUS
  <2>2. IsFiniteSet(B) /\ Cardinality(B) <= Cardinality(A)
    BY <1>5, <2>1, FS_Subset
  <2>3. Cardinality(A) \in Nat /\ Cardinality(B) \in Nat
    BY <1>5, <2>2, FS_CardinalityType
  <2> QED
    BY <1>2, <2>2, <2>3
<1>7. PICK p \in Procs : Commits(p) /\ CommitOf(p)
  BY <1>1, <1>3, <1>4, <1>6, WhoWrites
<1> DEFINE u == job[p].user
<1>8. job'[p] = Idle /\ u \in B /\ u \notin A /\ \A v \in B : v = u \/ v \in A
  BY <1>1, <1>3, <1>4, <1>6, <1>7 DEF Commits
<1>9. job[p].op \in {"create", "update"} /\ job[p].name = n
  BY <1>1, <1>3, <1>4, <1>7, <1>8, WhatIsWritten DEF Exists
<1>10. A # {}
  <2>1. SUFFICES ASSUME A = {} PROVE FALSE
    OBVIOUS
  <2>2. B = {u}
    BY <1>8, <2>1
  <2>3. Cardinality(B) = 1
    BY <2>2, FS_Singleton
  <2> QED
    BY <1>2, <2>3
<1>11. job[p].op = "create" => Passed(p, "name")
  BY <1>9, <1>10 DEF AInv, ReadsKept, NameFree, A
<1>12. job[p].op = "update" => Passed(p, "name") \/ Passed(p, "rows")
  <2>1. SUFFICES ASSUME job[p].op = "update", ~Passed(p, "name"), ~Passed(p, "rows")
                 PROVE  FALSE
    OBVIOUS
  <2>2. job[p].at = "commit"
    BY <1>7, <2>1 DEF Commits
  <2>3. user[u] # None /\ (Named(n) = {} \/ user[u].name = n)
    BY <1>9, <2>1, <2>2 DEF AInv, ReadsKept, NameFree, RowRead, Exists
  <2> QED
    BY <1>1, <1>3, <1>8, <1>10, <2>3 DEF A
<1> QED
  BY <1>8, <1>9, <1>11, <1>12 DEF Ends

(* Two users come to have one name only when one took it after the other   *)
(* had looked for it (ExistsUsername of Create and Update), or when an     *)
(* Update that another commit passed puts back the name it had read.       *)
THEOREM DoubledNamesAreOverlaps == Spec => DoubledNamesNeedOverlap
<1>1. AInv /\ [Next]_vars =>
        [\A n \in Names : Doubled(n)' /\ ~Doubled(n) =>
           \E p \in Procs :
             /\ job[p].name = n
             /\ \/ Ends(p, {"create", "update"}) /\ Passed(p, "name")
                \/ Ends(p, {"update"}) /\ Passed(p, "rows")]_vars
  BY DoubleStep
<1> QED
  BY <1>1, AccountsInvariance, PTL DEF Spec, DoubledNamesNeedOverlap
=============================================================================
