----------------------------- MODULE PolicyReload -----------------------------
(***************************************************************************)
(* How a change of roles and menus reaches the Casbin enforcer.            *)
(*                                                                         *)
(* The handlers that change roles or menus do so in a transaction, whose   *)
(* last act is to read the clock and put the time, in seconds, into the    *)
(* cache; the commit comes after.  Casbinx.autoLoad looks at that time at  *)
(* every tick of its timer and, when it is newer than the one it loaded    *)
(* for, reads all roles with their menus and resources, query by query,    *)
(* and installs a new enforcer.  Transactions, loads, the clock and        *)
(* crashes interleave.                                                     *)
(*                                                                         *)
(* A resource is named by its menu.                                        *)
(***************************************************************************)
EXTENDS Naturals, FiniteSets

CONSTANTS
  Roles, Menus,
  Writers,     \* handlers of role and menu requests
  NoRole,      \* a role that is absent or not enabled
  None,        \* no transaction, no time in the cache, no enforcer
  FileChanges, \* TRUE: a start may find a menu file that differs from the tables
  MaxClock, MaxWrites, MaxFaults   \* bounds

ASSUME PolicyAssumption ==
  /\ \A list \in SUBSET Menus : list # NoRole
  /\ \A policy \in SUBSET (Roles \X Menus) : policy # None
  /\ None \notin Nat
  /\ FileChanges \in BOOLEAN
  /\ MaxClock \in Nat \ {0} /\ MaxWrites \in Nat /\ MaxFaults \in Nat

VARIABLES
  \* the tables
  lists,      \* role, role_menu: Roles -> enabled menus and their ancestors, or NoRole
  res,        \* menu_resource: the menus that have their resource
  \* the cache
  stamp,      \* "sync:casbin": a time in seconds, or None
  \* the process
  phase,      \* "down", "loading" (first Load), "menus" (InitFromFile), "up"
  open,       \* the writers in a transaction
  told,       \* the time each of them has read from the clock, or None
  put,        \* those that have put it into the cache
  enforcer,   \* the policy installed, pairs <<role, menu>>, or None
  lastUpdated,
  loader,     \* step of the load: "idle", "roles", "menus", "resources"
  target,     \* the time the load is for
  todo,       \* roles of the load not read yet
  found,      \* <<role, its menus>> between the two queries for a role
  buf,        \* what the load has read
  \* time and bounds
  clock, writes, faults,
  \* history: what may leave the enforcer behind the tables
  missed,     \* a change, or a load to repeat, that no load will be due for
  skipped     \* the last load left out a role whose query failed

dbVars   == <<lists, res>>
loadVars == <<loader, target, todo, found, buf>>
txVars   == <<open, told, put>>
vars == <<dbVars, stamp, phase, txVars, enforcer, lastUpdated, loadVars,
          clock, writes, faults, missed, skipped>>

Policy == { p \in Roles \X Menus :
              lists[p[1]] # NoRole /\ p[2] \in lists[p[1]] /\ p[2] \in res }

NoLoad == /\ loader = "idle" /\ target = 0 /\ todo = {} /\ found = None /\ buf = {}

Init ==
  /\ lists \in [Roles -> {Menus, NoRole}] /\ res = Menus
  /\ stamp = None /\ phase = "down"
  /\ open = {} /\ told = [w \in Writers |-> None] /\ put = {}
  /\ enforcer = None /\ lastUpdated = 0 /\ NoLoad
  /\ clock = 1 /\ writes = 0 /\ faults = 0
  /\ missed = FALSE /\ skipped = FALSE

-----------------------------------------------------------------------------
(* The transactions.  What one changes is chosen when it commits: nobody   *)
(* sees it before.                                                         *)

Begin(w) ==
  /\ phase = "up" /\ w \notin open
  /\ writes < MaxWrites /\ writes' = writes + 1
  /\ open' = open \cup {w}
  /\ UNCHANGED <<dbVars, stamp, phase, told, put, enforcer, lastUpdated, loadVars,
                 clock, faults, missed, skipped>>

(* Is the time t newer than that of the last load ...                      *)
Newer(t) == t # None /\ lastUpdated < t

(* ... and will it start another one, after the one under way if any?      *)
WillLoad(t) == Newer(t) /\ (loader # "idle" => target < t)

(* syncToCasbin, the last statement before the commit: time.Now ...        *)
ReadClock(w) ==
  /\ w \in open /\ told[w] = None
  /\ told' = [told EXCEPT ![w] = clock]
  /\ UNCHANGED <<dbVars, stamp, phase, open, put, enforcer, lastUpdated, loadVars,
                 clock, writes, faults, missed, skipped>>

(* ... and Cache.Set, which may put an older time over a newer one.        *)
SyncToCasbinLost(w) ==   \* mutant: nothing is put into the cache
  /\ told[w] # None /\ w \notin put
  /\ put' = put \cup {w}
  /\ UNCHANGED <<dbVars, stamp, phase, open, told, enforcer, lastUpdated, loadVars,
                 clock, writes, faults, missed, skipped>>

SyncToCasbin(w) ==
  /\ told[w] # None /\ w \notin put
  /\ stamp' = told[w]
  /\ put' = put \cup {w}
  /\ missed' = (missed \/ (WillLoad(stamp) /\ ~WillLoad(told[w])))
  /\ UNCHANGED <<dbVars, phase, open, told, enforcer, lastUpdated, loadVars,
                 clock, writes, faults, skipped>>

(* Create or update an enabled role.                                       *)
SetRole ==
  /\ \E r \in Roles, list \in SUBSET Menus : lists' = [lists EXCEPT ![r] = list]
  /\ UNCHANGED res

(* Delete or disable a role.                                               *)
DropRole ==
  /\ \E r \in Roles : lists' = [lists EXCEPT ![r] = NoRole]
  /\ UNCHANGED res

Relisted(list) ==
  [r \in Roles |-> IF lists[r] = NoRole THEN NoRole ELSE list[r]]

(* Update a menu and its resources.  Moved, or enabled with all below it,  *)
(* it makes other menus count for the roles.  (A new menu counts for none, *)
(* and Menu.Create tells the cache nothing.)                               *)
SetMenu ==
  /\ \E list \in [Roles -> SUBSET Menus] : lists' = Relisted(list)
  /\ \E m \in Menus : res' \in {res \cup {m}, res \ {m}}

(* Delete a subtree.  Menus above it may have counted for its sake.        *)
DeleteMenus ==
  \E gone \in SUBSET Menus \ {{}} :
    /\ \E list \in [Roles -> SUBSET (Menus \ gone)] :
         lists' = Relisted([r \in Roles |-> lists[r] \cap list[r]])
    /\ res' = res \ gone

Change == SetRole \/ DropRole \/ SetMenu \/ DeleteMenus

(* No load will be due for the time that w put into the cache, or for the  *)
(* older one that another writer has put over it.                          *)
TooLate(w) == \E t \in {told[w], stamp} \ {None} : t <= told[w] /\ ~WillLoad(t)

Close(w) ==
  /\ open' = open \ {w} /\ put' = put \ {w}
  /\ told' = [told EXCEPT ![w] = None]

Commit(w) ==
  /\ w \in put
  /\ Change
  /\ missed' = (missed \/ TooLate(w))
  /\ Close(w)
  /\ UNCHANGED <<stamp, phase, enforcer, lastUpdated, loadVars,
                 clock, writes, faults, skipped>>

(* A statement, the cache or the commit fails; the time stays in the cache. *)
RollBack(w) ==
  /\ w \in open
  /\ faults < MaxFaults /\ faults' = faults + 1
  /\ Close(w)
  /\ UNCHANGED <<dbVars, stamp, phase, enforcer, lastUpdated, loadVars,
                 clock, writes, missed, skipped>>

-----------------------------------------------------------------------------
(* Casbinx.load, for the time t.                                           *)

StartLoad(t) ==
  /\ loader' = "roles" /\ target' = t
  /\ todo' = {} /\ found' = None /\ buf' = {}
  /\ missed' = FALSE /\ skipped' = FALSE

(* autoLoad, at a tick of its timer, once Load has started it.             *)
AutoLoadLate ==   \* mutant: off by one
  /\ phase \in {"menus", "up"} /\ loader = "idle"
  /\ stamp # None /\ lastUpdated + 1 < stamp
  /\ StartLoad(stamp)
  /\ UNCHANGED <<dbVars, stamp, phase, txVars, enforcer, lastUpdated,
                 clock, writes, faults>>

AutoLoad ==
  /\ phase \in {"menus", "up"} /\ loader = "idle"
  /\ Newer(stamp)
  /\ StartLoad(stamp)
  /\ UNCHANGED <<dbVars, stamp, phase, txVars, enforcer, lastUpdated,
                 clock, writes, faults>>

LoadEnds ==
  /\ loader' = "idle" /\ target' = 0 /\ todo' = {} /\ found' = None /\ buf' = {}

(* load returns nil: the first load goes on with InitFromFile, a later one *)
(* notes the time it was for.                                              *)
LoadSucceeds ==
  /\ phase' = IF phase = "loading" THEN "menus" ELSE phase
  /\ lastUpdated' = IF phase = "loading" THEN lastUpdated ELSE target
  /\ UNCHANGED missed
  /\ LoadEnds

(* load returns an error: the first load ends the process, a later one is  *)
(* repeated at the next tick, if the time in the cache is still newer.     *)
LoadFails ==
  /\ phase' = IF phase = "loading" THEN "down" ELSE phase
  /\ UNCHANGED lastUpdated
  /\ missed' = (missed \/ (phase # "loading" /\ ~Newer(stamp)))
  /\ LoadEnds

EnabledRoles == { r \in Roles : lists[r] # NoRole }

QueryRoles ==
  /\ loader = "roles"
  /\ \/ /\ EnabledRoles # {}
        /\ loader' = "menus" /\ todo' = EnabledRoles
        /\ UNCHANGED <<phase, lastUpdated, target, found, buf, faults, missed>>
     \/ /\ EnabledRoles = {}
        /\ LoadSucceeds
        /\ UNCHANGED faults
     \/ /\ faults < MaxFaults /\ faults' = faults + 1
        /\ LoadFails
  /\ UNCHANGED <<dbVars, stamp, txVars, enforcer, clock, writes, skipped>>

(* queryRoleResources, first the menus of the role; one that was disabled   *)
(* in the meantime still has any it had ...                                *)
QueryMenus(r) ==
  /\ loader = "menus" /\ r \in todo
  /\ todo' = todo \ {r}
  /\ \/ /\ \E list \in IF lists[r] = NoRole THEN SUBSET Menus ELSE {lists[r]} :
              found' = <<r, list>>
        /\ loader' = "resources"
        /\ UNCHANGED <<faults, skipped>>
     \/ /\ faults < MaxFaults /\ faults' = faults + 1
        /\ skipped' = TRUE
        /\ UNCHANGED <<found, loader>>
  /\ UNCHANGED <<dbVars, stamp, phase, txVars, enforcer, lastUpdated, target, buf,
                 clock, writes, missed>>

(* ... then their resources.  A query that fails is logged, no more.       *)
ResourcesOf(ms) == ms \cap res

LinesNoRole(f) == ResourcesOf(f[2])   \* mutant: policy lines without the role

Lines(f) == {f[1]} \X ResourcesOf(f[2])

QueryResources ==
  /\ loader = "resources"
  /\ loader' = "menus" /\ found' = None
  /\ \/ /\ buf' = buf \cup Lines(found)
        /\ UNCHANGED <<faults, skipped>>
     \/ /\ faults < MaxFaults /\ faults' = faults + 1
        /\ skipped' = TRUE
        /\ UNCHANGED buf
  /\ UNCHANGED <<dbVars, stamp, phase, txVars, enforcer, lastUpdated, target, todo,
                 clock, writes, missed>>

(* Write the policy file and build an enforcer on it; if there is nothing  *)
(* to write, the enforcer in place stays.                                  *)
Install ==
  /\ loader = "menus" /\ todo = {}
  /\ \/ /\ enforcer' = IF buf # {} THEN buf ELSE enforcer
        /\ LoadSucceeds
        /\ UNCHANGED faults
     \/ /\ buf # {}
        /\ faults < MaxFaults /\ faults' = faults + 1
        /\ LoadFails
        /\ UNCHANGED enforcer
  /\ UNCHANGED <<dbVars, stamp, txVars, clock, writes, skipped>>

-----------------------------------------------------------------------------
(* The process: RBAC.Init loads the policy, then brings the menus in line  *)
(* with the menu file, then requests are served.                           *)

Start ==
  /\ phase = "down"
  /\ phase' = "loading"
  /\ StartLoad(0)
  /\ UNCHANGED <<dbVars, stamp, txVars, enforcer, lastUpdated, clock, writes, faults>>

(* The file may give menus a resource, and sets their status again, so     *)
(* that others count for the roles; an error is only logged, and the cache *)
(* is not told.                                                            *)
InitFromFile ==
  /\ phase = "menus"
  /\ phase' = "up"
  /\ \/ /\ FileChanges
        /\ \E list \in [Roles -> SUBSET Menus] : lists' = Relisted(list)
        /\ \E more \in SUBSET Menus : res' = res \cup more
        /\ missed' = TRUE
     \/ UNCHANGED <<dbVars, missed>>
  /\ UNCHANGED <<stamp, txVars, enforcer, lastUpdated, loadVars,
                 clock, writes, faults, skipped>>

(* Memory is lost, and with it the cache if that is where it is kept.      *)
Crash ==
  /\ phase # "down"
  /\ faults < MaxFaults /\ faults' = faults + 1
  /\ phase' = "down"
  /\ stamp' \in {stamp, None}
  /\ open' = {} /\ told' = [w \in Writers |-> None] /\ put' = {}
  /\ enforcer' = None /\ lastUpdated' = 0 /\ LoadEnds
  /\ UNCHANGED <<dbVars, clock, writes, missed, skipped>>

Tick ==
  /\ clock < MaxClock /\ clock' = clock + 1
  /\ UNCHANGED <<dbVars, stamp, phase, txVars, enforcer, lastUpdated, loadVars,
                 writes, faults, missed, skipped>>

LoaderStep ==
  \/ AutoLoad
  \/ QueryRoles
  \/ \E r \in Roles : QueryMenus(r)
  \/ QueryResources
  \/ Install

Next ==
  \/ \E w \in Writers :
         Begin(w) \/ ReadClock(w) \/ SyncToCasbin(w) \/ Commit(w) \/ RollBack(w)
  \/ LoaderStep
  \/ Start \/ InitFromFile \/ Crash \/ Tick

Spec == Init /\ [][Next]_vars

(* The goroutine of autoLoad runs for ever; its queries return.            *)
FairSpec == Spec /\ WF_vars(LoaderStep) /\ WF_vars(InitFromFile)

-----------------------------------------------------------------------------
(* Properties.                                                             *)

TypeOK ==
  /\ \A r \in Roles : lists[r] = NoRole \/ lists[r] \subseteq Menus
  /\ res \subseteq Menus
  /\ stamp \in 1 .. MaxClock \cup {None} /\ clock \in 1 .. MaxClock
  /\ phase \in {"down", "loading", "menus", "up"}
  /\ open \subseteq Writers
  /\ \A w \in Writers : told[w] = None \/ (told[w] \in 1 .. clock /\ w \in open)
  /\ put \subseteq { w \in open : told[w] # None }
  /\ enforcer = None \/ enforcer \subseteq Roles \X Menus
  /\ lastUpdated \in 0 .. MaxClock /\ target \in 0 .. MaxClock
  /\ loader \in {"idle", "roles", "menus", "resources"}
  /\ todo \subseteq Roles /\ buf \subseteq Roles \X Menus
  /\ loader = "resources" => found \in Roles \X SUBSET Menus
  /\ writes \in 0 .. MaxWrites /\ faults \in 0 .. MaxFaults
  /\ missed \in BOOLEAN /\ skipped \in BOOLEAN

Settled ==
  /\ phase = "up" /\ loader = "idle"
  /\ stamp = None \/ stamp <= lastUpdated

Current == IF enforcer = None THEN Policy = {} ELSE enforcer = Policy

(* Once no load is due, the enforcer is behind the tables only             *)
(*  - by a change committed when the time in the cache, its own or an older *)
(*    one put over it, had been loaded for already; by changes whose load   *)
(*    was due, or failed and was to be repeated, when an older time was put *)
(*    over theirs; or by what the menu file changed (missed);               *)
(*  - if a query for a role failed during the load (skipped);               *)
(*  - if the tables grant nothing to anybody (casbin.go:70, 112).           *)
StaleExplained == Settled => Current \/ missed \/ skipped \/ Policy = {}

(* A change whose time is newer than the last load's is not forgotten, as   *)
(* long as the process lives and no other change comes: the enforcer gets   *)
(* to the tables' policy, whatever loads fail on the way.                   *)
Due == phase = "up" /\ Newer(stamp)

Quiet == phase = "up" /\ open = {}

CatchesUp == Due /\ Quiet ~> Settled \/ ~Quiet

=============================================================================
