------------------------- MODULE PolicyReload_proofs -------------------------
(***************************************************************************)
(* Proofs about PolicyReload, for any roles, menus and handlers, any       *)
(* length of time, and any number of changes and faults.                   *)
(***************************************************************************)
EXTENDS PolicyReload, TLAPS

-----------------------------------------------------------------------------
(* The inductive invariant.                                                *)

Typed ==
  /\ lists \in [Roles -> {NoRole} \cup SUBSET Menus]
  /\ told \in [Writers -> Nat \cup {None}]

(* A process that is down loads nothing, and nothing is read before the    *)
(* roles are.                                                              *)
Phases ==
  /\ phase = "down" => loader = "idle"
  /\ loader = "roles" => buf = {}

(* There is a time in the cache while a transaction that has put its own   *)
(* there is open: a crash ends them all.                                   *)
TimeStored == put # {} => stamp # None

(* When no load will be due, and neither of the causes is there, what   *)
(* the load has read of the roles done is what the tables grant them ...   *)
Granted(rs) == {p \in Policy : p[1] \in rs}
Certain == ~missed /\ ~skipped /\ ~WillLoad(stamp)

LoadTrue ==
  /\ loader = "menus" /\ Certain =>
       todo \subseteq EnabledRoles /\ buf = Granted(Roles \ todo)
  /\ loader = "resources" /\ Certain =>
       /\ todo \subseteq EnabledRoles /\ found[1] \notin todo
       /\ found[1] \in EnabledRoles /\ found[2] = lists[found[1]]
       /\ buf = Granted(Roles \ (todo \cup {found[1]}))

(* ... and after it the enforcer is, unless they grant nothing.            *)
InForce ==
  phase \in {"menus", "up"} /\ loader = "idle" /\ Certain => Current \/ Policy = {}

Content == LoadTrue /\ InForce

PInv == TypeOK /\ Typed /\ Phases /\ TimeStored /\ Content

-----------------------------------------------------------------------------
(* The types.                                                              *)

LEMMA Bounds ==
  /\ MaxClock \in Nat /\ 1 \in 1..MaxClock /\ 0 \in 0..MaxClock
  /\ 0 \in 0..MaxWrites /\ 0 \in 0..MaxFaults /\ None \notin Nat
BY PolicyAssumption DEF PolicyAssumption

(* The tables after a change are tables.                                   *)
LEMMA ChangesType ==
  ASSUME TypeOK, Typed, Change
  PROVE  /\ lists' \in [Roles -> {NoRole} \cup SUBSET Menus]
         /\ res' \subseteq Menus
<1>1. ASSUME NEW list \in [Roles -> SUBSET Menus]
      PROVE  Relisted(list) \in [Roles -> {NoRole} \cup SUBSET Menus]
  BY DEF Relisted
<1>2. CASE SetRole
  BY <1>2 DEF SetRole, TypeOK, Typed
<1>3. CASE DropRole
  BY <1>3 DEF DropRole, TypeOK, Typed
<1>4. CASE SetMenu
  <2>1. PICK list \in [Roles -> SUBSET Menus] : lists' = Relisted(list)
    BY <1>4 DEF SetMenu
  <2>2. lists' \in [Roles -> {NoRole} \cup SUBSET Menus]
    BY <1>1, <2>1
  <2>3. res' \subseteq Menus
    BY <1>4 DEF SetMenu, TypeOK
  <2> QED
    BY <2>2, <2>3
<1>5. CASE DeleteMenus
  <2>1. PICK gone \in SUBSET Menus :
          /\ \E list \in [Roles -> SUBSET (Menus \ gone)] :
               lists' = Relisted([r \in Roles |-> lists[r] \cap list[r]])
          /\ res' = res \ gone
    BY <1>5 DEF DeleteMenus
  <2>2. PICK list \in [Roles -> SUBSET (Menus \ gone)] :
          lists' = Relisted([r \in Roles |-> lists[r] \cap list[r]])
    BY <2>1
  <2>3. [r \in Roles |-> lists[r] \cap list[r]] \in [Roles -> SUBSET Menus]
    BY <2>2
  <2>4. lists' \in [Roles -> {NoRole} \cup SUBSET Menus]
    BY <1>1, <2>2, <2>3
  <2> QED
    BY <2>1, <2>4 DEF TypeOK
<1> QED
  BY <1>2, <1>3, <1>4, <1>5 DEF Change

(* The three parts of the types that the actions touch.                    *)
TableTypes ==
  /\ lists \in [Roles -> {NoRole} \cup SUBSET Menus]
  /\ res \subseteq Menus

TxTypes ==
  /\ open \subseteq Writers
  /\ told \in [Writers -> Nat \cup {None}]
  /\ \A w \in Writers : told[w] = None \/ (told[w] \in 1..clock /\ w \in open)
  /\ put \subseteq { w \in open : told[w] # None }

LoadTypes ==
  /\ enforcer = None \/ enforcer \subseteq Roles \X Menus
  /\ lastUpdated \in 0..MaxClock /\ target \in 0..MaxClock
  /\ phase \in {"down", "loading", "menus", "up"}
  /\ loader \in {"idle", "roles", "menus", "resources"}
  /\ todo \subseteq Roles /\ buf \subseteq Roles \X Menus
  /\ loader = "resources" => found \in Roles \X SUBSET Menus
  /\ skipped \in BOOLEAN

OtherTypes ==
  /\ stamp \in 1..MaxClock \cup {None} /\ clock \in 1..MaxClock
  /\ writes \in 0..MaxWrites /\ faults \in 0..MaxFaults
  /\ missed \in BOOLEAN

LEMMA TypeParts ==
  TypeOK /\ Typed <=> TableTypes /\ TxTypes /\ LoadTypes /\ OtherTypes
<1>1. TableTypes => \A r \in Roles : lists[r] = NoRole \/ lists[r] \subseteq Menus
  BY DEF TableTypes
<1> QED
  BY <1>1 DEF TypeOK, Typed, TableTypes, TxTypes, LoadTypes, OtherTypes

LEMMA OneMore ==
  ASSUME NEW n \in Nat, NEW i \in 0..n, i < n
  PROVE  i + 1 \in 0..n /\ (i \in 1..n => i + 1 \in 1..n)
OBVIOUS

LEMMA CountersKept ==
  ASSUME OtherTypes
  PROVE  /\ (writes < MaxWrites /\ writes' = writes + 1) => writes' \in 0..MaxWrites
         /\ (faults < MaxFaults /\ faults' = faults + 1) => faults' \in 0..MaxFaults
         /\ (clock < MaxClock /\ clock' = clock + 1) => clock' \in 1..MaxClock
         /\ stamp = None \/ stamp \in 0..MaxClock
         /\ clock \in 0..MaxClock /\ clock \in Nat
BY PolicyAssumption DEF PolicyAssumption, OtherTypes

LEMMA TxKept ==
  ASSUME TypeOK, Typed, [Next]_vars
  PROVE  TxTypes'
<1>0. TxTypes /\ OtherTypes /\ clock \in Nat
  BY TypeParts, CountersKept
<1>1. ASSUME UNCHANGED txVars, clock' \in Nat, clock' >= clock
      PROVE  TxTypes'
  <2>1. open' = open /\ told' = told /\ put' = put
    BY <1>1 DEF txVars
  <2>2. 1..clock \subseteq 1..clock'
    BY <1>0, <1>1
  <2> QED
    BY <1>0, <2>1, <2>2 DEF TxTypes
<1>2. ASSUME clock' = clock,
             \/ UNCHANGED txVars
             \/ \E w \in Writers :
                  Begin(w) \/ ReadClock(w) \/ SyncToCasbin(w) \/ Commit(w) \/ RollBack(w)
             \/ Crash
      PROVE  TxTypes'
  <2>1. CASE UNCHANGED txVars
    BY <1>0, <1>1, <1>2, <2>1
  <2>2. ASSUME NEW w \in Writers, Begin(w)
        PROVE  TxTypes'
    BY <1>0, <1>2, <2>2 DEF Begin, TxTypes
  <2>3. ASSUME NEW w \in Writers, ReadClock(w)
        PROVE  TxTypes'
    <3>1. clock \in 1..clock
      BY <1>0 DEF OtherTypes
    <3>2. /\ w \in open /\ told' = [told EXCEPT ![w] = clock]
          /\ open' = open /\ put' = put
      BY <2>3 DEF ReadClock
    <3>3. clock # None
      BY <1>0, Bounds
    <3> QED
      BY <1>0, <1>2, <3>1, <3>2, <3>3 DEF TxTypes
  <2>4. ASSUME NEW w \in Writers, SyncToCasbin(w)
        PROVE  TxTypes'
    <3>1. /\ told[w] # None /\ put' = put \cup {w}
          /\ open' = open /\ told' = told
      BY <2>4 DEF SyncToCasbin
    <3> QED
      BY <1>0, <1>2, <3>1 DEF TxTypes
  <2>5. ASSUME NEW w \in Writers, Commit(w) \/ RollBack(w)
        PROVE  TxTypes'
    <3>1. /\ open' = open \ {w} /\ put' = put \ {w}
          /\ told' = [told EXCEPT ![w] = None]
      BY <2>5 DEF Commit, RollBack, Close
    <3> QED
      BY <1>0, <1>2, <3>1 DEF TxTypes
  <2>6. CASE Crash
    <3>1. open' = {} /\ told' = [w \in Writers |-> None] /\ put' = {}
      BY <2>6 DEF Crash
    <3> QED
      BY <3>1 DEF TxTypes
  <2> QED
    BY <1>2, <2>1, <2>2, <2>3, <2>4, <2>5, <2>6
<1>3. CASE Tick
  <2>1. UNCHANGED txVars /\ clock' = clock + 1
    BY <1>3 DEF Tick
  <2> QED
    BY <1>0, <1>1, <2>1
<1> QED
  BY <1>2, <1>3
     DEF Next, LoaderStep, vars, Begin, ReadClock, SyncToCasbin, Commit, RollBack, AutoLoad, QueryRoles,
         QueryMenus, QueryResources, Install, Start, InitFromFile, Crash

LEMMA OthersKept ==
  ASSUME TypeOK, Typed, [Next]_vars
  PROVE  OtherTypes'
<1>0. OtherTypes
  BY TypeParts
<1> HIDE DEF OtherTypes
<1>1. writes' = writes \/ (writes < MaxWrites /\ writes' = writes + 1)
  BY DEF Next, LoaderStep, vars, Begin, ReadClock, SyncToCasbin, Commit, RollBack, AutoLoad, QueryRoles,
         QueryMenus, QueryResources, Install, Start, InitFromFile, Crash, Tick
<1>2. faults' = faults \/ (faults < MaxFaults /\ faults' = faults + 1)
  BY DEF Next, LoaderStep, vars, Begin, ReadClock, SyncToCasbin, Commit, RollBack, AutoLoad, QueryRoles,
         QueryMenus, QueryResources, Install, Start, InitFromFile, Crash, Tick
<1>3. clock' = clock \/ (clock < MaxClock /\ clock' = clock + 1)
  BY DEF Next, LoaderStep, vars, Begin, ReadClock, SyncToCasbin, Commit, RollBack, AutoLoad, QueryRoles,
         QueryMenus, QueryResources, Install, Start, InitFromFile, Crash, Tick
<1>4. stamp' \in {stamp, None} \/ \E w \in Writers : SyncToCasbin(w)
  BY DEF Next, LoaderStep, vars, Begin, ReadClock, SyncToCasbin, Commit, RollBack, AutoLoad, QueryRoles,
         QueryMenus, QueryResources, Install, Start, InitFromFile, Crash, Tick
<1>5. ASSUME NEW w \in Writers, SyncToCasbin(w)
      PROVE  stamp' \in 1..MaxClock
  <2>1. stamp' = told[w] /\ told[w] # None
    BY <1>5 DEF SyncToCasbin
  <2>2. TxTypes /\ clock \in 1..MaxClock
    BY TypeParts DEF OtherTypes
  <2>3. told[w] \in 1..clock
    BY <2>1, <2>2 DEF TxTypes
  <2>4. 1..clock \subseteq 1..MaxClock
    BY <2>2, Bounds
  <2> QED
    BY <2>1, <2>3, <2>4
<1>6. missed' = missed \/ missed' \in BOOLEAN
  BY DEF Next, LoaderStep, vars, Begin, ReadClock, SyncToCasbin, Commit, RollBack, AutoLoad, QueryRoles,
         QueryMenus, QueryResources, Install, Start, InitFromFile, Crash, Tick, StartLoad,
         LoadSucceeds, LoadFails
<1> QED
  BY <1>0, <1>1, <1>2, <1>3, <1>4, <1>5, <1>6, CountersKept DEF OtherTypes

LEMMA TablesKept ==
  ASSUME TypeOK, Typed, [Next]_vars
  PROVE  TableTypes'
<1>0. TableTypes /\ TxTypes
  BY TypeParts
<1>1. ASSUME NEW w \in Writers, Commit(w)
      PROVE  TableTypes'
  <2>1. Change
    BY <1>1 DEF Commit
  <2> QED
    BY <2>1, ChangesType DEF TableTypes
<1>2. CASE InitFromFile
  <2>1. CASE UNCHANGED dbVars
    BY <1>0, <2>1 DEF dbVars, TableTypes
  <2>2. ASSUME NEW list \in [Roles -> SUBSET Menus], lists' = Relisted(list)
        PROVE  lists' \in [Roles -> {NoRole} \cup SUBSET Menus]
    BY <1>0, <2>2 DEF Relisted, TableTypes
  <2> QED
    BY <1>0, <1>2, <2>1, <2>2 DEF InitFromFile, TableTypes
<1>3. CASE UNCHANGED dbVars
  BY <1>0, <1>3 DEF dbVars, TableTypes
<1> QED
  BY <1>1, <1>2, <1>3
     DEF Next, LoaderStep, vars, Begin, ReadClock, SyncToCasbin, RollBack, AutoLoad, QueryRoles,
         QueryMenus, QueryResources, Install, Start, Crash, Tick

LEMMA LoadKept ==
  ASSUME TypeOK, Typed, [Next]_vars
  PROVE  LoadTypes'
<1>0. TableTypes /\ TxTypes /\ LoadTypes /\ OtherTypes /\ 0 \in 0..MaxClock
  BY TypeParts, Bounds
<1>1. CASE UNCHANGED <<phase, enforcer, lastUpdated, loadVars, skipped>>
  BY <1>0, <1>1 DEF LoadTypes, loadVars
<1>2. CASE AutoLoad
  <2>1. /\ StartLoad(stamp) /\ stamp \in 0..MaxClock
        /\ UNCHANGED <<phase, enforcer, lastUpdated>>
    BY <1>0, <1>2, CountersKept DEF AutoLoad, Newer
  <2> QED
    BY <1>0, <2>1 DEF StartLoad, LoadTypes
<1>3. CASE Start
  <2>1. StartLoad(0) /\ phase' = "loading" /\ UNCHANGED <<enforcer, lastUpdated>>
    BY <1>3 DEF Start
  <2> QED
    BY <1>0, <2>1 DEF StartLoad, LoadTypes
<1>4. CASE Crash
  BY <1>0, <1>4 DEF Crash, LoadEnds, LoadTypes
<1>5. CASE InitFromFile
  BY <1>0, <1>5 DEF InitFromFile, LoadTypes, loadVars
<1>6. CASE QueryRoles
  BY <1>0, <1>6 DEF QueryRoles, LoadSucceeds, LoadFails, LoadEnds, EnabledRoles, LoadTypes
<1>7. ASSUME NEW r \in Roles, QueryMenus(r)
      PROVE  LoadTypes'
  <2>1. ASSUME NEW list, found' = <<r, list>>,
               list \in IF lists[r] = NoRole THEN SUBSET Menus ELSE {lists[r]}
        PROVE  found' \in Roles \X SUBSET Menus
    BY <1>0, <2>1 DEF TableTypes
  <2> QED
    BY <1>0, <1>7, <2>1 DEF QueryMenus, LoadTypes
<1>8. CASE QueryResources
  <2>1. Lines(found) \subseteq Roles \X Menus
    BY <1>0, <1>8 DEF QueryResources, Lines, ResourcesOf, LoadTypes
  <2> QED
    BY <1>0, <1>8, <2>1 DEF QueryResources, LoadTypes
<1>9. CASE Install
  BY <1>0, <1>9 DEF Install, LoadSucceeds, LoadFails, LoadEnds, LoadTypes
<1> QED
  BY <1>1, <1>2, <1>3, <1>4, <1>5, <1>6, <1>7, <1>8, <1>9
     DEF Next, LoaderStep, vars, Begin, ReadClock, SyncToCasbin, Commit, RollBack, Tick

LEMMA TypePartsNext ==
  (TypeOK /\ Typed)' <=> (TableTypes /\ TxTypes /\ LoadTypes /\ OtherTypes)'
BY TypeParts, PTL

LEMMA TypesKept ==
  ASSUME TypeOK, Typed, [Next]_vars
  PROVE  TypeOK' /\ Typed'
BY TypePartsNext, TablesKept, TxKept, LoadKept, OthersKept

-----------------------------------------------------------------------------
(* The phases and the time in the cache.                                   *)

LEMMA PhasesKept ==
  ASSUME PInv, [Next]_vars
  PROVE  Phases'
<1>0. Phases /\ LoadTypes
  BY TypeParts DEF PInv
<1>1. CASE UNCHANGED <<phase, loader, buf>>
  BY <1>0, <1>1 DEF Phases
<1>2. CASE AutoLoad \/ Start
  BY <1>2 DEF AutoLoad, Start, StartLoad, Phases
<1>3. CASE QueryRoles
  BY <1>0, <1>3 DEF QueryRoles, LoadSucceeds, LoadFails, LoadEnds, Phases
<1>4. CASE QueryResources \/ \E r \in Roles : QueryMenus(r)
  BY <1>0, <1>4 DEF QueryMenus, QueryResources, Phases
<1>5. CASE Install
  BY <1>5 DEF Install, LoadSucceeds, LoadFails, LoadEnds, Phases
<1>6. CASE InitFromFile
  BY <1>0, <1>6 DEF InitFromFile, Phases, loadVars
<1>7. CASE Crash
  BY <1>7 DEF Crash, LoadEnds, Phases
<1> QED
  BY <1>1, <1>2, <1>3, <1>4, <1>5, <1>6, <1>7
     DEF Next, LoaderStep, vars, loadVars, Begin, ReadClock, SyncToCasbin, Commit, RollBack,
         Tick

LEMMA TimeStoredKept ==
  ASSUME PInv, [Next]_vars
  PROVE  TimeStored'
<1>1. TimeStored
  BY DEF PInv
<1>2. CASE UNCHANGED stamp /\ put' \subseteq put
  BY <1>1, <1>2 DEF TimeStored
<1>3. ASSUME NEW w \in Writers, SyncToCasbin(w)
      PROVE  TimeStored'
  BY <1>3 DEF SyncToCasbin, TimeStored
<1>4. CASE Crash
  BY <1>4 DEF Crash, TimeStored
<1> QED
  BY <1>2, <1>3, <1>4
     DEF Next, LoaderStep, vars, txVars, Begin, ReadClock, Commit, RollBack, Close, AutoLoad,
         QueryRoles, QueryMenus, QueryResources, Install, Start, InitFromFile, Tick

-----------------------------------------------------------------------------
(* The content of the load and of the enforcer.                            *)

(* A step that writes no table and takes no step of the load.              *)
LEMMA ContentStays ==
  ASSUME PInv, UNCHANGED <<dbVars, enforcer, loadVars, missed, skipped>>,
         WillLoad(stamp) => WillLoad(stamp)',
         phase' \in {"menus", "up"} => phase \in {"menus", "up"}
  PROVE  Content'
<1>1. Certain' => Certain
  BY DEF Certain
<1>2. UNCHANGED <<lists, res, enforcer, loader, todo, found, buf>>
  BY DEF dbVars, loadVars
<1>3. Policy' = Policy /\ EnabledRoles' = EnabledRoles
  BY <1>2 DEF Policy, EnabledRoles
<1>4. \A rs : Granted(rs)' = Granted(rs)
  BY <1>3 DEF Granted
<1>5. LoadTrue'
  BY <1>1, <1>2, <1>3, <1>4 DEF LoadTrue, PInv, Content
<1>6. InForce'
  BY <1>1, <1>2, <1>3 DEF InForce, Current, PInv, Content
<1> QED
  BY <1>5, <1>6 DEF Content

LEMMA CommitContent ==
  ASSUME PInv, NEW w \in Writers, Commit(w)
  PROVE  Content'
<1>1. TimeStored /\ TxTypes /\ LoadTypes /\ OtherTypes
  BY TypeParts DEF PInv
<1>2. w \in put /\ told[w] # None /\ told[w] \in Nat /\ stamp # None
  BY <1>1 DEF Commit, TxTypes, TimeStored
<1>3. stamp \in Nat /\ lastUpdated \in Nat /\ target \in Nat
  BY <1>1, <1>2 DEF OtherTypes, LoadTypes
<1>4. missed' = (missed \/ TooLate(w)) /\ UNCHANGED <<stamp, lastUpdated, loader, target>>
  BY DEF Commit, loadVars
<1>5. ASSUME ~TooLate(w)
      PROVE  WillLoad(stamp)
  <2>1. WillLoad(told[w]) /\ (stamp <= told[w] => WillLoad(stamp))
    BY <1>2, <1>3, <1>5 DEF TooLate
  <2> QED
    BY <1>2, <1>3, <2>1 DEF WillLoad, Newer
<1>6. WillLoad(stamp)' <=> WillLoad(stamp)
  BY <1>4 DEF WillLoad, Newer
<1>7. ~Certain'
  BY <1>4, <1>5, <1>6 DEF Certain
<1> QED
  BY <1>7 DEF Content, LoadTrue, InForce

(* The roles read so far grow by one.                                      *)
LEMMA OneRoleRead ==
  ASSUME LoadTypes, TableTypes, NEW r \in Roles, r \in EnabledRoles, r \notin todo
  PROVE  Granted(Roles \ todo) = Granted(Roles \ (todo \cup {r})) \cup ({r} \X (lists[r] \cap res))
<1> DEFINE A == Granted(Roles \ todo)
           B == Granted(Roles \ (todo \cup {r}))
           C == {r} \X (lists[r] \cap res)
<1>1. lists[r] \subseteq Menus /\ lists[r] # NoRole
  BY DEF EnabledRoles, TableTypes
<1>2. ASSUME NEW p
      PROVE  p \in A <=> p \in B \cup C
  <2>1. p \in C <=> p \in Policy /\ p[1] = r
    BY <1>1 DEF Policy
  <2>2. p \in A <=> p \in Policy /\ p[1] \in Roles \ todo
    BY DEF Granted
  <2>3. p \in B <=> p \in Policy /\ p[1] \in Roles \ (todo \cup {r})
    BY DEF Granted
  <2> HIDE DEF A, B, C
  <2> QED
    BY <2>1, <2>2, <2>3
<1> HIDE DEF A, B, C
<1>3. A = B \cup C
  BY <1>2
<1> QED
  BY <1>3 DEF A, B, C

LEMMA PolicyRoles ==
  Policy = Granted(Roles) /\ Policy = Granted(EnabledRoles)
    /\ Granted({}) = {} /\ Policy # None
BY PolicyAssumption DEF PolicyAssumption, Policy, Granted, EnabledRoles

(* The load ends: with what was granted, or for another one.               *)
LEMMA LoadEndsInForce ==
  ASSUME PInv, loader # "idle", UNCHANGED <<dbVars, stamp, skipped>>,
         \/ LoadSucceeds /\ (Certain => Current' \/ Policy = {})
         \/ LoadFails
  PROVE  Content'
<1>0. Phases /\ LoadTypes
  BY TypeParts DEF PInv
<1>1. loader' = "idle"
  BY DEF LoadSucceeds, LoadFails, LoadEnds
<1>2. LoadTrue'
  BY <1>1 DEF LoadTrue
<1>3. Policy' = Policy
  BY DEF dbVars, Policy
<1>4. phase \in {"loading", "menus", "up"}
  BY <1>0 DEF LoadTypes, Phases
<1>5. CASE LoadSucceeds /\ (Certain => Current' \/ Policy = {})
  <2>1. UNCHANGED <<missed, skipped, stamp>> /\ lastUpdated' \in {lastUpdated, target}
    BY <1>5 DEF LoadSucceeds
  <2>2. WillLoad(stamp) => WillLoad(stamp)'
    BY <1>1, <2>1 DEF WillLoad, Newer
  <2>3. Certain' => Certain
    BY <2>1, <2>2 DEF Certain
  <2> QED
    BY <1>2, <1>3, <1>5, <2>3 DEF Content, InForce
<1>6. CASE LoadFails
  <2>1. CASE phase = "loading"
    BY <1>2, <1>6, <2>1 DEF LoadFails, Content, InForce
  <2>2. CASE phase # "loading"
    <3>1. /\ missed' = (missed \/ ~Newer(stamp))
          /\ stamp' = stamp /\ lastUpdated' = lastUpdated
      BY <1>6, <2>2 DEF LoadFails
    <3>2. ~missed' => WillLoad(stamp)'
      BY <1>1, <3>1 DEF WillLoad, Newer
    <3> QED
      BY <1>2, <3>2 DEF Content, InForce, Certain
  <2> QED
    BY <2>1, <2>2
<1> QED
  BY <1>5, <1>6

LEMMA ContentKept ==
  ASSUME PInv, [Next]_vars
  PROVE  Content'
<1>0. /\ Phases /\ Content
      /\ TableTypes /\ TxTypes /\ LoadTypes /\ OtherTypes
  BY TypeParts DEF PInv
<1>1. ASSUME NEW w \in Writers, Begin(w) \/ ReadClock(w) \/ RollBack(w)
      PROVE  Content'
  <2>1. UNCHANGED <<dbVars, stamp, phase, enforcer, lastUpdated, loadVars, missed, skipped>>
    BY <1>1 DEF Begin, ReadClock, RollBack
  <2>2. WillLoad(stamp) => WillLoad(stamp)'
    BY <2>1 DEF WillLoad, Newer, loadVars
  <2> QED
    BY <2>1, <2>2, ContentStays
<1>2. ASSUME NEW w \in Writers, SyncToCasbin(w)
      PROVE  Content'
  <2>1. /\ UNCHANGED <<dbVars, phase, enforcer, lastUpdated, loadVars, skipped>>
        /\ stamp' = told[w]
        /\ missed' = (missed \/ (WillLoad(stamp) /\ ~WillLoad(told[w])))
    BY <1>2 DEF SyncToCasbin
  <2>2. WillLoad(told[w]) <=> WillLoad(stamp)'
    BY <2>1 DEF WillLoad, Newer, loadVars
  <2>3. CASE ~missed' /\ WillLoad(stamp)'
    BY <2>3 DEF Content, LoadTrue, InForce, Certain
  <2>4. CASE missed' = TRUE
    BY <2>4 DEF Content, LoadTrue, InForce, Certain
  <2>5. CASE ~missed' /\ ~WillLoad(stamp)'
    <3>1. ~missed /\ ~WillLoad(stamp)
      BY <2>1, <2>2, <2>5
    <3>2. missed' = missed
      BY <1>0, <2>1, <3>1 DEF OtherTypes
    <3> QED
      BY <2>1, <3>1, <3>2, ContentStays
  <2>6. missed' \in BOOLEAN
    BY <2>1
  <2> QED
    BY <2>3, <2>4, <2>5, <2>6
<1>3. ASSUME NEW w \in Writers, Commit(w)
      PROVE  Content'
  BY <1>3, CommitContent
<1>4. CASE AutoLoad \/ Start
  <2>1. loader' = "roles"
    BY <1>4 DEF AutoLoad, Start, StartLoad
  <2> QED
    BY <2>1 DEF Content, LoadTrue, InForce
<1>5. CASE QueryRoles
  <2>1. /\ loader = "roles" /\ UNCHANGED <<dbVars, stamp, enforcer, skipped>>
        /\ buf = {}
    BY <1>0, <1>5 DEF QueryRoles, Phases
  <2>2. CASE LoadFails \/ (EnabledRoles = {} /\ LoadSucceeds)
    <3>1. EnabledRoles = {} => Policy = {}
      BY PolicyRoles
    <3> QED
      BY <2>1, <2>2, <3>1, LoadEndsInForce
  <2>3. CASE /\ loader' = "menus" /\ todo' = EnabledRoles
             /\ UNCHANGED <<phase, lastUpdated, target, found, buf, faults, missed>>
    <3>1. EnabledRoles' = EnabledRoles /\ Policy' = Policy
      BY <2>1 DEF dbVars, EnabledRoles, Policy
    <3>2. Granted(Roles \ EnabledRoles) = {}
      BY DEF Granted, Policy, EnabledRoles
    <3>3. Granted(Roles \ todo)' = {}
      BY <2>3, <3>1, <3>2 DEF Granted
    <3> QED
      BY <2>1, <2>3, <3>1, <3>3 DEF Content, LoadTrue, InForce
  <2> QED
    BY <1>5, <2>2, <2>3 DEF QueryRoles
<1>6. ASSUME NEW r \in Roles, QueryMenus(r)
      PROVE  Content'
  <2>1. /\ loader = "menus" /\ r \in todo /\ todo' = todo \ {r}
        /\ loader' \in {"menus", "resources"}
        /\ UNCHANGED <<lists, res, stamp, lastUpdated, target, buf, missed>>
        /\ skipped' = TRUE \/ skipped' = skipped
    BY <1>6 DEF QueryMenus, dbVars
  <2>2. CASE skipped' = TRUE
    BY <2>1, <2>2 DEF Content, LoadTrue, InForce, Certain
  <2>3. CASE skipped' # TRUE
    <3>1. /\ loader' = "resources" /\ skipped' = skipped
          /\ \E list \in IF lists[r] = NoRole THEN SUBSET Menus ELSE {lists[r]} :
               found' = <<r, list>>
      BY <1>6, <2>3 DEF QueryMenus
    <3>2. Certain' => Certain
      BY <2>1, <3>1 DEF Certain, WillLoad, Newer
    <3>3. EnabledRoles' = EnabledRoles /\ Policy' = Policy
      BY <2>1 DEF EnabledRoles, Policy
    <3>4. Certain => todo \subseteq EnabledRoles /\ buf = Granted(Roles \ todo)
      BY <1>0, <2>1 DEF Content, LoadTrue
    <3>5. Certain => r \in EnabledRoles /\ found' = <<r, lists[r]>>
      BY <2>1, <3>1, <3>4 DEF EnabledRoles
    <3>6. Roles \ (todo' \cup {r}) = Roles \ todo
      BY <2>1
    <3>7. Granted(Roles \ (todo \cup {found[1]}))' = Granted(Roles \ (todo' \cup {found'[1]}))
      BY <3>3 DEF Granted
    <3> QED
      BY <2>1, <3>1, <3>2, <3>3, <3>4, <3>5, <3>6, <3>7 DEF Content, LoadTrue, InForce
  <2> QED
    BY <2>2, <2>3
<1>7. CASE QueryResources
  <2>1. /\ loader = "resources" /\ loader' = "menus"
        /\ UNCHANGED <<lists, res, stamp, lastUpdated, target, todo, missed>>
        /\ skipped' = TRUE \/ (skipped' = skipped /\ buf' = buf \cup Lines(found))
    BY <1>7 DEF QueryResources, dbVars
  <2>2. CASE skipped' = TRUE
    BY <2>1, <2>2 DEF Content, LoadTrue, InForce, Certain
  <2>3. CASE skipped' = skipped /\ buf' = buf \cup Lines(found)
    <3>1. Certain' => Certain
      BY <2>1, <2>3 DEF Certain, WillLoad, Newer
    <3>2. EnabledRoles' = EnabledRoles /\ Granted(Roles \ todo)' = Granted(Roles \ todo)
      BY <2>1 DEF EnabledRoles, Granted, Policy
    <3>3. ASSUME Certain
          PROVE  todo \subseteq EnabledRoles /\ buf' = Granted(Roles \ todo)
      <4> DEFINE r == found[1]
      <4>1. /\ todo \subseteq EnabledRoles /\ r \notin todo /\ r \in EnabledRoles
            /\ found[2] = lists[r] /\ buf = Granted(Roles \ (todo \cup {r}))
        BY <1>0, <2>1, <3>3 DEF Content, LoadTrue
      <4>2. r \in Roles
        BY <4>1 DEF EnabledRoles
      <4>3. Lines(found) = {r} \X (lists[r] \cap res)
        BY <4>1 DEF Lines, ResourcesOf
      <4> QED
        BY <1>0, <2>3, <4>1, <4>2, <4>3, OneRoleRead
    <3> QED
      BY <2>1, <3>1, <3>2, <3>3 DEF Content, LoadTrue, InForce
  <2> QED
    BY <2>1, <2>2, <2>3
<1>8. CASE Install
  <2>1. /\ loader = "menus" /\ todo = {} /\ UNCHANGED <<dbVars, stamp, skipped>>
        /\ \/ LoadFails
           \/ LoadSucceeds /\ enforcer' = IF buf # {} THEN buf ELSE enforcer
    BY <1>8 DEF Install
  <2>2. Certain => buf = Policy
    <3>1. Certain => buf = Granted(Roles \ todo)
      BY <1>0, <2>1 DEF Content, LoadTrue
    <3>2. Roles \ todo = Roles
      BY <2>1
    <3> QED
      BY <3>1, <3>2, PolicyRoles
  <2>3. Policy' = Policy
    BY <2>1 DEF dbVars, Policy
  <2>4. LoadSucceeds /\ Certain /\ ~LoadFails => Current' \/ Policy = {}
    BY <2>1, <2>2, <2>3, PolicyRoles DEF Current
  <2> QED
    BY <2>1, <2>4, LoadEndsInForce
<1>9. CASE InitFromFile
  <2>1. CASE missed' = TRUE
    BY <2>1 DEF Content, LoadTrue, InForce, Certain
  <2>2. CASE missed' # TRUE
    <3>1. UNCHANGED <<dbVars, stamp, enforcer, lastUpdated, loadVars, missed, skipped>>
            /\ phase = "menus"
      BY <1>9, <2>2 DEF InitFromFile, dbVars
    <3>2. WillLoad(stamp) => WillLoad(stamp)'
      BY <3>1 DEF WillLoad, Newer, loadVars
    <3> QED
      BY <3>1, <3>2, ContentStays
  <2> QED
    BY <2>1, <2>2
<1>10. CASE Crash
  BY <1>10 DEF Crash, LoadEnds, Content, LoadTrue, InForce
<1>11. CASE Tick \/ UNCHANGED vars
  <2>1. UNCHANGED <<dbVars, stamp, phase, enforcer, lastUpdated, loadVars, missed, skipped>>
    BY <1>11 DEF Tick, vars
  <2>2. WillLoad(stamp) => WillLoad(stamp)'
    BY <2>1 DEF WillLoad, Newer, loadVars
  <2> QED
    BY <2>1, <2>2, ContentStays
<1> QED
  BY <1>1, <1>2, <1>3, <1>4, <1>5, <1>6, <1>7, <1>8, <1>9, <1>10, <1>11
     DEF Next, LoaderStep

-----------------------------------------------------------------------------
(* The theorems.                                                           *)

LEMMA InitPolicy == Init => PInv
<1> SUFFICES ASSUME Init PROVE PInv
  OBVIOUS
<1>1. TypeOK /\ Typed
  <2>1. TableTypes /\ TxTypes /\ LoadTypes
    BY Bounds DEF Init, NoLoad, TableTypes, TxTypes, LoadTypes
  <2>2. OtherTypes
    BY Bounds DEF Init, OtherTypes
  <2> QED
    BY <2>1, <2>2, TypeParts
<1>2. Phases /\ TimeStored
  BY DEF Init, NoLoad, Phases, TimeStored
<1>3. Content
  BY DEF Init, NoLoad, Content, LoadTrue, InForce
<1> QED
  BY <1>1, <1>2, <1>3 DEF PInv

(* However the transactions, the ticks of autoLoad, the queries of a load, *)
(* the clock and crashes interleave.                                       *)
THEOREM PolicyInvariance == Spec => []PInv
<1>1. PInv /\ [Next]_vars => PInv'
  BY TypesKept, PhasesKept, TimeStoredKept, ContentKept DEF PInv
<1> QED
  BY <1>1, InitPolicy, PTL DEF Spec

(* The tables, the cache, the load and the enforcer keep their types, and  *)
(* only an open transaction has put a time into the cache.                 *)
THEOREM PolicyTypes == Spec => []TypeOK
<1>1. PInv => TypeOK
  BY DEF PInv
<1> QED
  BY <1>1, PolicyInvariance, PTL

(* The enforcer that autoLoad leaves when no load is due grants what the   *)
(* tables grant, except for                                                *)
(*  - a change committed when a load for its time, or for the older time   *)
(*    another handler had put over it in the cache, was over or under way; *)
(*  - changes whose load was due, or failed and was to be repeated, when   *)
(*    an older time was put over theirs;                                   *)
(*  - what the menu file changed at the start;                             *)
(*  - a role whose query failed during the load;                           *)
(*  - tables that grant nothing to anybody.                                *)
THEOREM NoOtherStalePolicy == Spec => []StaleExplained
<1>1. PInv => StaleExplained
  <2>1. SUFFICES ASSUME PInv, Settled, ~missed, ~skipped
                 PROVE  Current \/ Policy = {}
    BY DEF StaleExplained
  <2>2. ~WillLoad(stamp)
    <3>1. stamp # None => stamp \in Nat
      BY <2>1, TypeParts DEF PInv, OtherTypes
    <3>2. lastUpdated \in Nat
      BY <2>1, TypeParts DEF PInv, LoadTypes
    <3> QED
      BY <2>1, <3>1, <3>2 DEF Settled, WillLoad, Newer
  <2> QED
    BY <2>1, <2>2 DEF PInv, Content, InForce, Certain, Settled
<1> QED
  BY <1>1, PolicyInvariance, PTL

=============================================================================
