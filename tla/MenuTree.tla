------------------------------ MODULE MenuTree ------------------------------
(***************************************************************************)
(* The menus of internal/mods/rbac: a forest kept in a table, where every  *)
(* row holds its parent and, redundantly, the path of its ancestors.       *)
(* Queries for a subtree, the deletion of a subtree, the spreading of a    *)
(* status and the permissions inherited from ancestors all read the path,  *)
(* so it has to follow every move.                                         *)
(*                                                                         *)
(* A request is one step: its checks and its transaction.  A request that  *)
(* is refused changes nothing and is no step.  Names, sequences and the    *)
(* other columns that no other row depends on are left out.                *)
(***************************************************************************)
EXTENDS Naturals, Sequences, FiniteSets, SequencesExt

CONSTANTS
  MaxMenus,        \* bound on the menus ever created; ids are issued in order
  Listable,        \* bound: the ids, used or not, that forms of the role may name
  Codes,
  Statuses,        \* that forms name: "enabled", "disabled"
  Resources,       \* what a menu gives access to: method and path
  MenuFile,        \* General.MenuFile: its items in preorder, as records
                   \* [code, parent (position of the parent or 0), status
                   \* ("" where the item names none), resources]
  NoMenu,          \* no row
  DenyOperateMenu, \* config General.DenyOperateMenu
  SubtreeMoves     \* TRUE: a form may name the menu itself or one below it as parent

VARIABLES
  menus,      \* menu: id -> row or NoMenu
  resources,  \* menu_resource: pairs <<id, resource>>
  roleMenus,  \* role_menu: the menus a role lists
  issued      \* number of ids issued

vars == <<menus, resources, roleMenus, issued>>

Ids == 1 .. MaxMenus
Root == 0      \* the empty ParentID
Menu(code, parent, path, status) ==
  [code |-> code, parent |-> parent, path |-> path, status |-> status]

Rows ==
  [code : Codes, parent : 0 .. MaxMenus, path : Seq(Ids), status : Statuses]

ASSUME MenuAssumption ==
  /\ "enabled" \in Statuses /\ Statuses \subseteq {"enabled", "disabled"}
  /\ MaxMenus \in Nat /\ Listable \subseteq 1 .. MaxMenus
  /\ DenyOperateMenu \in BOOLEAN /\ SubtreeMoves \in BOOLEAN
  /\ NoMenu \notin Rows

ASSUME FileAssumption ==
  /\ MenuFile \in Seq([code : Codes, parent : Nat, status : Statuses \cup {""},
                       resources : SUBSET Resources])
  /\ \A i \in DOMAIN MenuFile : MenuFile[i].parent < i
  \* the file names a code once among the children of an item
  /\ \A i, j \in DOMAIN MenuFile :
       MenuFile[i].code = MenuFile[j].code /\ MenuFile[i].parent = MenuFile[j].parent => i = j

Stored == { m \in Ids : menus[m] # NoMenu }

Init ==
  /\ menus = [m \in Ids |-> NoMenu]
  /\ resources = {} /\ roleMenus = {} /\ issued = 0

-----------------------------------------------------------------------------
(* Reading the tables.                                                     *)

(* The path of the menus right under m; LIKE 'path%' finds all below m.    *)
Under(table, m) == IF m = Root THEN <<>> ELSE Append(table[m].path, m)

Below(m) == { d \in Stored : IsPrefix(Under(menus, m), menus[d].path) }

ByCodeAndParent(table, code, parent) ==
  { m \in Ids : table[m] # NoMenu /\ table[m].code = code /\ table[m].parent = parent }

First(ms) == CHOOSE m \in ms : \A n \in ms : m <= n   \* ORDER BY id LIMIT 1

-----------------------------------------------------------------------------
(* POST, PUT and DELETE of menus.                                          *)

Create(code, parent, rs) ==
  /\ ~DenyOperateMenu
  /\ parent = Root \/ parent \in Stored
  /\ ByCodeAndParent(menus, code, parent) = {}
  /\ issued < MaxMenus
  /\ issued' = issued + 1
  /\ \E status \in Statuses :
       menus' = [menus EXCEPT ![issued'] =
                   Menu(code, parent, Under(menus, parent), status)]
  /\ resources' = resources \cup ({issued'} \X rs)
  /\ UNCHANGED roleMenus

(* A status that changes is given to everything below the old place; after *)
(* that the paths below move with the menu; the row itself comes last.     *)
SpreadAfterMove(m, row, parent) ==   \* mutant: the two statements swapped
  LET old == Under(menus, m)
      new == Append(Under(menus, parent), m)
      moved == IF parent = menus[m].parent THEN {} ELSE Below(m)
  IN  [d \in Ids |->
         IF d = m THEN row
         ELSE IF d \in moved /\ new # old
         THEN [menus[d] EXCEPT !.path = new \o SubSeq(@, Len(old) + 1, Len(@))]
         ELSE IF d \in Below(m) THEN [menus[d] EXCEPT !.status = row.status]
         ELSE menus[d]]

MoveParentOnly(m, row, parent) ==   \* mutant: the paths below stay
  [d \in Ids |->
     IF d = m THEN row
     ELSE IF d \in Below(m) /\ row.status # menus[m].status
     THEN [menus[d] EXCEPT !.status = row.status]
     ELSE menus[d]]

Updated(m, row, parent) ==
  LET below == Below(m)
      old   == Len(Under(menus, m))
      new   == Append(Under(menus, parent), m)
      moves   == parent # menus[m].parent
      spreads == row.status # menus[m].status
  IN  [d \in Ids |->
         IF d = m THEN row
         ELSE IF d \in below
         THEN [menus[d] EXCEPT
                 !.status = IF spreads THEN row.status ELSE @,
                 !.path   = IF moves THEN new \o SubSeq(@, old + 1, Len(@)) ELSE @]
         ELSE menus[d]]

Update(m, code, parent, status, rs) ==
  /\ ~DenyOperateMenu
  /\ m \in Stored
  /\ parent = Root \/ parent \in Stored
  /\ SubtreeMoves \/ parent \notin Below(m) \cup {m}
  /\ code # menus[m].code => ByCodeAndParent(menus, code, parent) = {}
  /\ LET path == IF parent = menus[m].parent THEN menus[m].path ELSE Under(menus, parent)
     IN  menus' = Updated(m, Menu(code, parent, path, status), parent)
  /\ resources' = { x \in resources : x[1] # m } \cup ({m} \X rs)
  /\ UNCHANGED <<roleMenus, issued>>

Deleted(m) == {m} \cup Below(m)

DeleteBelowLeft(m) ==   \* mutant: below m only the rows are deleted
  /\ m \in Stored
  /\ menus' = [d \in Ids |-> IF d \in Deleted(m) THEN NoMenu ELSE menus[d]]
  /\ resources' = { x \in resources : x[1] # m }
  /\ roleMenus' = roleMenus \ {m}
  /\ UNCHANGED issued

Delete(m) ==
  /\ ~DenyOperateMenu
  /\ m \in Stored
  /\ menus' = [d \in Ids |-> IF d \in Deleted(m) THEN NoMenu ELSE menus[d]]
  /\ resources' = { x \in resources : x[1] \notin Deleted(m) }
  /\ roleMenus' = roleMenus \ Deleted(m)
  /\ UNCHANGED issued

(* A role is given another list of menus: the ids of the form, whether     *)
(* there are such menus or not (role.biz.go:136-148).                      *)
AssignMenus(ms) == roleMenus' = ms /\ UNCHANGED <<menus, resources, issued>>

-----------------------------------------------------------------------------
(* InitFromFile, at every start: an item is looked up by its code among    *)
(* the children of its parent, brought in line with the file, or created.  *)
(* `at` holds the ids of the items done so far.  An item that names an ID  *)
(* would be looked up by it, one without a code by its name.               *)

Tables == [menus |-> menus, resources |-> resources, issued |-> issued, at |-> <<>>]

ParentRow(acc, item) == IF item.parent = 0 THEN Root ELSE acc.at[item.parent]

BringIn(acc, item, level, status) ==
  LET parent == ParentRow(acc, item)
      found  == ByCodeAndParent(acc.menus, item.code, level)
      id     == IF found # {} THEN First(found) ELSE acc.issued + 1
      row    == IF found # {} THEN [acc.menus[id] EXCEPT !.status = status]
                ELSE Menu(item.code, parent, Under(acc.menus, parent), status)
  IN  [menus     |-> [acc.menus EXCEPT ![id] = row],
       resources |-> acc.resources \cup ({id} \X item.resources),
       issued    |-> IF found # {} THEN acc.issued ELSE id,
       at        |-> Append(acc.at, id)]

CreateAtRoot(acc, item) ==     \* mutant: looked up with an empty ParentID
  BringIn(acc, item, Root, "enabled")

CreateNoStatus(acc, item) ==   \* mutant: an empty Status is not defaulted
  BringIn(acc, item, ParentRow(acc, item), item.status)

StatusOf(item) == IF item.status = "" THEN "enabled" ELSE item.status

CreateItem(acc, item) == BringIn(acc, item, ParentRow(acc, item), StatusOf(item))

CreateInBatch(tables) ==
  LET done[k \in 0 .. Len(MenuFile)] ==   \* after the first k items
        IF k = 0 THEN [tables EXCEPT !.at = <<>>]
        ELSE CreateItem(done[k-1], MenuFile[k])
  IN  done[Len(MenuFile)]

(* A bound, not code: as many ids are left as the file could need.         *)
FileFits(tables) == tables.issued + Len(MenuFile) <= MaxMenus

InitFromFile ==
  /\ FileFits(Tables)
  /\ LET t == CreateInBatch(Tables)
     IN  menus' = t.menus /\ resources' = t.resources /\ issued' = t.issued
  /\ UNCHANGED roleMenus

-----------------------------------------------------------------------------

(* The handlers of menus; a form names a status, or is refused.            *)
MenuAPI ==
  \/ \E code \in Codes, parent \in Ids \cup {Root}, rs \in SUBSET Resources :
       Create(code, parent, rs)
  \/ \E m \in Stored, code \in Codes, parent \in Ids \cup {Root}, status \in Statuses,
        rs \in SUBSET Resources : Update(m, code, parent, status, rs)
  \/ \E m \in Stored : Delete(m)

RoleAPI == \E ms \in SUBSET Listable : AssignMenus(ms)

Next == MenuAPI \/ RoleAPI \/ InitFromFile

Spec == Init /\ [][Next]_vars

-----------------------------------------------------------------------------
(* Queries.                                                                *)

Ancestors(ms) == Stored \cap UNION { ToSet(menus[m].path) : m \in ms }

(* A search by name: what is below the matches and, at last, all ancestors. *)
AppendChildrenOnly(ms) == ms \cup UNION { Below(m) : m \in ms }   \* mutant

AppendChildren(ms) ==
  LET below == ms \cup UNION { Below(m) : m \in ms }
  IN  below \cup Ancestors(below)

(* Login.QueryMenus: what the roles list and is enabled, with ancestors.   *)
QueryMenus ==
  LET listed == { m \in roleMenus \cap Stored : menus[m].status = "enabled" }
  IN  listed \cup Ancestors(listed)

(* ToTree: a row hangs under its parent; without its parent it is dropped. *)
ToTree(ms) ==
  LET level[k \in 0 .. MaxMenus] ==
        IF k = 0 THEN { m \in ms : menus[m].parent = Root }
        ELSE level[k-1] \cup { m \in ms : menus[m].parent \in level[k-1] }
  IN  level[MaxMenus]

(* Menu.Query by a name or a code path, for the matching rows.             *)
Query(matches) == ToTree(AppendChildren(matches))

(* fillQueryParam: each code is looked up with lastMenu.ParentID, which is *)
(* the parent of the menu found last.  The menu found, or Root.            *)
FollowCodes(codes) ==
  FoldLeft(LAMBDA last, code :
             LET found == ByCodeAndParent(menus, code, last.parent)
             IN  IF last.id = NoMenu \/ found = {} THEN [id |-> NoMenu, parent |-> Root]
                 ELSE [id |-> First(found), parent |-> menus[First(found)].parent],
           [id |-> Root, parent |-> Root], codes).id

-----------------------------------------------------------------------------
(* Properties.                                                             *)

TypeOK ==
  /\ issued \in 0 .. MaxMenus
  /\ menus \in [Ids -> {NoMenu} \cup Rows]
  /\ \A m \in Stored : m <= issued /\ menus[m].parent <= issued
  /\ resources \subseteq Ids \X Resources /\ roleMenus \subseteq Ids

(* The stored path is the path of the parent and the parent, whatever moves *)
(* and deletions there were above it; so every menu hangs in a tree.        *)
PathsAgree ==
  \A m \in Stored :
    /\ menus[m].parent # Root => menus[m].parent \in Stored
    /\ menus[m].path = Under(menus, menus[m].parent)

(* A deletion leaves no resource of a menu behind.  A role's entry can name *)
(* a menu that is gone, and is then without effect: the queries of Login    *)
(* and Casbinx are for rows of the menu table (menu.dal.go:46-55).          *)
NoLeftovers == \A x \in resources : x[1] \in Stored

(* A step keeps the paths in agreement unless it is a form that puts a menu *)
(* under itself or a menu below it, which nothing refuses (menu.biz.go:381) *)
(* and which always breaks them.                                            *)
MovesIntoItself ==
  \E m \in Stored \cap Stored' :
    menus'[m].parent # menus[m].parent /\ menus'[m].parent \in Below(m) \cup {m}

OnlySelfMovesBreak == [][PathsAgree => (PathsAgree' <=> ~MovesIntoItself)]_vars

(* A status that changes through a form changes for all menus below, also   *)
(* when the same form moves the menu to another parent.                     *)
StatusReachesSubtree ==
  [][InitFromFile \/
     \A m \in Stored \cap Stored' :
       menus'[m].status # menus[m].status =>
         \A d \in Below(m) : menus'[d].status = menus'[m].status]_vars

(* As long as the paths agree, a search shows every match in the tree, with *)
(* all that is below; and a user sees every enabled menu his roles list,    *)
(* whatever others they list.                                               *)
MatchesShown ==
  PathsAgree =>
    /\ \A m \in Stored : {m} \cup Below(m) \subseteq Query({m})
    /\ \A m \in roleMenus \cap Stored :
         menus[m].status = "enabled" => m \in ToTree(QueryMenus)

(* A second start adds and changes nothing: whatever administrators did in  *)
(* between, after one reading of the file another one finds all its items.  *)
FileIdempotent ==
  FileFits(Tables) =>
    LET once == CreateInBatch(Tables)
    IN  FileFits(once) => CreateInBatch(once) = once

(* "unique for each level" (schema/menu.go:28).                             *)
UniqueCodePerLevel ==
  \A m, n \in Stored :
    menus[m].code = menus[n].code /\ menus[m].parent = menus[n].parent => m = n

(* "Code path (like xxx.xxx.xxx)" (schema/menu.go:51) names the menu found  *)
(* by following the codes down the tree.                                    *)
CodePath(m) == [i \in DOMAIN Under(menus, m) |-> menus[Under(menus, m)[i]].code]

CodePathResolves == \A m \in Stored : FollowCodes(CodePath(m)) # NoMenu

=============================================================================
