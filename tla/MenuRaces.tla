------------------------------ MODULE MenuRaces ------------------------------
(***************************************************************************)
(* MenuTree with one request on menus that is not a single step: it reads  *)
(* the tables first, and writes what follows from that in a transaction    *)
(* later, while other requests do as MenuTree says.  Of two requests that  *)
(* overlap, one can be taken as a single step: the one that writes first.  *)
(*                                                                         *)
(* The reads are one step here, and so are the statements of a             *)
(* transaction.  A behaviour ends where a write has gone by stale reads.   *)
(***************************************************************************)
EXTENDS MenuTree

CONSTANT NoRequest

VARIABLES
  request,   \* the request that has read and not written, or NoRequest
  read,      \* what it has read
  spoiled    \* no variable of the code: a write by stale reads, or a move of a
             \* menu into its own subtree

raceVars == <<request, read>>
allVars  == <<vars, raceVars, spoiled>>

RacesInit == Init /\ request = NoRequest /\ read = NoRequest /\ spoiled = FALSE

(* A request: its handler, the menu of its URL, the parent in its form.    *)
Requests == [op : {"create"}, id : {Root}, parent : Ids \cup {Root}]
              \cup [op : {"update"}, id : Ids, parent : Ids \cup {Root}]
              \cup [op : {"delete"}, id : Ids, parent : {Root}]

ASSUME RequestAssumption == NoRequest \notin Requests

-----------------------------------------------------------------------------
(* What a request reads, and whether it is refused.  Of the form only the  *)
(* parent is needed for that, and the code: the codes that pass are kept,  *)
(* and one of them is chosen with the rest of the form when it is written. *)

Free(parent) == { code \in Codes : ByCodeAndParent(menus, code, parent) = {} }

ReadForCreate(q) == [path |-> Under(menus, q.parent), codes |-> Free(q.parent)]

Moves(q) == q.parent # menus[q.id].parent

Children(q) == IF Moves(q) THEN [d \in Below(q.id) |-> menus[d].path] ELSE <<>>

ReadWith(q, children) ==
  [from   |-> menus[q.id].path,
   status |-> menus[q.id].status,
   path   |-> IF Moves(q) THEN Under(menus, q.parent) ELSE menus[q.id].path,
   below  |-> children,
   codes  |-> Free(q.parent) \cup {menus[q.id].code}]

ReadNoChildren(q) ==   \* mutant: the paths below are not read for a move to the top
  ReadWith(q, IF q.parent = Root THEN <<>> ELSE Children(q))

ReadForUpdate(q) == ReadWith(q, Children(q))

ReadForDelete(q) == [below |-> Below(q.id)]

Read(q) ==
  CASE q.op = "create" -> ReadForCreate(q)
    [] q.op = "update" -> ReadForUpdate(q)
    [] q.op = "delete" -> ReadForDelete(q)

Admitted(q) ==
  /\ ~DenyOperateMenu
  /\ q.op # "create" => q.id \in Stored
  /\ q.parent \in Stored \cup {Root}

Begin(q) ==
  /\ request = NoRequest
  /\ Admitted(q)
  /\ request' = q /\ read' = Read(q)
  /\ UNCHANGED <<vars, spoiled>>

-----------------------------------------------------------------------------
(* Its transaction, by what it has read and the rest of the form.          *)

InsertMenu(q, code, status, rs) ==
  /\ q.op = "create" /\ issued < MaxMenus
  /\ issued' = issued + 1
  /\ menus' = [menus EXCEPT ![issued'] = Menu(code, q.parent, read.path, status)]
  /\ resources' = resources \cup ({issued'} \X rs)
  /\ UNCHANGED roleMenus

(* UpdateStatusByParentPath goes by the paths now, UpdateParentPath by the *)
(* paths read; a row that is gone stays gone, but its resources are        *)
(* inserted all the same.                                                  *)
UpdateMenu(q, code, status, rs) ==
  LET old == Append(read.from, q.id)
      new == Append(read.path, q.id)
      Spread(d) == IF status # read.status /\ IsPrefix(old, menus[d].path)
                     THEN status ELSE menus[d].status
      Path(d) == IF d \in DOMAIN read.below
                   THEN new \o SubSeq(read.below[d], Len(old) + 1, Len(read.below[d]))
                   ELSE menus[d].path
      row(d) == IF d = q.id THEN Menu(code, q.parent, read.path, status)
                ELSE [menus[d] EXCEPT !.status = Spread(d), !.path = Path(d)]
  IN  /\ q.op = "update"
      /\ menus' = [d \in Ids |-> IF menus[d] = NoMenu THEN NoMenu ELSE row(d)]
      /\ resources' = { x \in resources : x[1] # q.id } \cup ({q.id} \X rs)
      /\ UNCHANGED <<roleMenus, issued>>

DeleteMenus(q) ==
  LET gone == {q.id} \cup read.below
  IN  /\ q.op = "delete"
      /\ menus' = [d \in Ids |-> IF d \in gone THEN NoMenu ELSE menus[d]]
      /\ resources' = { x \in resources : x[1] \notin gone }
      /\ roleMenus' = roleMenus \ gone
      /\ UNCHANGED issued

Fresh == Admitted(request) /\ Read(request) = read

Write ==
  /\ request # NoRequest
  /\ request' = NoRequest /\ read' = NoRequest
  /\ \/ /\ request.op # "delete"
        /\ \E code \in read.codes, status \in Statuses, rs \in SUBSET Resources :
             InsertMenu(request, code, status, rs) \/ UpdateMenu(request, code, status, rs)
     \/ DeleteMenus(request)
  /\ spoiled' = (~Fresh \/ MovesIntoItself)

(* An error before the commit, or the end of the process.                  *)
Fails ==
  /\ request # NoRequest
  /\ request' = NoRequest /\ read' = NoRequest
  /\ UNCHANGED <<vars, spoiled>>

(* The other requests; the menu file is read before the first request.     *)
Others ==
  /\ MenuAPI \/ RoleAPI \/ (request = NoRequest /\ InitFromFile)
  /\ spoiled' = MovesIntoItself
  /\ UNCHANGED raceVars

RacesNext ==
  \/ ~spoiled /\ \E q \in Requests : Begin(q)
  \/ ~spoiled /\ Write
  \/ ~spoiled /\ Fails
  \/ ~spoiled /\ Others

RacesSpec == RacesInit /\ [][RacesNext]_allVars

-----------------------------------------------------------------------------
(* Properties.                                                             *)

(* The tree comes apart - a path that is not the parent's, a menu without  *)
(* its parent, a resource of a menu that is gone - only if a request wrote *)
(* by what it had read before another one changed it (menu.biz.go:394, 420 *)
(* and 488), or a form moved a menu into its own subtree, which nothing    *)
(* refuses (menu.biz.go:381).                                              *)
TreeKept == spoiled \/ (PathsAgree /\ NoLeftovers)

(* A request whose reads still hold when it writes does what it would have *)
(* done in one step: it depends on nothing that it has not read.           *)
InOneStep(q) ==
  CASE q.op = "create" -> \E code \in Codes, rs \in SUBSET Resources : Create(code, q.parent, rs)
    [] q.op = "update" -> \E code \in Codes, status \in Statuses, rs \in SUBSET Resources :
                            Update(q.id, code, q.parent, status, rs)
    [] q.op = "delete" -> Delete(q.id)

FreshWritesAreSteps == [][Write /\ ~spoiled' => InOneStep(request)]_<<request, vars>>

=============================================================================
