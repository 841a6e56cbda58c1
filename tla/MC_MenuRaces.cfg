\* Three menus, one of them with the others above it or below it.  One code: two
\* menus of a level are brought together by moves.  One menu at a time has the
\* resource.  The other requests name no menu of the moved subtree as the parent;
\* the one in flight may.  A behaviour ends with a stale write.
CONSTANTS
  page = page
  Codes = {page}
  Statuses = {"enabled", "disabled"}
  Resources = {res}
  MenuFile <- TheFile
  MaxMenus = 3
  Listable = {2}
  NoMenu = NoMenu
  NoRequest = NoRequest
  DenyOperateMenu = FALSE
  SubtreeMoves = FALSE
SPECIFICATION RacesSpec
CHECK_DEADLOCK FALSE
INVARIANT TreeKept
PROPERTY FreshWritesAreSteps
CONSTRAINT OneResource
