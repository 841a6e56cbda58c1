\* Four menus: a chain of three and a place to move it to.  A behaviour ends with a
\* move of a menu into its own subtree, the only one to break the paths.  A role
\* lists a menu that may be there or not.  The resources have a run of their own.
CONSTANTS
  page = page
  button = button
  Codes = {page, button}
  Statuses = {"enabled", "disabled"}
  Resources = {}
  MenuFile <- TheFile
  MaxMenus = 4
  Listable = {2}
  NoMenu = NoMenu
  DenyOperateMenu = FALSE
  SubtreeMoves = TRUE
SPECIFICATION Spec
INVARIANT TypeOK
INVARIANT MatchesShown
INVARIANT FileIdempotent
PROPERTY OnlySelfMovesBreak
PROPERTY StatusReachesSubtree
CONSTRAINT PathsAgree
