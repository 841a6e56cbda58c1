\* Two menus of one code at different levels, and a move.
CONSTANTS
  page = page
  button = button
  Codes = {page, button}
  Statuses = {"enabled", "disabled"}
  Resources = {}
  MenuFile <- TheFile
  MaxMenus = 3
  Listable = {}
  NoMenu = NoMenu
  DenyOperateMenu = FALSE
  SubtreeMoves = FALSE
SPECIFICATION Spec
INVARIANT UniqueCodePerLevel
