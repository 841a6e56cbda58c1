\* A menu below another one.
CONSTANTS
  page = page
  button = button
  Codes = {page, button}
  Statuses = {"enabled", "disabled"}
  Resources = {}
  MenuFile <- TheFile
  MaxMenus = 3
  Listable = {}
  NoMenu = NoMenu
  DenyOperateMenu = FALSE
  SubtreeMoves = FALSE
SPECIFICATION Spec
INVARIANT CodePathResolves
