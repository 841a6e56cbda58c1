\* Three transactions of two handlers, in one second or in two, two roles read one after
\* the other, and two failures of any kind, crashes included.  Writers, the clock and the
\* operator are not fair.
CONSTANTS
  Roles = {r1, r2}
  Menus = {m1}
  Writers = {w1, w2}
  NoRole = NoRole
  None = None
  FileChanges = TRUE
  MaxClock = 2
  MaxWrites = 3
  MaxFaults = 2
SPECIFICATION FairSpec
CHECK_DEADLOCK FALSE
INVARIANT TypeOK
INVARIANT StaleExplained
PROPERTY CatchesUp
