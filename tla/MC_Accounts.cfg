\* Two requests at a time, of any kind, on two users, two names and one role.
\* Every race in the code is between two requests.
CONSTANTS
  None = None
  Procs = {p1, p2}
  MaxUsers = 2
  Names = {n1, n2}
  Roles = {role}
SYMMETRY Symmetry
SPECIFICATION Spec
INVARIANT TypeOK
PROPERTY EntriesExplained
PROPERTY PasswordKept
PROPERTY OrphansNeedOverlap
PROPERTY DoubledNamesNeedOverlap
