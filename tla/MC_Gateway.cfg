\* Two clients of one user, every kind of token store, two keys: tokens of three
\* seconds live for one second each, so that all of a token's last second, its
\* refresh and its twins are within the bound.  A limiter is empty after one request,
\* needs four half seconds to fill and is forgotten after two: there are two
\* generations, and all four limiters come to be at work.  The clock ends.
CONSTANTS
  None = None
  Sessions = {s1, s2}
  Stores = {"memory", "badger", "redis"}
  Keys = {k1, k2}
  Expired = 1
  Period = 2
  Burst = 1
  Idle = 1
  MaxNow = 4
SYMMETRY Symmetry
SPECIFICATION Spec
CHECK_DEADLOCK FALSE
INVARIANT TypeOK
INVARIANT EndedRefused
INVARIANT OpenAccepted
INVARIANT LimitHolds
