\* One day is enough: two syncs at its two ticks.
CONSTANTS
  NumMarkets = 1
  TicksPerDay = 2
  MaxClock = 1
  MaxEvents = 0
  PageSize = 2
  Days = 2
  NoRow = NoRow
SPECIFICATION Spec
PROPERTY WritesIdempotent
