\* Two days and a half of two ticks each, three events on chain, a page of two history items, a range of two days.
CONSTANTS
  NumMarkets = 2
  TicksPerDay = 2
  MaxClock = 4
  MaxEvents = 3
  PageSize = 2
  Days = 2
  NoRow = NoRow
SPECIFICATION Spec
INVARIANT TypeOK
INVARIANT WindowExact
INVARIANT LatestOfDayStored
