\* Two requests and the AutoSync call, three runs, two faults of any kind, every
\* error without effect.  The run ids may be used up while booting with an empty
\* table: the bound stops the model there.
CONSTANTS
  None = None
  Requests = {r1, r2}
  Boot = boot
  GraphMarkets = {g1, g2}
  DemoMarkets = {d1}
  RunIds = {run1, run2, run3}
  AutoSync = TRUE
  LostAcks = FALSE
  MaxFaults = 2
SYMMETRY Symmetry
SPECIFICATION Spec
CHECK_DEADLOCK FALSE
INVARIANT TypeOK
INVARIANT VisibleDataAudited
INVARIANT StrandedRunsNeedFaults
INVARIANT SnapshotsHaveReserves
INVARIANT AnswersMatchRuns
INVARIANT BootFillsDashboard
INVARIANT OldRowsUnread
PROPERTY NeverOlderData
PROPERTY NoSilentDemo
PROPERTY LedgerKept
