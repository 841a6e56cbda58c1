\* Liveness with the Graph client, and the ledger when refused statements may
\* have taken effect; MaxAttempts is left to its default.  No symmetry; clients,
\* signals and operators are not fair.  The run ids may be used up while booting
\* with an empty table: the bound stops the model there.
CONSTANTS
  None = None
  Requests = {r1, r2}
  Boot = boot
  GraphMarkets = {g1}
  DemoMarkets = {d1}
  RunIds = {run1, run2}
  AutoSync = TRUE
  LostAcks = TRUE
  MaxFaults = 2
  ConfigAttempts = 0
SPECIFICATION FairOverGraph
CHECK_DEADLOCK FALSE
PROPERTY SyncReturns
PROPERTY LedgerKept
PROPERTY LoadImplemented
