\* One request, which may hang, beside the four goroutines of the process that
\* write entries too: enough of them to fill a channel of one place, to block in
\* it, and to be in Write while it is closed.  Flush waits for the worker.
\* The process ends.
CONSTANTS
  Requests = {r1}
  MaxBuffer = 1
  MaxThread = 1
SPECIFICATION FairSpec
CHECK_DEADLOCK FALSE
INVARIANT TypeOK
INVARIANT EntriesKept
INVARIANT HarmedWereOverdue
INVARIANT CrashesWereStray
PROPERTY SignalEnds
