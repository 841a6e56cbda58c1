----------------------------- MODULE SyncLedger -----------------------------
(***************************************************************************)
(* What the synchronization service promises to the people who read the    *)
(* dashboard and the list of sync runs, with every mechanism left out: the *)
(* mutex, the request contexts, the transaction, the process.              *)
(*                                                                         *)
(* There is a ledger of runs and a table of markets; every visible market  *)
(* row names the run that wrote it.  At most one run is open.  Only the    *)
(* open run publishes rows, and all its rows at once; a run that is closed *)
(* as succeeded lists exactly the rows it published, one closed as failed  *)
(* published nothing.  A closed run never changes again.                   *)
(***************************************************************************)

CONSTANTS
  RunIds,     \* identifiers of sync runs
  Markets,    \* markets a run may publish
  NoRun,      \* "no run"
  LostAcks    \* TRUE: a commit may take effect and still be reported failed

VARIABLES
  status,     \* RunIds -> "absent" | "running" | "succeeded" | "failed"
  written,    \* RunIds -> the markets the run says it wrote
  visible,    \* Markets -> the run whose row is visible, or NoRun
  open        \* the run in progress, or NoRun

ledgerVars == <<status, written, visible, open>>

LedgerInit ==
  /\ status  = [id \in RunIds |-> "absent"]
  /\ written = [id \in RunIds |-> {}]
  /\ visible = [m \in Markets |-> NoRun]
  /\ open    = NoRun

PublishedBy(id) == { m \in Markets : visible[m] = id }

(* A run enters the ledger; unless its caller loses track of it at once    *)
(* (orphan), it is the open one.                                           *)
OpenRun(id, orphan) ==
  /\ open = NoRun
  /\ status[id] = "absent"
  /\ ~orphan \/ LostAcks
  /\ status' = [status EXCEPT ![id] = "running"]
  /\ open' = IF orphan THEN NoRun ELSE id
  /\ UNCHANGED <<written, visible>>

Publish(ms) ==
  /\ open # NoRun
  /\ PublishedBy(open) = {}
  /\ visible' = [m \in Markets |-> IF m \in ms THEN open ELSE visible[m]]
  /\ UNCHANGED <<status, written, open>>

CloseSucceeded ==
  /\ open # NoRun
  /\ status'  = [status EXCEPT ![open] = "succeeded"]
  /\ written' = [written EXCEPT ![open] = PublishedBy(open)]
  /\ open'    = NoRun
  /\ UNCHANGED visible

CloseFailed ==
  /\ open # NoRun
  /\ PublishedBy(open) = {} \/ LostAcks
  /\ status' = [status EXCEPT ![open] = "failed"]
  /\ open'   = NoRun
  /\ UNCHANGED <<written, visible>>

(* The process stops, or the last update of the run's row is refused: the  *)
(* row stays "running" and nobody will ever close it.                      *)
Abandon ==
  /\ open # NoRun
  /\ open' = NoRun
  /\ UNCHANGED <<status, written, visible>>

LedgerNext ==
  \/ \E id \in RunIds, orphan \in BOOLEAN : OpenRun(id, orphan)
  \/ \E ms \in SUBSET Markets : Publish(ms)
  \/ CloseSucceeded
  \/ CloseFailed
  \/ Abandon

LedgerSpec == LedgerInit /\ [][LedgerNext]_ledgerVars

=============================================================================
