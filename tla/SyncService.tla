----------------------------- MODULE SyncService -----------------------------
(***************************************************************************)
(* Service.Sync of internal/mods/defi/biz: the synchronization of Aave     *)
(* reserves from The Graph (or the built-in demo source) into Postgres.    *)
(*                                                                         *)
(* The callers are the handlers of POST /defi/sync-runs, one goroutine     *)
(* each, and the AutoSync call that DEFI.Init makes before the server      *)
(* listens.  Every database call and the load of the dataset is a step of  *)
(* its own: requests interleave between them, the client of a request may  *)
(* go away (which cancels its context), a call may fail, and the process   *)
(* may stop.  What survives a stop is what is in the tables.               *)
(*                                                                         *)
(* Counts are kept as the sets counted: read_count and written_count are   *)
(* the markets read and written.                                           *)
(***************************************************************************)
EXTENDS Naturals, FiniteSets

CONSTANTS
  Requests,      \* handlers of POST /sync-runs, each reused for later requests
  Boot,          \* the caller of Sync inside DEFI.Init
  GraphMarkets,  \* market ids The Graph reports
  DemoMarkets,   \* market ids of the demo dataset (aave-v3-ethereum-*)
  RunIds,        \* ids of sync runs; a finite set bounds the runs
  None,          \* "no caller", "no run", "no row", "no dataset"
  AutoSync,      \* config DeFi.AutoSync
  LostAcks,      \* TRUE: a refused statement or commit may have taken effect
  MaxFaults      \* bound on crashes, refused calls and cancelled contexts

Callers == Requests \cup {Boot}
Markets == GraphMarkets \cup DemoMarkets
Modes   == {"graph", "demo"}

ASSUME SyncAssumption ==
  /\ Boot \notin Requests
  /\ None \notin Callers \cup RunIds
  /\ GraphMarkets \cap DemoMarkets = {}
  /\ AutoSync \in BOOLEAN /\ LostAcks \in BOOLEAN
  /\ MaxFaults \in Nat

VARIABLES
  \* the process
  proc,       \* "down", "booting" (Init not finished) or "up"
  mode,       \* which Source ProvideSource built at start
  lock,       \* holder of Service.syncLock, or None
  clock,      \* observations made: stamps ObservedAt; never goes back
  faults,     \* crashes, refused calls and cancellations so far
  \* each caller's local state
  pc,
  cancelled,  \* its context is cancelled
  loaded,     \* the dataset, None when the load returned an error
  run,        \* the run whose row it has created, or None
  upserts,    \* its open transaction: Markets -> reserve id, or None
  answer,     \* what Sync returned to it
  \* the tables
  protocol,   \* demo flag of the one row of defi_protocols, or None
  reserves,   \* defi_reserves: Markets -> row or None
  snapshots,  \* the reserve ids that own rows of defi_reserve_snapshots
  runs        \* defi_sync_runs: RunIds -> row or None

procVars  == <<proc, mode, clock>>
localVars == <<cancelled, loaded, run, upserts, answer>>
tables    == <<protocol, reserves, snapshots, runs>>
vars == <<proc, mode, lock, clock, faults, pc, localVars, tables>>

(* A reserve's XID is named by the market and the run that inserted it.    *)
ReserveIds == Markets \X RunIds

Datasets == [source : Modes, reserves : SUBSET Markets,
             snapshots : SUBSET Markets, at : Nat]

RunRows == [status : {"running", "succeeded", "failed"}, source : Modes,
            read : SUBSET Markets, written : SUBSET Markets]

(* by: the run whose transaction wrote the row last (not a column).        *)
ReserveRows == [rid : ReserveIds, by : RunIds, demo : BOOLEAN, at : Nat]

(* None is no value of any column.                                         *)
ASSUME NoneAssumption ==
  None \notin Datasets /\ None \notin RunRows /\ None \notin ReserveRows
  /\ None \notin ReserveIds /\ None \notin Modes

-----------------------------------------------------------------------------
(* Sources.  The demo dataset is built once, stamped with the start of the *)
(* UTC day: behaviours are taken within one day, whose start is stamp 0.   *)
(* Client.Load adds a snapshot for every reserve without one for today, so *)
(* its snapshots cover its reserves; history of markets no longer active   *)
(* brings snapshots of markets that are not among the reserves.            *)

DemoDataset == [source |-> "demo", reserves |-> DemoMarkets,
                snapshots |-> DemoMarkets, at |-> 0]

GraphDatasets(at) ==
  { [source |-> "graph", reserves |-> rs, snapshots |-> rs \cup hs, at |-> at] :
      rs \in SUBSET GraphMarkets, hs \in SUBSET GraphMarkets }

Init ==
  /\ proc = "down" /\ mode \in Modes /\ lock = None
  /\ clock = 0 /\ faults = 0
  /\ pc        = [c \in Callers |-> "idle"]
  /\ cancelled = [c \in Callers |-> FALSE]
  /\ loaded    = [c \in Callers |-> None]
  /\ run       = [c \in Callers |-> None]
  /\ upserts   = [c \in Callers |-> [m \in Markets |-> None]]
  /\ answer    = [c \in Callers |-> "none"]
  /\ protocol = None
  /\ reserves = [m \in Markets |-> None]
  /\ snapshots = {}
  /\ runs = [id \in RunIds |-> None]

InSync(c) == pc[c] \in {"load", "ensure", "create", "apply", "finish", "fail"}

(* What the table says of a run, and what the process knows of the source. *)
IsDemo(c) == loaded[c] # None /\ loaded[c].source = "demo"
ReadBy(c) == IF loaded[c] = None THEN {} ELSE loaded[c].reserves

-----------------------------------------------------------------------------
(* Faults.  Every database call carries the caller's context: with the     *)
(* context cancelled it is refused; otherwise it may be refused at any     *)
(* time, and when the acknowledgement is what was lost it took effect.     *)

NewFault == faults < MaxFaults /\ faults' = faults + 1

Accepted(c) == ~cancelled[c] /\ UNCHANGED faults
Refused(c)  == (cancelled[c] /\ UNCHANGED faults) \/ NewFault
AckLost(c)  == LostAcks /\ ~cancelled[c] /\ NewFault

(* The client of a request disconnects.                                    *)
Cancel(r) ==
  /\ InSync(r) /\ ~cancelled[r]
  /\ NewFault
  /\ cancelled' = [cancelled EXCEPT ![r] = TRUE]
  /\ UNCHANGED <<procVars, lock, pc, loaded, run, upserts, answer, tables>>

(* Everything in memory is gone; an open transaction is rolled back.       *)
ProcessEnds ==
  /\ proc' = "down"
  /\ lock' = None
  /\ pc'        = [c \in Callers |-> "idle"]
  /\ cancelled' = [c \in Callers |-> FALSE]
  /\ loaded'    = [c \in Callers |-> None]
  /\ run'       = [c \in Callers |-> None]
  /\ upserts'   = [c \in Callers |-> [m \in Markets |-> None]]
  /\ answer'    = [c \in Callers |-> "none"]

(* The process dies at any point.  A shutdown whose grace period runs out  *)
(* with a sync in flight ends the same way.                                *)
Crash ==
  /\ proc # "down"
  /\ NewFault
  /\ ProcessEnds
  /\ UNCHANGED <<mode, clock, tables>>

(* A signal with no sync in flight.                                        *)
Stop ==
  /\ proc = "up" /\ lock = None
  /\ ProcessEnds
  /\ UNCHANGED <<mode, clock, faults, tables>>

-----------------------------------------------------------------------------
(* Start of the process: ProvideSource reads the configuration, then       *)
(* DEFI.Init synchronizes if AutoSync is on and Overview counts no reserve.*)

Start ==
  /\ proc = "down"
  /\ proc' = "booting"
  /\ mode' \in Modes
  /\ UNCHANGED <<lock, clock, faults, pc, localVars, tables>>

(* Service.Overview adds up the rows there are; it calls synced last the   *)
(* newest of them, and demo what has one demo row.                         *)
ListAllReserves == { m \in Markets : reserves[m] # None }

Overview ==
  LET at == { reserves[m].at : m \in ListAllReserves }
  IN  [counted      |-> ListAllReserves,
       LastSyncedAt |-> CHOOSE t \in at \cup {0} : \A u \in at : u <= t,
       Demo         |-> \E m \in ListAllReserves : reserves[m].demo]

NoReserves == Overview.counted = {}

(* A bound, not code: a sync only starts while a run id is left.           *)
RunIdLeft == \E id \in RunIds : runs[id] = None

Acquire(c) ==
  /\ lock' = c
  /\ pc'        = [pc EXCEPT ![c] = "load"]
  /\ cancelled' = [cancelled EXCEPT ![c] = FALSE]
  /\ loaded'    = [loaded EXCEPT ![c] = None]
  /\ run'       = [run EXCEPT ![c] = None]
  /\ upserts'   = [upserts EXCEPT ![c] = [m \in Markets |-> None]]
  /\ answer'    = [answer EXCEPT ![c] = "none"]
  /\ UNCHANGED <<procVars, faults, tables>>

TryLockIgnored(c) == RunIdLeft /\ Acquire(c)   \* mutant: result not looked at

TryLock(c) == RunIdLeft /\ lock = None /\ Acquire(c)

BootSkipsSync ==
  /\ proc = "booting" /\ ~InSync(Boot)
  /\ ~AutoSync \/ ~NoReserves
  /\ proc' = "up"
  /\ UNCHANGED <<mode, lock, clock, faults, pc, localVars, tables>>

BootSyncs ==
  /\ proc = "booting" /\ ~InSync(Boot)
  /\ AutoSync /\ NoReserves
  /\ TryLock(Boot)

(* Overview is refused: Init returns the error and the process exits.      *)
BootOverviewFails ==
  /\ proc = "booting" /\ ~InSync(Boot) /\ AutoSync
  /\ NewFault
  /\ ProcessEnds
  /\ UNCHANGED <<mode, clock, tables>>

-----------------------------------------------------------------------------
(* Service.Sync.                                                           *)

Request(r) ==
  /\ proc = "up" /\ ~InSync(r)
  /\ TryLock(r)

(* TryLock fails: 409, and nothing else happens.                           *)
Conflict(r) ==
  /\ proc = "up" /\ ~InSync(r)
  /\ lock # None
  /\ pc'     = [pc EXCEPT ![r] = "done"]
  /\ answer' = [answer EXCEPT ![r] = "conflict"]
  /\ run'    = [run EXCEPT ![r] = None]
  /\ UNCHANGED <<procVars, lock, faults, cancelled, loaded, upserts, tables>>

(* Sync returns and the deferred Unlock runs; an error out of the AutoSync *)
(* call ends the process.  run stays: it is the *SyncRun in the answer.    *)
ReturnIgnoringBootError(c, result) ==   \* mutant: Init drops Sync's error
  /\ proc'    = IF c = Boot THEN "up" ELSE proc
  /\ lock'    = None
  /\ pc'      = [pc EXCEPT ![c] = "done"]
  /\ loaded'  = [loaded EXCEPT ![c] = None]
  /\ upserts' = [upserts EXCEPT ![c] = [m \in Markets |-> None]]
  /\ answer'  = [answer EXCEPT ![c] = result]
  /\ UNCHANGED <<cancelled, run>>

Return(c, result) ==
  \/ /\ c # Boot \/ result = "ok"
     /\ proc'    = IF c = Boot THEN "up" ELSE proc
     /\ lock'    = None
     /\ pc'      = [pc EXCEPT ![c] = "done"]
     /\ loaded'  = [loaded EXCEPT ![c] = None]
     /\ upserts' = [upserts EXCEPT ![c] = [m \in Markets |-> None]]
     /\ answer'  = [answer EXCEPT ![c] = result]
     /\ UNCHANGED <<cancelled, run>>
  \/ /\ c = Boot /\ result # "ok"
     /\ ProcessEnds

Goto(c, label) ==
  /\ pc' = [pc EXCEPT ![c] = label]
  /\ UNCHANGED <<lock, proc, cancelled, answer>>

(* Source.Load.  Demo hands out its dataset whatever the context; Graph     *)
(* returns a dataset only if the context lives, and may always fail.        *)
LoadOrDemo(c) ==   \* mutant: demo data when The Graph fails
  /\ pc[c] = "load"
  /\ loaded' = [loaded EXCEPT ![c] = DemoDataset]
  /\ Goto(c, "ensure")
  /\ UNCHANGED <<mode, clock, faults, run, upserts, tables>>

Load(c) ==
  /\ pc[c] = "load"
  /\ \/ /\ mode = "demo"
        /\ loaded' = [loaded EXCEPT ![c] = DemoDataset]
        /\ UNCHANGED clock
     \/ /\ mode = "graph" /\ ~cancelled[c]
        /\ clock' = clock + 1
        /\ \E d \in GraphDatasets(clock + 1) : loaded' = [loaded EXCEPT ![c] = d]
     \/ /\ mode = "graph"
        /\ loaded' = [loaded EXCEPT ![c] = None]
        /\ UNCHANGED clock
  /\ Goto(c, "ensure")
  /\ UNCHANGED <<mode, faults, run, upserts, tables>>

(* Find the protocol row or insert it, with the demo flag of this dataset.  *)
ProtocolRow(c) ==
  IF protocol # None THEN protocol ELSE IF IsDemo(c) THEN "demo" ELSE "graph"

EnsureProtocol(c) ==
  /\ pc[c] = "ensure"
  /\ \/ /\ Accepted(c)
        /\ protocol' = ProtocolRow(c)
        /\ Goto(c, "create")
        /\ UNCHANGED <<loaded, run, upserts>>
     \/ /\ \/ Refused(c) /\ UNCHANGED protocol
           \/ AckLost(c) /\ protocol' = ProtocolRow(c)
        /\ Return(c, "error")
  /\ UNCHANGED <<mode, clock, reserves, snapshots, runs>>

NewRunRowNoStatus(c) ==   \* mutant: Status not set
  [status |-> "", source |-> IF IsDemo(c) THEN "demo" ELSE "graph",
   read |-> {}, written |-> {}]

NewRunRow(c) ==
  [status |-> "running", source |-> IF IsDemo(c) THEN "demo" ELSE "graph",
   read |-> {}, written |-> {}]

CreateSyncRun(c) ==
  /\ pc[c] = "create"
  /\ \/ /\ Accepted(c)
        /\ \E id \in RunIds :
             /\ runs[id] = None
             /\ runs' = [runs EXCEPT ![id] = NewRunRow(c)]
             /\ run'  = [run EXCEPT ![c] = id]
        /\ Goto(c, IF loaded[c] = None THEN "fail" ELSE "apply")
        /\ UNCHANGED <<loaded, upserts>>
     \/ /\ Refused(c)
        /\ Return(c, "error")
        /\ UNCHANGED runs
     \/ /\ AckLost(c)
        /\ \E id \in RunIds :
             /\ runs[id] = None
             /\ runs' = [runs EXCEPT ![id] = NewRunRow(c)]
        /\ Return(c, "error")
  /\ UNCHANGED <<mode, clock, protocol, reserves, snapshots>>

-----------------------------------------------------------------------------
(* Repository.ApplyDataset: one transaction, first every reserve, then the *)
(* snapshots of the reserves of this dataset.  It sees committed rows only.*)

Pending(c) == { m \in ReadBy(c) : upserts[c][m] = None }

UpsertReserve(c, m) ==
  /\ pc[c] = "apply" /\ m \in Pending(c)
  /\ Accepted(c)
  /\ upserts' = [upserts EXCEPT ![c][m] =
                   IF reserves[m] = None THEN <<m, run[c]>> ELSE reserves[m].rid]
  /\ UNCHANGED <<procVars, lock, pc, cancelled, loaded, run, answer, tables>>

(* ON CONFLICT (protocol_id, market_id) DO UPDATE leaves the id alone.     *)
UpsertedRowKept(c, m) ==   \* mutant: ON CONFLICT DO NOTHING
  IF reserves[m] # None THEN reserves[m]
  ELSE [rid |-> upserts[c][m], by |-> run[c], demo |-> IsDemo(c), at |-> loaded[c].at]

UpsertedRow(c, m) ==
  [rid  |-> IF reserves[m] = None THEN upserts[c][m] ELSE reserves[m].rid,
   by   |-> run[c],
   demo |-> IsDemo(c),
   at   |-> loaded[c].at]

UpsertedSnapshots(c) ==
  { upserts[c][m] : m \in loaded[c].snapshots \cap loaded[c].reserves }

CommitEffect(c) ==
  /\ reserves' = [m \in Markets |->
                    IF m \in loaded[c].reserves THEN UpsertedRow(c, m)
                                                ELSE reserves[m]]
  /\ snapshots' = snapshots \cup UpsertedSnapshots(c)

CommitDataset(c) ==
  /\ pc[c] = "apply" /\ Pending(c) = {}
  /\ \/ /\ Accepted(c)
        /\ CommitEffect(c)
        /\ Goto(c, "finish")
     \/ /\ AckLost(c)
        /\ CommitEffect(c)
        /\ Goto(c, "fail")
  /\ UNCHANGED <<mode, clock, loaded, run, upserts, protocol, runs>>

(* Any statement of the transaction, or its commit, is refused.            *)
RollBackKeepsRows(c) ==   \* mutant: statements run outside the transaction
  /\ pc[c] = "apply"
  /\ Refused(c)
  /\ reserves' = [m \in Markets |-> IF upserts[c][m] # None THEN UpsertedRow(c, m)
                                                           ELSE reserves[m]]
  /\ Goto(c, "fail")
  /\ UNCHANGED <<mode, clock, loaded, run, upserts, protocol, snapshots, runs>>

RollBack(c) ==
  /\ pc[c] = "apply"
  /\ Refused(c)
  /\ upserts' = [upserts EXCEPT ![c] = [m \in Markets |-> None]]
  /\ Goto(c, "fail")
  /\ UNCHANGED <<mode, clock, loaded, run, tables>>

-----------------------------------------------------------------------------
(* Repository.UpdateSyncRun, on the way out of Sync and of finishFailedRun.*)

UpdateRunNoCount(c, st, wr) ==   \* mutant: WrittenCount not assigned
  runs' = [runs EXCEPT ![run[c]] =
             [@ EXCEPT !.status = st, !.read = ReadBy(c), !.written = {}]]

UpdateRun(c, st, wr) ==
  runs' = [runs EXCEPT ![run[c]] =
             [@ EXCEPT !.status = st, !.read = ReadBy(c), !.written = wr]]

FinishRunUnchecked(c) ==   \* mutant: the update's error is not looked at
  /\ pc[c] = "finish"
  /\ \/ Accepted(c) /\ UpdateRun(c, "succeeded", ReadBy(c))
     \/ Refused(c) /\ UNCHANGED runs
  /\ Return(c, "ok")
  /\ UNCHANGED <<mode, clock, protocol, reserves, snapshots>>

FinishRun(c) ==
  /\ pc[c] = "finish"
  /\ \/ Accepted(c) /\ UpdateRun(c, "succeeded", ReadBy(c)) /\ Return(c, "ok")
     \/ Refused(c) /\ UNCHANGED runs /\ Return(c, "error")
     \/ AckLost(c) /\ UpdateRun(c, "succeeded", ReadBy(c)) /\ Return(c, "error")
  /\ UNCHANGED <<mode, clock, protocol, reserves, snapshots>>

FinishFailedRunSkipped(c) ==   \* mutant: Sync returns the error directly
  /\ pc[c] = "fail"
  /\ Return(c, "error")
  /\ UNCHANGED <<mode, clock, faults, tables>>

FinishFailedRun(c) ==
  /\ pc[c] = "fail"
  /\ \/ Accepted(c) /\ UpdateRun(c, "failed", {}) /\ Return(c, "failed")
     \/ Refused(c) /\ UNCHANGED runs /\ Return(c, "error")
     \/ AckLost(c) /\ UpdateRun(c, "failed", {}) /\ Return(c, "error")
  /\ UNCHANGED <<mode, clock, protocol, reserves, snapshots>>

-----------------------------------------------------------------------------

SyncStep(c) ==
  \/ Load(c)
  \/ EnsureProtocol(c)
  \/ CreateSyncRun(c)
  \/ \E m \in Markets : UpsertReserve(c, m)
  \/ CommitDataset(c)
  \/ RollBack(c)
  \/ FinishRun(c)
  \/ FinishFailedRun(c)

BootStep == Start \/ BootSkipsSync \/ BootSyncs \/ BootOverviewFails

Next ==
  \/ BootStep
  \/ Crash
  \/ Stop
  \/ \E r \in Requests : Request(r) \/ Conflict(r) \/ Cancel(r)
  \/ \E c \in Callers : SyncStep(c)

Spec == Init /\ [][Next]_vars

(* The Go scheduler runs every goroutine, the HTTP client of the source    *)
(* has a timeout and a bounded number of attempts, and database calls      *)
(* answer or fail: a sync in flight never stands still.  Clients, signals  *)
(* and operators owe nothing.                                              *)
FairSpec == Spec /\ \A c \in Callers : WF_vars(SyncStep(c))

-----------------------------------------------------------------------------
(* The promise of SyncLedger, seen in this state.                          *)

OpenNow ==
  IF lock # None /\ run[lock] # None THEN run[lock] ELSE None

Ledger == INSTANCE SyncLedger WITH
  NoRun   <- None,
  status  <- [id \in RunIds |-> IF runs[id] = None THEN "absent"
                                                   ELSE runs[id].status],
  written <- [id \in RunIds |-> IF runs[id] = None THEN {}
                                                   ELSE runs[id].written],
  visible <- [m \in Markets |-> IF reserves[m] = None THEN None
                                                      ELSE reserves[m].by],
  open    <- OpenNow

(* Sync, with its lock, contexts, transaction and crashes, keeps the ledger: *)
(* rows appear all at once and only under the one open run, a run closes as  *)
(* succeeded exactly with what it published, and a closed run never changes. *)
LedgerKept == Ledger!LedgerSpec

-----------------------------------------------------------------------------
(* Properties.                                                             *)

Labels  == {"idle", "load", "ensure", "create", "apply", "finish", "fail", "done"}
Answers == {"none", "conflict", "error", "failed", "ok"}

(* Every variable holds a value of its column or field.                    *)
TypeOK ==
  /\ proc \in {"down", "booting", "up"} /\ mode \in Modes
  /\ lock \in Callers \cup {None}
  /\ clock \in Nat /\ faults \in 0..MaxFaults
  /\ pc        \in [Callers -> Labels]
  /\ cancelled \in [Callers -> BOOLEAN]
  /\ loaded    \in [Callers -> Datasets \cup {None}]
  /\ run       \in [Callers -> RunIds \cup {None}]
  /\ upserts   \in [Callers -> [Markets -> ReserveIds \cup {None}]]
  /\ answer    \in [Callers -> Answers]
  /\ protocol  \in Modes \cup {None}
  /\ reserves  \in [Markets -> ReserveRows \cup {None}]
  /\ snapshots \in SUBSET ReserveIds
  /\ runs      \in [RunIds -> RunRows \cup {None}]

(* Sync is executed by the holder of syncLock and by nobody else, whatever *)
(* path the previous holder took out of it (service.go:39-42).             *)
MutualExclusion == \A c \in Callers : InSync(c) <=> lock = c

(* Whatever the dashboard shows was written by a run on record that is not *)
(* reported failed: the run is running (in flight, or stranded), or it     *)
(* succeeded and counts this market as written; and the run names the kind *)
(* of source the row came from.  A failed run may own rows only when a     *)
(* commit was acknowledged as an error.                                    *)
Vouches(row, m) ==
  /\ \/ row.status = "running"
     \/ row.status = "succeeded" /\ m \in row.written
     \/ row.status = "failed" /\ LostAcks
  /\ row.source = IF reserves[m].demo THEN "demo" ELSE "graph"

VisibleDataAudited ==
  \A m \in Markets : reserves[m] # None =>
     LET writer == runs[reserves[m].by] IN writer # None /\ Vouches(writer, m)

(* Nothing but a fault strands a run in status "running": as many rows are *)
(* running without a caller at work on them as there were crashes, refused *)
(* calls and cancelled contexts, at most.                                  *)
StrandedRuns ==
  { id \in RunIds : /\ runs[id] # None /\ runs[id].status = "running"
                    /\ \A c \in Callers : InSync(c) => run[c] # id }

StrandedRunsNeedFaults == Cardinality(StrandedRuns) <= faults

(* Every snapshot belongs to a reserve row: the id upsertReserve returns,  *)
(* under which snapshots are stored, is the id the row really has.         *)
SnapshotsHaveReserves ==
  \A rid \in snapshots :
     reserves[rid[1]] # None /\ reserves[rid[1]].rid = rid

(* A caller is told the truth: after 200 the run is on record as succeeded *)
(* with everything it read written; after the error of a failed sync it is *)
(* on record as failed; a conflict left no run.                            *)
AnswersMatchRuns ==
  \A r \in Callers :
    /\ answer[r] = "ok" =>
         /\ run[r] # None /\ runs[run[r]].status = "succeeded"
         /\ runs[run[r]].read = runs[run[r]].written
    /\ answer[r] = "failed" => run[r] # None /\ runs[run[r]].status = "failed"
    /\ answer[r] = "conflict" => run[r] = None

(* A server configured to synchronize at start never serves an empty       *)
(* dashboard, unless a run succeeded on a source that reports no reserve.  *)
BootFillsDashboard ==
  AutoSync /\ proc = "up" /\ NoReserves =>
     \E id \in RunIds : runs[id] # None /\ runs[id].status = "succeeded"
                                        /\ runs[id].read = {}

(* An older observation of The Graph never replaces a newer one.           *)
FromGraph(row) == row # None /\ ~row.demo

NeverOlderData ==
  [][\A m \in Markets :
       FromGraph(reserves[m]) /\ FromGraph(reserves'[m])
         => reserves'[m].at >= reserves[m].at]_vars

(* Nothing removes a row, so what Overview adds up may be older than what   *)
(* it calls synced last: of rows of The Graph only those of markets that   *)
(* the run which brought the newest data did not read.  A row that it read *)
(* was replaced then, or is newer still (service.go:113-122).              *)
Newest(m) == FromGraph(reserves[m]) /\ reserves[m].at = Overview.LastSyncedAt

OldRowsUnread ==
  \A m \in Overview.counted, k \in Markets :
     Newest(k) /\ FromGraph(reserves[m]) /\ reserves[m].at < Overview.LastSyncedAt
       => m \notin runs[reserves[k].by].read

(* A process built on The Graph writes no demo row (README.md:66).         *)
IsDemoRow(row) == row # None /\ row.demo

NoSilentDemo ==
  [][mode = "graph" => \A m \in Markets :
       IsDemoRow(reserves'[m]) => IsDemoRow(reserves[m])]_vars

(* Every sync that got the lock comes to an end: no path through Sync or   *)
(* finishFailedRun leaves the lock held.                                   *)
SyncReturns == \A c \in Callers : InSync(c) ~> ~InSync(c)

=============================================================================
