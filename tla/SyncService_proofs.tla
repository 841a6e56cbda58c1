------------------------- MODULE SyncService_proofs -------------------------
(***************************************************************************)
(* Proofs about SyncService, for any sets of requests, markets and runs,   *)
(* any number of faults, and both answers to AutoSync and LostAcks: the    *)
(* audit (who is in Sync, and which run a visible row names), the data     *)
(* (what the holder of syncLock has read and written so far), the runs     *)
(* that stay "running", and the refinement of SyncLedger.  Then about      *)
(* SyncOverGraph: the service over the Graph client is the service, so all *)
(* of this holds with the client in it, and its conversation is bounded.   *)
(***************************************************************************)
EXTENDS SyncOverGraph, FiniteSetTheorems, TLAPS

-----------------------------------------------------------------------------
(* The inductive invariant.  TypeOK is not inductive by itself: an update  *)
(* of a run's row keeps its type only because the row is there, and the    *)
(* commit writes reserve rows that name the caller's run.                  *)

(* A caller past CreateSyncRun owns a running row, which names its source. *)
RunRecorded(c) ==
  /\ pc[c] \in {"apply", "finish", "fail"} =>
       /\ run[c] \in RunIds /\ runs[run[c]] # None
       /\ runs[run[c]].status = "running"
       /\ runs[run[c]].source = IF IsDemo(c) THEN "demo" ELSE "graph"
  /\ pc[c] \in {"apply", "finish"} => loaded[c] # None

RunsRecorded == \A c \in Callers : RunRecorded(c)

WrittenBy(m, id) == reserves[m] # None /\ reserves[m].by = id

(* Before the commit no visible row names the run; nor when it failed,     *)
(* unless the failure was a lost acknowledgement.                          *)
Unpublished(c) ==
  pc[c] = "apply" \/ (pc[c] = "fail" /\ ~LostAcks) =>
    \A m \in Markets : ~WrittenBy(m, run[c])

(* After it, only the markets of the dataset do.                           *)
Published(c) ==
  pc[c] = "finish" =>
    \A m \in Markets : WrittenBy(m, run[c]) => m \in ReadBy(c)

RowsAccounted == \A c \in Callers : Unpublished(c) /\ Published(c)

Audited == MutualExclusion /\ RunsRecorded /\ RowsAccounted /\ VisibleDataAudited

IInv == TypeOK /\ Audited

-----------------------------------------------------------------------------
(* Type correctness.                                                       *)

(* The part of TypeOK that a return or the end of the process touches.     *)
LocalTypeOK ==
  /\ proc \in {"down", "booting", "up"}
  /\ lock \in Callers \cup {None}
  /\ pc        \in [Callers -> Labels]
  /\ cancelled \in [Callers -> BOOLEAN]
  /\ loaded    \in [Callers -> Datasets \cup {None}]
  /\ run       \in [Callers -> RunIds \cup {None}]
  /\ upserts   \in [Callers -> [Markets -> ReserveIds \cup {None}]]
  /\ answer    \in [Callers -> Answers]

(* A step that counts a fault or none stays within MaxFaults.              *)
LEMMA FaultsBounded ==
  ASSUME TypeOK, NEW c \in Callers,
         Accepted(c) \/ Refused(c) \/ AckLost(c) \/ NewFault
  PROVE  faults' \in 0..MaxFaults
BY SyncAssumption DEF TypeOK, Accepted, Refused, AckLost, NewFault

LEMMA DemoDatasetType == DemoDataset \in Datasets
BY DEF DemoDataset, Datasets, Modes, Markets

LEMMA GraphDatasetType ==
  ASSUME NEW at \in Nat, NEW d \in GraphDatasets(at)
  PROVE  d \in Datasets /\ d.at = at /\ d.source = "graph"
BY DEF GraphDatasets, Datasets, Modes, Markets

LEMMA NoUpsertsType ==
  [m \in Markets |-> None] \in [Markets -> ReserveIds \cup {None}]
OBVIOUS

(* The end of the process leaves the local variables typed.                *)
LEMMA ProcessEndsType ==
  ASSUME ProcessEnds
  PROVE  LocalTypeOK'
BY DEF ProcessEnds, LocalTypeOK, Labels, Answers

(* So does a return, whether it ends the process or not.                   *)
LEMMA ReturnType ==
  ASSUME TypeOK, NEW c \in Callers, NEW result \in Answers, Return(c, result)
  PROVE  LocalTypeOK'
<1>1. CASE ProcessEnds
  BY <1>1, ProcessEndsType
<1>2. CASE ~ProcessEnds
  <2> USE <1>2 DEF Return, TypeOK
  <2>1. lock' \in Callers \cup {None} /\ proc' \in {"down", "booting", "up"}
    OBVIOUS
  <2>2. pc' \in [Callers -> Labels] /\ answer' \in [Callers -> Answers]
    BY DEF Labels
  <2>3. /\ cancelled' \in [Callers -> BOOLEAN]
        /\ run' \in [Callers -> RunIds \cup {None}]
    OBVIOUS
  <2>4. loaded' \in [Callers -> Datasets \cup {None}]
    OBVIOUS
  <2>5. upserts' \in [Callers -> [Markets -> ReserveIds \cup {None}]]
    BY NoUpsertsType
  <2> QED BY <2>1, <2>2, <2>3, <2>4, <2>5 DEF LocalTypeOK
<1> QED BY <1>1, <1>2

(* So does a caller that goes on within Sync.                              *)
LEMMA GotoType ==
  ASSUME TypeOK, NEW c \in Callers, NEW label \in Labels, Goto(c, label)
  PROVE  /\ proc' \in {"down", "booting", "up"} /\ lock' \in Callers \cup {None}
         /\ pc' \in [Callers -> Labels] /\ cancelled' \in [Callers -> BOOLEAN]
         /\ answer' \in [Callers -> Answers]
BY DEF Goto, TypeOK

LEMMA NewRunRowType ==
  ASSUME NEW c \in Callers
  PROVE  NewRunRow(c) \in RunRows
BY DEF NewRunRow, RunRows, Modes

LEMMA ReadByType ==
  ASSUME TypeOK, NEW c \in Callers
  PROVE  ReadBy(c) \in SUBSET Markets
BY DEF TypeOK, ReadBy, Datasets

LEMMA UpdateRunType ==
  ASSUME TypeOK, NEW c \in Callers, NEW st \in {"succeeded", "failed"},
         run[c] \in RunIds, runs[run[c]] # None, NEW wr \in SUBSET Markets,
         UpdateRun(c, st, wr)
  PROVE  runs' \in [RunIds -> RunRows \cup {None}]
<1>1. runs[run[c]] \in RunRows
  BY DEF TypeOK
<1>2. [runs[run[c]] EXCEPT !.status = st, !.read = ReadBy(c), !.written = wr]
        \in RunRows
  BY <1>1, ReadByType DEF RunRows
<1> QED BY <1>2 DEF TypeOK, UpdateRun

(* What a commit makes visible are reserve rows.                           *)
LEMMA CommitType ==
  ASSUME TypeOK, RunsRecorded, NEW c \in Callers, pc[c] = "apply",
         Pending(c) = {}, CommitEffect(c)
  PROVE  /\ reserves' \in [Markets -> ReserveRows \cup {None}]
         /\ snapshots' \in SUBSET ReserveIds
<1>1. run[c] \in RunIds /\ loaded[c] \in Datasets
  BY DEF TypeOK, RunsRecorded, RunRecorded
<1>2. loaded[c].reserves \in SUBSET Markets /\ loaded[c].at \in Nat
  BY <1>1 DEF Datasets
<1>3. ASSUME NEW m \in loaded[c].reserves
      PROVE  upserts[c][m] \in ReserveIds
  BY <1>1, <1>2, <1>3, NoneAssumption DEF Pending, ReadBy, TypeOK
<1>4. ASSUME NEW m \in loaded[c].reserves
      PROVE  UpsertedRow(c, m) \in ReserveRows
  <2>1. (IF reserves[m] = None THEN upserts[c][m] ELSE reserves[m].rid) \in ReserveIds
    BY <1>2, <1>3, <1>4 DEF TypeOK, ReserveRows
  <2>2. IsDemo(c) \in BOOLEAN
    BY DEF IsDemo
  <2> QED BY <1>1, <1>2, <2>1, <2>2 DEF UpsertedRow, ReserveRows
<1>5. reserves' \in [Markets -> ReserveRows \cup {None}]
  BY <1>2, <1>4 DEF CommitEffect, TypeOK
<1>6. snapshots' \in SUBSET ReserveIds
  BY <1>2, <1>3 DEF CommitEffect, UpsertedSnapshots, TypeOK
<1> QED BY <1>5, <1>6

(* A sync that starts: TryLock succeeds.                                   *)
LEMMA AcquireType ==
  ASSUME TypeOK, NEW c \in Callers, Acquire(c)
  PROVE  TypeOK'
<1> USE DEF TypeOK, Acquire
<1>1. lock' \in Callers \cup {None} /\ pc' \in [Callers -> Labels]
  BY DEF Labels
<1>2. /\ cancelled' \in [Callers -> BOOLEAN]
      /\ loaded' \in [Callers -> Datasets \cup {None}]
      /\ run' \in [Callers -> RunIds \cup {None}]
  OBVIOUS
<1>3. upserts' \in [Callers -> [Markets -> ReserveIds \cup {None}]]
  BY NoUpsertsType
<1>4. answer' \in [Callers -> Answers]
  BY DEF Answers
<1> QED BY <1>1, <1>2, <1>3, <1>4 DEF procVars, tables

LEMMA InitType == Init => TypeOK
<1> SUFFICES ASSUME Init PROVE TypeOK
  OBVIOUS
<1> USE DEF Init
<1>1. /\ pc \in [Callers -> Labels] /\ answer \in [Callers -> Answers]
      /\ cancelled \in [Callers -> BOOLEAN] /\ lock \in Callers \cup {None}
  BY DEF Labels, Answers
<1>2. /\ loaded \in [Callers -> Datasets \cup {None}]
      /\ run \in [Callers -> RunIds \cup {None}]
      /\ upserts \in [Callers -> [Markets -> ReserveIds \cup {None}]]
  BY NoUpsertsType
<1>3. /\ protocol \in Modes \cup {None}
      /\ reserves \in [Markets -> ReserveRows \cup {None}]
      /\ snapshots \in SUBSET ReserveIds
      /\ runs \in [RunIds -> RunRows \cup {None}]
  OBVIOUS
<1>4. /\ proc \in {"down", "booting", "up"} /\ mode \in Modes
      /\ clock \in Nat /\ faults \in 0..MaxFaults
  BY SyncAssumption
<1> QED BY <1>1, <1>2, <1>3, <1>4 DEF TypeOK

(* Steps that end, start or stop the process.                              *)
LEMMA ProcessStepType ==
  ASSUME TypeOK, BootStep \/ Crash \/ Stop
  PROVE  TypeOK'
<1>1. CASE Start
  BY <1>1 DEF Start, TypeOK, localVars, tables
<1>2. CASE BootSkipsSync
  BY <1>2 DEF BootSkipsSync, TypeOK, localVars, tables
<1>3. CASE BootSyncs
  BY <1>3, AcquireType DEF BootSyncs, TryLock, Callers
<1>4. CASE BootOverviewFails \/ Crash \/ Stop
  <2>1. ProcessEnds /\ UNCHANGED <<mode, clock, tables>>
    BY <1>4 DEF BootOverviewFails, Crash, Stop
  <2>2. faults' \in 0..MaxFaults
    BY <1>4, SyncAssumption DEF BootOverviewFails, Crash, Stop, NewFault, TypeOK
  <2> QED BY <2>1, <2>2, ProcessEndsType DEF LocalTypeOK, TypeOK, tables
<1> QED BY <1>1, <1>2, <1>3, <1>4 DEF BootStep

(* Steps of a client.                                                      *)
LEMMA ClientStepType ==
  ASSUME TypeOK, NEW r \in Requests, Request(r) \/ Conflict(r) \/ Cancel(r)
  PROVE  TypeOK'
<1>0. r \in Callers
  BY DEF Callers
<1>1. CASE Request(r)
  BY <1>0, <1>1, AcquireType DEF Request, TryLock
<1>2. CASE Conflict(r)
  <2>1. pc' \in [Callers -> Labels] /\ answer' \in [Callers -> Answers]
    BY <1>0, <1>2 DEF Conflict, TypeOK, Labels, Answers
  <2>2. run' \in [Callers -> RunIds \cup {None}]
    BY <1>0, <1>2 DEF Conflict, TypeOK
  <2>3. UNCHANGED <<proc, mode, clock, lock, faults, cancelled, loaded, upserts,
                    protocol, reserves, snapshots, runs>>
    BY <1>2 DEF Conflict, procVars, tables
  <2> QED BY <2>1, <2>2, <2>3 DEF TypeOK
<1>3. CASE Cancel(r)
  <2>1. faults' \in 0..MaxFaults
    BY <1>0, <1>3, FaultsBounded DEF Cancel
  <2>2. cancelled' \in [Callers -> BOOLEAN]
    BY <1>0, <1>3 DEF Cancel, TypeOK
  <2>3. UNCHANGED <<proc, mode, clock, lock, pc, loaded, run, upserts, answer,
                    protocol, reserves, snapshots, runs>>
    BY <1>3 DEF Cancel, procVars, tables
  <2> QED BY <2>1, <2>2, <2>3 DEF TypeOK
<1> QED BY <1>1, <1>2, <1>3

(* Steps of Sync, before the dataset is written.                           *)
LEMMA LoadType ==
  ASSUME TypeOK, NEW c \in Callers, Load(c)
  PROVE  TypeOK'
<1>1. clock' \in Nat
  BY DEF Load, TypeOK
<1>2. PICK d \in Datasets \cup {None} : loaded' = [loaded EXCEPT ![c] = d]
  <2>1. clock + 1 \in Nat
    BY DEF TypeOK
  <2> QED BY <2>1, DemoDatasetType, GraphDatasetType DEF Load
<1>3. loaded' \in [Callers -> Datasets \cup {None}]
  BY <1>2 DEF TypeOK
<1>4. Goto(c, "ensure") /\ UNCHANGED <<mode, faults, run, upserts, tables>>
  BY DEF Load
<1> QED BY <1>1, <1>3, <1>4, GotoType DEF TypeOK, tables, Labels

LEMMA EnsureProtocolType ==
  ASSUME TypeOK, NEW c \in Callers, EnsureProtocol(c)
  PROVE  TypeOK'
<1>1. faults' \in 0..MaxFaults
  BY FaultsBounded DEF EnsureProtocol
<1>2. protocol' \in Modes \cup {None}
  BY DEF EnsureProtocol, ProtocolRow, TypeOK, Modes
<1>3. UNCHANGED <<mode, clock, reserves, snapshots, runs>>
  BY DEF EnsureProtocol
<1>4. CASE Goto(c, "create") /\ UNCHANGED <<loaded, run, upserts>>
  BY <1>1, <1>2, <1>3, <1>4, GotoType DEF TypeOK, Labels
<1>5. CASE Return(c, "error")
  BY <1>1, <1>2, <1>3, <1>5, ReturnType DEF TypeOK, LocalTypeOK, Answers
<1> QED BY <1>4, <1>5 DEF EnsureProtocol

LEMMA CreateSyncRunType ==
  ASSUME TypeOK, NEW c \in Callers, CreateSyncRun(c)
  PROVE  TypeOK'
<1>1. faults' \in 0..MaxFaults
  BY FaultsBounded DEF CreateSyncRun
<1>2. runs' \in [RunIds -> RunRows \cup {None}]
  BY NewRunRowType DEF CreateSyncRun, TypeOK
<1>3. UNCHANGED <<mode, clock, protocol, reserves, snapshots>>
  BY DEF CreateSyncRun
<1>4. ASSUME NEW label \in Labels, NEW id \in RunIds, Goto(c, label),
             run' = [run EXCEPT ![c] = id], UNCHANGED <<loaded, upserts>>
      PROVE  TypeOK'
  BY <1>1, <1>2, <1>3, <1>4, GotoType DEF TypeOK
<1>5. CASE Return(c, "error")
  BY <1>1, <1>2, <1>3, <1>5, ReturnType DEF TypeOK, LocalTypeOK, Answers
<1>6. "fail" \in Labels /\ "apply" \in Labels
  BY DEF Labels
<1> QED BY <1>4, <1>5, <1>6 DEF CreateSyncRun

LEMMA UpsertReserveType ==
  ASSUME TypeOK, RunsRecorded, NEW c \in Callers, NEW m \in Markets,
         UpsertReserve(c, m)
  PROVE  TypeOK'
<1>1. run[c] \in RunIds
  BY DEF UpsertReserve, RunsRecorded, RunRecorded
<1>2. (IF reserves[m] = None THEN <<m, run[c]>> ELSE reserves[m].rid) \in ReserveIds
  BY <1>1 DEF TypeOK, ReserveIds, ReserveRows
<1>3. upserts' \in [Callers -> [Markets -> ReserveIds \cup {None}]]
  BY <1>2 DEF UpsertReserve, TypeOK
<1>4. UNCHANGED <<faults, procVars, lock, pc, cancelled, loaded, run, answer, tables>>
  BY DEF UpsertReserve, Accepted
<1> QED BY <1>3, <1>4 DEF TypeOK, procVars, tables

LEMMA CommitDatasetType ==
  ASSUME TypeOK, RunsRecorded, NEW c \in Callers, CommitDataset(c)
  PROVE  TypeOK'
<1>1. faults' \in 0..MaxFaults
  BY FaultsBounded DEF CommitDataset
<1>2. /\ reserves' \in [Markets -> ReserveRows \cup {None}]
      /\ snapshots' \in SUBSET ReserveIds
  BY CommitType DEF CommitDataset
<1>3. PICK label \in Labels : Goto(c, label)
  BY DEF CommitDataset, Labels
<1>4. UNCHANGED <<mode, clock, loaded, run, upserts, protocol, runs>>
  BY DEF CommitDataset
<1> QED BY <1>1, <1>2, <1>3, <1>4, GotoType DEF TypeOK

LEMMA RollBackType ==
  ASSUME TypeOK, NEW c \in Callers, RollBack(c)
  PROVE  TypeOK'
<1>1. faults' \in 0..MaxFaults
  BY FaultsBounded DEF RollBack
<1>2. upserts' \in [Callers -> [Markets -> ReserveIds \cup {None}]]
  BY NoUpsertsType DEF RollBack, TypeOK
<1>3. "fail" \in Labels /\ Goto(c, "fail")
  BY DEF RollBack, Labels
<1>4. UNCHANGED <<mode, clock, loaded, run, tables>>
  BY DEF RollBack
<1> QED BY <1>1, <1>2, <1>3, <1>4, GotoType DEF TypeOK, tables

(* The two updates that close a run.                                       *)
LEMMA CloseRunType ==
  ASSUME TypeOK, RunsRecorded, NEW c \in Callers,
         FinishRun(c) \/ FinishFailedRun(c)
  PROVE  TypeOK'
<1>1. faults' \in 0..MaxFaults
  BY FaultsBounded DEF FinishRun, FinishFailedRun
<1>2. run[c] \in RunIds /\ runs[run[c]] # None
  BY DEF FinishRun, FinishFailedRun, RunsRecorded, RunRecorded
<1>3. runs' \in [RunIds -> RunRows \cup {None}]
  <2>1. CASE UNCHANGED runs
    BY <2>1 DEF TypeOK
  <2>2. CASE UpdateRun(c, "succeeded", ReadBy(c))
    BY <1>2, <2>2, ReadByType, UpdateRunType
  <2>3. CASE UpdateRun(c, "failed", {})
    BY <1>2, <2>3, UpdateRunType
  <2> QED BY <2>1, <2>2, <2>3 DEF FinishRun, FinishFailedRun
<1>4. PICK result \in Answers : Return(c, result)
  BY DEF FinishRun, FinishFailedRun, Answers
<1>5. UNCHANGED <<mode, clock, protocol, reserves, snapshots>>
  BY DEF FinishRun, FinishFailedRun
<1> QED BY <1>1, <1>3, <1>4, <1>5, ReturnType DEF TypeOK, LocalTypeOK

(* Every step keeps the types, where callers own the rows they update.     *)
LEMMA StepType ==
  ASSUME TypeOK, RunsRecorded, [Next]_vars
  PROVE  TypeOK'
<1>1. CASE BootStep \/ Crash \/ Stop
  BY <1>1, ProcessStepType
<1>2. ASSUME NEW r \in Requests, Request(r) \/ Conflict(r) \/ Cancel(r)
      PROVE  TypeOK'
  BY <1>2, ClientStepType
<1>3. ASSUME NEW c \in Callers, SyncStep(c)
      PROVE  TypeOK'
  BY <1>3, LoadType, EnsureProtocolType, CreateSyncRunType, UpsertReserveType,
     CommitDatasetType, RollBackType, CloseRunType DEF SyncStep
<1>4. CASE UNCHANGED vars
  BY <1>4 DEF vars, procVars, localVars, tables, TypeOK
<1> QED BY <1>1, <1>2, <1>3, <1>4 DEF Next

-----------------------------------------------------------------------------
(* The audit.  A step leaves either nobody in Sync, or one caller.         *)

Quiet == lock = None /\ \A c \in Callers : ~InSync(c)

LEMMA QuietIsAudited ==
  ASSUME Quiet', VisibleDataAudited'
  PROVE  Audited'
BY SyncAssumption
   DEF Quiet, InSync, Audited, MutualExclusion, RunsRecorded, RunRecorded,
       RowsAccounted, Unpublished, Published

(* The process ends: nobody is left.                                       *)
LEMMA EndIsQuiet ==
  ASSUME ProcessEnds
  PROVE  Quiet'
BY DEF ProcessEnds, Quiet, InSync

(* The holder of the lock returns: nobody is left, for it was the only one.*)
LEMMA ReturnIsQuiet ==
  ASSUME TypeOK, MutualExclusion, NEW c \in Callers, InSync(c),
         NEW result, Return(c, result)
  PROVE  Quiet'
<1>1. CASE ProcessEnds
  BY <1>1, EndIsQuiet
<1>2. CASE ~ProcessEnds
  <2>1. lock' = None /\ pc' = [pc EXCEPT ![c] = "done"]
    BY <1>2 DEF Return
  <2>2. ASSUME NEW d \in Callers PROVE ~InSync(d)'
    BY <2>1 DEF MutualExclusion, InSync, TypeOK
  <2> QED BY <2>1, <2>2 DEF Quiet
<1> QED BY <1>1, <1>2

(* With the lock at c, only c's own part of the invariant has to be shown. *)
LEMMA HolderIsAudited ==
  ASSUME NEW c \in Callers,
         MutualExclusion', lock' = c,
         (RunRecorded(c) /\ Unpublished(c) /\ Published(c))',
         VisibleDataAudited'
  PROVE  Audited'
<1>1. ASSUME NEW d \in Callers, d # c
      PROVE  (RunRecorded(d) /\ Unpublished(d) /\ Published(d))'
  BY <1>1 DEF MutualExclusion, InSync, RunRecorded, Unpublished, Published
<1> QED BY <1>1 DEF Audited, RunsRecorded, RowsAccounted

(* The holder of the lock goes on: it stays the holder.                    *)
LEMMA GotoKeepsHolder ==
  ASSUME TypeOK, MutualExclusion, NEW c \in Callers, InSync(c),
         NEW label \in {"load", "ensure", "create", "apply", "finish", "fail"},
         Goto(c, label)
  PROVE  MutualExclusion' /\ lock' = c /\ pc'[c] = label
BY DEF MutualExclusion, InSync, Goto, TypeOK

LEMMA SameRowsAudited ==
  ASSUME VisibleDataAudited, UNCHANGED <<reserves, runs>>
  PROVE  VisibleDataAudited'
BY DEF VisibleDataAudited, Vouches

LEMMA NothingChangedAudited ==
  ASSUME Audited, UNCHANGED <<lock, pc, loaded, run, reserves, runs>>
  PROVE  Audited'
BY DEF Audited, MutualExclusion, InSync, RunsRecorded, RunRecorded, IsDemo,
       RowsAccounted, Unpublished, Published, WrittenBy, ReadBy,
       VisibleDataAudited, Vouches

(* A run that enters the table vouches for no row, and takes none away.    *)
LEMMA NewRunAudited ==
  ASSUME TypeOK, VisibleDataAudited, UNCHANGED reserves,
         NEW id \in RunIds, runs[id] = None, NEW row,
         runs' = [runs EXCEPT ![id] = row]
  PROVE  /\ VisibleDataAudited'
         /\ \A m \in Markets : ~WrittenBy(m, id)
<1>1. ASSUME NEW m \in Markets, reserves[m] # None
      PROVE  /\ reserves[m].by \in RunIds /\ reserves[m].by # id
             /\ runs'[reserves[m].by] = runs[reserves[m].by]
  BY <1>1 DEF TypeOK, ReserveRows, VisibleDataAudited
<1>2. VisibleDataAudited'
  BY <1>1 DEF VisibleDataAudited, Vouches
<1> QED BY <1>1, <1>2 DEF WrittenBy

LEMMA InitAudited == Init => Audited
<1> SUFFICES ASSUME Init PROVE Audited
  OBVIOUS
<1>1. \A c \in Callers : pc[c] = "idle" /\ lock # c
  BY SyncAssumption DEF Init
<1>2. \A m \in Markets : reserves[m] = None
  BY DEF Init
<1> QED BY <1>1, <1>2
  DEF Audited, MutualExclusion, InSync, RunsRecorded, RunRecorded,
      RowsAccounted, Unpublished, Published, VisibleDataAudited

LEMMA AcquireAudited ==
  ASSUME IInv, NEW c \in Callers, TryLock(c)
  PROVE  Audited'
<1>1. lock' = c /\ pc' = [pc EXCEPT ![c] = "load"] /\ UNCHANGED <<reserves, runs>>
  BY DEF TryLock, Acquire, tables
<1>2. \A d \in Callers : ~InSync(d)
  BY SyncAssumption DEF TryLock, IInv, Audited, MutualExclusion
<1>3. MutualExclusion' /\ pc'[c] = "load"
  BY <1>1, <1>2 DEF MutualExclusion, InSync, IInv, TypeOK
<1>4. (RunRecorded(c) /\ Unpublished(c) /\ Published(c))'
  BY <1>3 DEF RunRecorded, Unpublished, Published
<1> QED BY <1>1, <1>3, <1>4, SameRowsAudited, HolderIsAudited DEF IInv, Audited

LEMMA ProcessStepAudited ==
  ASSUME IInv, BootStep \/ Crash \/ Stop
  PROVE  Audited'
<1>1. CASE Start \/ BootSkipsSync
  BY <1>1, NothingChangedAudited
     DEF Start, BootSkipsSync, localVars, tables, IInv
<1>2. CASE BootSyncs
  BY <1>2, AcquireAudited DEF BootSyncs, Callers
<1>3. CASE BootOverviewFails \/ Crash \/ Stop
  <2>1. ProcessEnds /\ UNCHANGED tables
    BY <1>3 DEF BootOverviewFails, Crash, Stop
  <2> QED BY <2>1, EndIsQuiet, SameRowsAudited, QuietIsAudited
          DEF tables, IInv, Audited
<1> QED BY <1>1, <1>2, <1>3 DEF BootStep

LEMMA ClientStepAudited ==
  ASSUME IInv, NEW r \in Requests, Request(r) \/ Conflict(r) \/ Cancel(r)
  PROVE  Audited'
<1>0. r \in Callers
  BY DEF Callers
<1>1. CASE Request(r)
  BY <1>0, <1>1, AcquireAudited DEF Request
<1>2. CASE Conflict(r)
  <2>1. /\ ~InSync(r) /\ lock # r
        /\ pc' = [pc EXCEPT ![r] = "done"]
        /\ run' = [run EXCEPT ![r] = None]
        /\ UNCHANGED <<lock, loaded, reserves, runs>>
    BY <1>0, <1>2 DEF Conflict, tables, IInv, Audited, MutualExclusion
  <2>2. ASSUME NEW d \in Callers, d # r
        PROVE  pc'[d] = pc[d] /\ run'[d] = run[d]
    BY <2>1, <2>2 DEF IInv, TypeOK
  <2>3. pc'[r] = "done"
    BY <1>0, <2>1 DEF IInv, TypeOK
  <2>4. MutualExclusion'
    BY <2>1, <2>2, <2>3 DEF IInv, Audited, MutualExclusion, InSync
  <2>5. (RunRecorded(r) /\ Unpublished(r) /\ Published(r))'
    BY <2>3 DEF RunRecorded, Unpublished, Published
  <2>6. ASSUME NEW d \in Callers, d # r
        PROVE  (RunRecorded(d) /\ Unpublished(d) /\ Published(d))'
    <3>1. RunRecorded(d) /\ Unpublished(d) /\ Published(d)
      BY DEF IInv, Audited, RunsRecorded, RowsAccounted
    <3> QED BY <3>1, <2>1, <2>2, <2>6
            DEF RunRecorded, Unpublished, Published, WrittenBy, ReadBy, IsDemo
  <2>7. VisibleDataAudited'
    BY <2>1, SameRowsAudited DEF IInv, Audited
  <2> QED BY <2>4, <2>5, <2>6, <2>7 DEF Audited, RunsRecorded, RowsAccounted
<1>3. CASE Cancel(r)
  BY <1>3, NothingChangedAudited DEF Cancel, tables, IInv
<1> QED BY <1>1, <1>2, <1>3

(* Until the run's row exists, c has nothing to account for.               *)
LEMMA NoRunYetAudited ==
  ASSUME IInv, NEW c \in Callers, InSync(c),
         NEW label \in {"load", "ensure", "create"}, Goto(c, label),
         UNCHANGED <<reserves, runs>>
  PROVE  Audited'
<1>1. MutualExclusion' /\ lock' = c /\ pc'[c] = label
  BY GotoKeepsHolder DEF IInv, Audited
<1>2. (RunRecorded(c) /\ Unpublished(c) /\ Published(c))'
  BY <1>1 DEF RunRecorded, Unpublished, Published
<1> QED BY <1>1, <1>2, SameRowsAudited, HolderIsAudited DEF IInv, Audited

LEMMA LoadAudited ==
  ASSUME IInv, NEW c \in Callers, Load(c)
  PROVE  Audited'
BY NoRunYetAudited DEF Load, InSync, tables

LEMMA EnsureProtocolAudited ==
  ASSUME IInv, NEW c \in Callers, EnsureProtocol(c)
  PROVE  Audited'
<1>1. UNCHANGED <<reserves, runs>> /\ InSync(c)
  BY DEF EnsureProtocol, InSync
<1>2. CASE Goto(c, "create")
  BY <1>1, <1>2, NoRunYetAudited
<1>3. CASE Return(c, "error")
  BY <1>1, <1>3, ReturnIsQuiet, SameRowsAudited, QuietIsAudited DEF IInv, Audited
<1> QED BY <1>2, <1>3 DEF EnsureProtocol

LEMMA CreateSyncRunAudited ==
  ASSUME IInv, NEW c \in Callers, CreateSyncRun(c)
  PROVE  Audited'
<1>1. UNCHANGED reserves /\ InSync(c)
  BY DEF CreateSyncRun, InSync
<1>2. ASSUME NEW id \in RunIds, runs[id] = None,
             runs' = [runs EXCEPT ![id] = NewRunRow(c)],
             run' = [run EXCEPT ![c] = id], UNCHANGED loaded,
             Goto(c, IF loaded[c] = None THEN "fail" ELSE "apply")
      PROVE  Audited'
  <2>1. VisibleDataAudited' /\ \A m \in Markets : ~WrittenBy(m, id)
    BY <1>1, <1>2, NewRunAudited DEF IInv, Audited
  <2>2. run'[c] = id /\ runs'[id] = NewRunRow(c)
    BY <1>2 DEF IInv, TypeOK
  <2>3. MutualExclusion' /\ lock' = c
        /\ pc'[c] = IF loaded[c] = None THEN "fail" ELSE "apply"
    BY <1>1, <1>2, GotoKeepsHolder DEF IInv, Audited
  <2>4. runs'[id] # None
    BY <2>2, NewRunRowType, NoneAssumption
  <2>5. RunRecorded(c)'
    BY <1>2, <2>2, <2>3, <2>4 DEF RunRecorded, NewRunRow, IsDemo
  <2>6. Unpublished(c)' /\ Published(c)'
    BY <1>1, <2>1, <2>2, <2>3 DEF Unpublished, Published, WrittenBy
  <2> QED BY <2>1, <2>3, <2>5, <2>6, HolderIsAudited
<1>3. CASE Return(c, "error") /\ UNCHANGED runs
  BY <1>1, <1>3, ReturnIsQuiet, SameRowsAudited, QuietIsAudited DEF IInv, Audited
<1>4. ASSUME Return(c, "error"), NEW id \in RunIds, runs[id] = None,
             runs' = [runs EXCEPT ![id] = NewRunRow(c)]
      PROVE  Audited'
  BY <1>1, <1>4, ReturnIsQuiet, NewRunAudited, QuietIsAudited DEF IInv, Audited
<1> QED BY <1>2, <1>3, <1>4 DEF CreateSyncRun

LEMMA UpsertReserveAudited ==
  ASSUME IInv, NEW c \in Callers, NEW m \in Markets, UpsertReserve(c, m)
  PROVE  Audited'
BY NothingChangedAudited DEF UpsertReserve, tables, IInv

(* The commit: the rows it makes visible name the run of c, which is on    *)
(* record as running, and the kind of source they came from.               *)
LEMMA CommitDatasetAudited ==
  ASSUME IInv, NEW c \in Callers, CommitDataset(c)
  PROVE  Audited'
<1>1. pc[c] = "apply" /\ InSync(c) /\ CommitEffect(c)
      /\ UNCHANGED <<loaded, run, runs>>
  BY DEF CommitDataset, InSync
<1>2. RunRecorded(c) /\ Unpublished(c)
  BY DEF IInv, Audited, RunsRecorded, RowsAccounted
<1>3. PICK label \in {"finish", "fail"} : Goto(c, label) /\ (label = "fail" => LostAcks)
  BY DEF CommitDataset, AckLost
<1>4. MutualExclusion' /\ lock' = c /\ pc'[c] = label
  BY <1>1, <1>3, GotoKeepsHolder DEF IInv, Audited
<1>5. ASSUME NEW m \in Markets
      PROVE  reserves'[m] = IF m \in ReadBy(c) THEN UpsertedRow(c, m) ELSE reserves[m]
  BY <1>1, <1>2 DEF CommitEffect, ReadBy, RunRecorded
<1>6. RunRecorded(c)'
  BY <1>1, <1>2, <1>4 DEF RunRecorded, IsDemo
<1>7. Published(c)' /\ Unpublished(c)'
  <2>1. ASSUME NEW m \in Markets, WrittenBy(m, run[c])'
        PROVE  m \in ReadBy(c)
    BY <1>1, <1>2, <1>5, <2>1 DEF Unpublished, WrittenBy
  <2> QED BY <1>1, <1>3, <1>4, <2>1 DEF Published, Unpublished, WrittenBy, ReadBy
<1>8. VisibleDataAudited'
  <2> SUFFICES ASSUME NEW m \in Markets, reserves'[m] # None
               PROVE  /\ runs'[reserves'[m].by] # None
                      /\ Vouches(runs[reserves[m].by], m)'
    BY <1>1 DEF VisibleDataAudited
  <2>1. CASE m \in ReadBy(c)
    <3>1. reserves'[m] = UpsertedRow(c, m)
      BY <1>5, <2>1
    <3>2. reserves'[m].by = run[c]
      BY <3>1 DEF UpsertedRow
    <3>3. reserves'[m].demo <=> IsDemo(c)
      BY <3>1 DEF UpsertedRow
    <3> QED BY <1>1, <1>2, <3>2, <3>3 DEF RunRecorded, Vouches
  <2>2. CASE m \notin ReadBy(c)
    BY <1>1, <1>5, <2>2 DEF VisibleDataAudited, Vouches, IInv, Audited
  <2> QED BY <2>1, <2>2
<1> QED BY <1>4, <1>6, <1>7, <1>8, HolderIsAudited

(* The rollback: nothing of the run became visible.                        *)
LEMMA RollBackAudited ==
  ASSUME IInv, NEW c \in Callers, RollBack(c)
  PROVE  Audited'
<1>1. /\ pc[c] = "apply" /\ InSync(c) /\ Goto(c, "fail")
      /\ UNCHANGED <<loaded, run, reserves, runs>>
  BY DEF RollBack, InSync, tables
<1>2. RunRecorded(c) /\ Unpublished(c)
  BY DEF IInv, Audited, RunsRecorded, RowsAccounted
<1>3. MutualExclusion' /\ lock' = c /\ pc'[c] = "fail"
  BY <1>1, GotoKeepsHolder DEF IInv, Audited
<1>4. (RunRecorded(c) /\ Unpublished(c) /\ Published(c))'
  BY <1>1, <1>2, <1>3 DEF RunRecorded, IsDemo, Unpublished, Published, WrittenBy
<1> QED BY <1>1, <1>3, <1>4, SameRowsAudited, HolderIsAudited DEF IInv, Audited

(* An update of the row of c closes it with what it published.             *)
LEMMA UpdateRunAudited ==
  ASSUME IInv, NEW c \in Callers, NEW st \in {"succeeded", "failed"},
         NEW wr \in SUBSET Markets,
         run[c] \in RunIds, runs[run[c]] # None,
         UpdateRun(c, st, wr), UNCHANGED reserves,
         \A m \in Markets : WrittenBy(m, run[c]) =>
           (st = "succeeded" /\ m \in wr) \/ (st = "failed" /\ LostAcks)
  PROVE  VisibleDataAudited'
<1>1. runs[run[c]] \in RunRows
  BY DEF IInv, TypeOK
<1>2. /\ runs'[run[c]] \in RunRows
      /\ runs'[run[c]].status = st /\ runs'[run[c]].written = wr
      /\ runs'[run[c]].source = runs[run[c]].source
  <2>1. runs'[run[c]] =
          [runs[run[c]] EXCEPT !.status = st, !.read = ReadBy(c), !.written = wr]
    BY DEF UpdateRun, IInv, TypeOK
  <2> QED BY <1>1, <2>1, ReadByType DEF RunRows, IInv
<1>3. ASSUME NEW m \in Markets, reserves[m] # None
      PROVE  /\ runs'[reserves[m].by] # None
             /\ Vouches(runs[reserves[m].by], m)'
  <2>1. /\ reserves[m].by \in RunIds
        /\ runs[reserves[m].by] # None /\ Vouches(runs[reserves[m].by], m)
    BY <1>3 DEF IInv, TypeOK, ReserveRows, Audited, VisibleDataAudited
  <2>2. CASE reserves[m].by = run[c]
    BY <1>2, <1>3, <2>1, <2>2, NoneAssumption DEF WrittenBy, Vouches
  <2>3. CASE reserves[m].by # run[c]
    <3>1. runs'[reserves[m].by] = runs[reserves[m].by]
      BY <2>1, <2>3 DEF UpdateRun, IInv, TypeOK
    <3> QED BY <2>1, <3>1 DEF Vouches
  <2> QED BY <2>2, <2>3
<1> QED BY <1>3 DEF VisibleDataAudited

LEMMA FinishRunAudited ==
  ASSUME IInv, NEW c \in Callers, FinishRun(c)
  PROVE  Audited'
<1>1. pc[c] = "finish" /\ InSync(c) /\ UNCHANGED reserves
  BY DEF FinishRun, InSync
<1>2. RunRecorded(c) /\ Published(c)
  BY DEF IInv, Audited, RunsRecorded, RowsAccounted
<1>3. VisibleDataAudited'
  <2>1. CASE UNCHANGED runs
    BY <1>1, <2>1, SameRowsAudited DEF IInv, Audited
  <2>2. CASE UpdateRun(c, "succeeded", ReadBy(c))
    BY <1>1, <1>2, <2>2, ReadByType, UpdateRunAudited
       DEF RunRecorded, Published, IInv
  <2> QED BY <2>1, <2>2 DEF FinishRun
<1>4. PICK result \in Answers : Return(c, result)
  BY DEF FinishRun, Answers
<1> QED BY <1>1, <1>3, <1>4, ReturnIsQuiet, QuietIsAudited DEF IInv, Audited

LEMMA FinishFailedRunAudited ==
  ASSUME IInv, NEW c \in Callers, FinishFailedRun(c)
  PROVE  Audited'
<1>1. pc[c] = "fail" /\ InSync(c) /\ UNCHANGED reserves
  BY DEF FinishFailedRun, InSync
<1>2. RunRecorded(c) /\ Unpublished(c)
  BY DEF IInv, Audited, RunsRecorded, RowsAccounted
<1>3. VisibleDataAudited'
  <2>1. CASE UNCHANGED runs
    BY <1>1, <2>1, SameRowsAudited DEF IInv, Audited
  <2>2. CASE UpdateRun(c, "failed", {})
    <3>1. ASSUME NEW m \in Markets, WrittenBy(m, run[c])
          PROVE  LostAcks
      BY <1>1, <1>2, <3>1 DEF Unpublished
    <3> QED BY <1>1, <1>2, <2>2, <3>1, UpdateRunAudited DEF RunRecorded
  <2> QED BY <2>1, <2>2 DEF FinishFailedRun
<1>4. PICK result \in Answers : Return(c, result)
  BY DEF FinishFailedRun, Answers
<1> QED BY <1>1, <1>3, <1>4, ReturnIsQuiet, QuietIsAudited DEF IInv, Audited

LEMMA StepAudited ==
  ASSUME IInv, [Next]_vars
  PROVE  Audited'
<1>1. CASE BootStep \/ Crash \/ Stop
  BY <1>1, ProcessStepAudited
<1>2. ASSUME NEW r \in Requests, Request(r) \/ Conflict(r) \/ Cancel(r)
      PROVE  Audited'
  BY <1>2, ClientStepAudited
<1>3. ASSUME NEW c \in Callers, SyncStep(c)
      PROVE  Audited'
  BY <1>3, LoadAudited, EnsureProtocolAudited, CreateSyncRunAudited,
     UpsertReserveAudited, CommitDatasetAudited, RollBackAudited,
     FinishRunAudited, FinishFailedRunAudited DEF SyncStep
<1>4. CASE UNCHANGED vars
  BY <1>4, NothingChangedAudited DEF vars, localVars, tables, IInv
<1> QED BY <1>1, <1>2, <1>3, <1>4 DEF Next

-----------------------------------------------------------------------------
(* The theorems.                                                           *)

(* Who is in Sync, what its run looks like, and which run vouches for each *)
(* visible row, under every interleaving, fault and crash.                 *)
THEOREM Invariance == Spec => []IInv
<1>1. Init => IInv
  BY InitType, InitAudited DEF IInv
<1>2. IInv /\ [Next]_vars => IInv'
  BY StepType, StepAudited DEF IInv, Audited
<1> QED BY <1>1, <1>2, PTL DEF Spec

(* Every variable keeps to the values of its column or field.              *)
THEOREM TypeCorrect == Spec => []TypeOK
<1>1. IInv => TypeOK
  BY DEF IInv
<1> QED BY <1>1, Invariance, PTL

(* syncLock: at most one caller executes Sync, and it holds the lock.      *)
THEOREM SyncsExcludeEachOther == Spec => []MutualExclusion
<1>1. IInv => MutualExclusion
  BY DEF IInv, Audited
<1> QED BY <1>1, Invariance, PTL

(* Every visible reserve row is vouched for by the run that wrote it.      *)
THEOREM VisibleDataIsAudited == Spec => []VisibleDataAudited
<1>1. IInv => VisibleDataAudited
  BY DEF IInv, Audited
<1> QED BY <1>1, Invariance, PTL

-----------------------------------------------------------------------------
(* The data.  What the holder of the lock has done so far, beyond its run: *)
(* nothing before CreateSyncRun,                                           *)
NoRunYet(c) ==
  pc[c] \in {"load", "ensure", "create"} =>
    run[c] = None /\ \A m \in Markets : upserts[c][m] = None

(* then a run of which nothing is counted yet,                             *)
RunUncounted(c) ==
  pc[c] \in {"apply", "finish", "fail"} =>
    runs[run[c]].read = {} /\ runs[run[c]].written = {}

(* in the transaction, the ids that the rows have or will get,             *)
UpsertsTrue(c) ==
  pc[c] = "apply" => \A m \in Markets : upserts[c][m] # None =>
    upserts[c][m] = IF reserves[m] = None THEN <<m, run[c]>> ELSE reserves[m].rid

(* and after it, all the rows it read or none of them.                     *)
WroteAll(c) ==
  /\ loaded[c] # None
  /\ \A m \in Markets : WrittenBy(m, run[c]) <=> m \in ReadBy(c)
  /\ \A m \in ReadBy(c) : reserves[m].at = loaded[c].at

WroteNone(c) == \A m \in Markets : ~WrittenBy(m, run[c])

Committed(c) ==
  /\ pc[c] = "finish" => WroteAll(c)
  /\ pc[c] = "fail" => WroteAll(c) \/ WroteNone(c)

(* Its dataset is of the source of this process, and no visible row of The *)
(* Graph is newer.                                                         *)
Newer(c) ==
  InSync(c) /\ loaded[c] # None =>
    /\ loaded[c].source = mode
    /\ ~IsDemo(c) =>
         /\ loaded[c].at <= clock
         /\ \A m \in Markets : FromGraph(reserves[m]) => reserves[m].at <= loaded[c].at

Unanswered(c) == InSync(c) => answer[c] = "none"

Worked(c) ==
  /\ NoRunYet(c) /\ RunUncounted(c) /\ UpsertsTrue(c) /\ Committed(c)
  /\ Newer(c) /\ Unanswered(c)

AllWorked == \A c \in Callers : Worked(c)

(* The tables: no row of The Graph is newer than the clock, the id of a    *)
(* row is of its market, and OldRowsUnread for every two rows.             *)
RowsObserved == \A m \in Markets : FromGraph(reserves[m]) => reserves[m].at <= clock

RowsNamed == \A m \in Markets : reserves[m] # None => reserves[m].rid[1] = m

OlderUnread ==
  \A k, m \in Markets :
    FromGraph(reserves[k]) /\ FromGraph(reserves[m]) /\ reserves[m].at < reserves[k].at
      => m \notin runs[reserves[k].by].read

RowsSound == RowsObserved /\ RowsNamed /\ SnapshotsHaveReserves /\ OlderUnread

(* No caller outlives the process.                                         *)
DownIsQuiet == proc = "down" => lock = None

DInv == AllWorked /\ RowsSound /\ DownIsQuiet

-----------------------------------------------------------------------------
LEMMA QuietWorked ==
  ASSUME Quiet'
  PROVE  AllWorked'
BY DEF Quiet, InSync, AllWorked, Worked, NoRunYet, RunUncounted, UpsertsTrue,
       Committed, Newer, Unanswered

LEMMA HolderWorked ==
  ASSUME NEW c \in Callers, MutualExclusion', lock' = c, Worked(c)'
  PROVE  AllWorked'
<1>1. ASSUME NEW d \in Callers, d # c
      PROVE  Worked(d)'
  <2>1. ~InSync(d)'
    BY <1>1 DEF MutualExclusion
  <2> QED BY <2>1 DEF InSync, Worked, NoRunYet, RunUncounted, UpsertsTrue,
                      Committed, Newer, Unanswered
<1> QED BY <1>1 DEF AllWorked

(* The tables as they were, or with a later clock.                         *)
LEMMA SameRowsSound ==
  ASSUME TypeOK, RowsSound, UNCHANGED <<reserves, snapshots, runs>>,
         clock' \in Nat, clock' >= clock
  PROVE  RowsSound'
<1>1. RowsObserved'
  <2> SUFFICES ASSUME NEW m \in Markets, FromGraph(reserves[m])
               PROVE reserves[m].at <= clock'
    BY DEF RowsObserved
  <2>1. reserves[m].at \in Nat /\ clock \in Nat /\ reserves[m].at <= clock
    BY DEF RowsSound, RowsObserved, TypeOK, ReserveRows, FromGraph
  <2> QED BY <2>1
<1> QED BY <1>1 DEF RowsSound, RowsNamed, SnapshotsHaveReserves, OlderUnread

LEMMA NewRunSound ==
  ASSUME IInv, RowsSound, UNCHANGED <<reserves, snapshots, clock>>,
         NEW id \in RunIds, runs[id] = None, NEW row,
         runs' = [runs EXCEPT ![id] = row]
  PROVE  RowsSound'
<1>1. ASSUME NEW m \in Markets, reserves[m] # None
      PROVE  runs'[reserves[m].by] = runs[reserves[m].by]
  <2>1. reserves[m].by \in RunIds /\ reserves[m].by # id
    BY <1>1 DEF IInv, TypeOK, ReserveRows, Audited, VisibleDataAudited
  <2> QED BY <2>1 DEF IInv, TypeOK
<1> QED BY <1>1 DEF RowsSound, RowsObserved, RowsNamed, SnapshotsHaveReserves,
                    OlderUnread, FromGraph

(* An update of the row of a caller counts what it read: rows that its run *)
(* wrote together.                                                         *)
LEMMA UpdateRunSound ==
  ASSUME IInv, RowsSound, NEW c \in Callers, WroteAll(c) \/ WroteNone(c),
         run[c] \in RunIds, runs[run[c]] # None,
         NEW st, NEW wr, UpdateRun(c, st, wr),
         UNCHANGED <<reserves, snapshots, clock>>
  PROVE  RowsSound'
<1>1. ASSUME NEW k \in Markets, NEW m \in Markets,
             FromGraph(reserves[k]), FromGraph(reserves[m]),
             reserves[m].at < reserves[k].at
      PROVE  m \notin runs'[reserves[k].by].read
  <2>1. /\ reserves[k].by \in RunIds /\ reserves[k].at \in Nat
        /\ m \notin runs[reserves[k].by].read
    BY <1>1 DEF IInv, TypeOK, ReserveRows, FromGraph, RowsSound, OlderUnread
  <2>2. CASE reserves[k].by = run[c]
    <3>1. runs[run[c]] \in RunRows
      BY DEF IInv, TypeOK
    <3>2. runs'[run[c]].read = ReadBy(c)
      BY <3>1 DEF UpdateRun, IInv, TypeOK, RunRows
    <3>3. WroteAll(c) /\ k \in ReadBy(c)
      BY <1>1, <2>2 DEF WroteAll, WroteNone, WrittenBy, FromGraph
    <3>4. ASSUME m \in ReadBy(c) PROVE FALSE
      BY <1>1, <2>1, <3>3, <3>4 DEF WroteAll
    <3> QED BY <2>2, <3>2, <3>4
  <2>3. CASE reserves[k].by # run[c]
    BY <2>1, <2>3 DEF UpdateRun, IInv, TypeOK
  <2> QED BY <2>2, <2>3
<1> QED BY <1>1 DEF RowsSound, RowsObserved, RowsNamed, SnapshotsHaveReserves,
                    OlderUnread

(* What a commit of c makes of each row.                                   *)
LEMMA CommitRows ==
  ASSUME IInv, DInv, NEW c \in Callers, CommitDataset(c), NEW m \in Markets
  PROVE  /\ m \notin ReadBy(c) => reserves'[m] = reserves[m]
         /\ m \in ReadBy(c) =>
              /\ reserves'[m] # None
              /\ reserves'[m].by = run[c] /\ reserves'[m].at = loaded[c].at
              /\ reserves'[m].demo = IsDemo(c)
              /\ upserts[c][m] = reserves'[m].rid /\ reserves'[m].rid[1] = m
              /\ reserves[m] # None => reserves'[m].rid = reserves[m].rid
<1>1. /\ pc[c] = "apply" /\ Pending(c) = {} /\ CommitEffect(c)
      /\ run[c] \in RunIds /\ loaded[c] \in Datasets
      /\ loaded[c].reserves \in SUBSET Markets /\ loaded[c].at \in Nat
      /\ ReadBy(c) = loaded[c].reserves
  BY DEF CommitDataset, IInv, Audited, RunsRecorded, RunRecorded, TypeOK,
         Datasets, ReadBy
<1>2. reserves'[m] = IF m \in ReadBy(c) THEN UpsertedRow(c, m) ELSE reserves[m]
  BY <1>1 DEF CommitEffect
<1>3. ASSUME m \in ReadBy(c)
      PROVE  /\ upserts[c][m] \in ReserveIds /\ upserts[c][m][1] = m
             /\ upserts[c][m] = IF reserves[m] = None THEN <<m, run[c]>>
                                                     ELSE reserves[m].rid
  <2>1. upserts[c][m] # None
    BY <1>1, <1>3 DEF Pending
  <2>2. upserts[c][m] \in ReserveIds
    BY <2>1 DEF IInv, TypeOK
  <2>3. UpsertsTrue(c) /\ RowsNamed
    BY DEF DInv, AllWorked, Worked, RowsSound
  <2> QED BY <1>1, <2>1, <2>2, <2>3 DEF UpsertsTrue, RowsNamed
<1>4. ASSUME m \in ReadBy(c)
      PROVE  UpsertedRow(c, m) \in ReserveRows
  BY <1>1, <1>3, <1>4 DEF UpsertedRow, ReserveRows, IsDemo, IInv, TypeOK
<1> QED BY <1>2, <1>3, <1>4, NoneAssumption DEF UpsertedRow

(* A commit writes all its rows, the newest there are, and its snapshots   *)
(* under their ids.                                                        *)
LEMMA CommitSound ==
  ASSUME IInv, DInv, NEW c \in Callers, CommitDataset(c)
  PROVE  WroteAll(c)' /\ Newer(c)' /\ RowsSound'
<1> DEFINE at == loaded[c].at
<1>1. /\ pc[c] = "apply" /\ Pending(c) = {} /\ CommitEffect(c)
      /\ UNCHANGED <<loaded, run, runs, clock, mode>>
      /\ run[c] \in RunIds /\ loaded[c] # None /\ loaded[c] \in Datasets
      /\ at \in Nat /\ clock \in Nat /\ ReadBy(c) = loaded[c].reserves
  BY DEF CommitDataset, IInv, Audited, RunsRecorded, RunRecorded, TypeOK,
         Datasets, ReadBy
<1>2. /\ runs[run[c]].read = {} /\ WroteNone(c)
      /\ loaded[c].source = mode
      /\ ~IsDemo(c) => /\ at <= clock
                       /\ \A m \in Markets : FromGraph(reserves[m]) => reserves[m].at <= at
  <2>1. RunUncounted(c) /\ Newer(c) /\ Unpublished(c)
    BY DEF DInv, AllWorked, Worked, IInv, Audited, RowsAccounted
  <2> QED BY <1>1, <2>1 DEF RunUncounted, Newer, InSync, Unpublished, WroteNone
<1>3. ASSUME NEW m \in Markets, reserves[m] # None
      PROVE  reserves[m].at \in Nat
  BY <1>3 DEF IInv, TypeOK, ReserveRows
<1>4. ASSUME NEW m \in Markets, FromGraph(reserves'[m])
      PROVE  /\ m \in ReadBy(c) => ~IsDemo(c) /\ reserves'[m].at = at
             /\ m \notin ReadBy(c) => reserves'[m] = reserves[m]
             /\ reserves'[m].at \in Nat /\ reserves'[m].at <= clock
             /\ ~IsDemo(c) => reserves'[m].at <= at
  <2>1. /\ m \in ReadBy(c) => ~IsDemo(c) /\ reserves'[m].at = at
        /\ m \notin ReadBy(c) => reserves'[m] = reserves[m]
    BY <1>4, CommitRows DEF FromGraph
  <2>2. RowsObserved
    BY DEF DInv, RowsSound
  <2> QED BY <1>1, <1>2, <1>3, <1>4, <2>1, <2>2 DEF FromGraph, RowsObserved
<1>5. WroteAll(c)'
  <2>1. ASSUME NEW m \in Markets PROVE WrittenBy(m, run[c])' <=> m \in ReadBy(c)
    BY <1>1, <1>2, CommitRows DEF WroteNone, WrittenBy
  <2>2. ReadBy(c)' = ReadBy(c) /\ ReadBy(c) \subseteq Markets
    BY <1>1, ReadByType DEF ReadBy, IInv
  <2>3. ASSUME NEW m \in ReadBy(c) PROVE reserves'[m].at = at
    BY <2>2, CommitRows
  <2> QED BY <1>1, <2>1, <2>2, <2>3 DEF WroteAll, WrittenBy
<1>6. Newer(c)'
  BY <1>1, <1>2, <1>4 DEF Newer, IsDemo
<1>7. RowsObserved'
  BY <1>1, <1>4 DEF RowsObserved
<1>8. RowsNamed'
  BY CommitRows DEF DInv, RowsSound, RowsNamed
<1>9. SnapshotsHaveReserves'
  <2> SUFFICES ASSUME NEW rid \in snapshots'
               PROVE  reserves'[rid[1]] # None /\ reserves'[rid[1]].rid = rid
    BY DEF SnapshotsHaveReserves
  <2>1. CASE rid \in snapshots
    <3>1. /\ reserves[rid[1]] # None /\ reserves[rid[1]].rid = rid
          /\ rid[1] \in Markets
      BY <2>1 DEF DInv, RowsSound, SnapshotsHaveReserves, IInv, TypeOK, ReserveIds
    <3> QED BY <3>1, CommitRows
  <2>2. CASE rid \notin snapshots
    <3>1. PICK m \in ReadBy(c) : rid = upserts[c][m]
      BY <1>1, <2>2 DEF CommitEffect, UpsertedSnapshots
    <3> QED BY <3>1, CommitRows, ReadByType DEF IInv
  <2> QED BY <2>1, <2>2
<1>10. OlderUnread'
  <2> SUFFICES ASSUME NEW k \in Markets, NEW m \in Markets,
                      FromGraph(reserves'[k]), FromGraph(reserves'[m]),
                      reserves'[m].at < reserves'[k].at
               PROVE  m \notin runs[reserves'[k].by].read
    BY <1>1 DEF OlderUnread
  <2>1. CASE k \in ReadBy(c)
    BY <1>2, <2>1, CommitRows
  <2>2. CASE k \notin ReadBy(c) /\ m \in ReadBy(c)
    BY <1>4, <2>2
  <2>3. CASE k \notin ReadBy(c) /\ m \notin ReadBy(c)
    BY <1>4, <2>3 DEF DInv, RowsSound, OlderUnread
  <2> QED BY <2>1, <2>2, <2>3
<1> QED BY <1>5, <1>6, <1>7, <1>8, <1>9, <1>10 DEF RowsSound

-----------------------------------------------------------------------------
(* The steps.                                                              *)

LEMMA InitData == Init => DInv
<1> SUFFICES ASSUME Init PROVE DInv
  OBVIOUS
<1>1. /\ \A c \in Callers : pc[c] = "idle"
      /\ \A m \in Markets : reserves[m] = None
      /\ snapshots = {} /\ lock = None
  BY DEF Init
<1>2. AllWorked
  BY <1>1 DEF InSync, AllWorked, Worked, NoRunYet, RunUncounted, UpsertsTrue,
              Committed, Newer, Unanswered
<1> QED BY <1>1, <1>2
  DEF DInv, DownIsQuiet, RowsSound, RowsObserved, RowsNamed,
      SnapshotsHaveReserves, OlderUnread, FromGraph

LEMMA NothingWorked ==
  ASSUME DInv, UNCHANGED <<mode, clock, pc, loaded, run, upserts, answer,
                           reserves, snapshots, runs>>
  PROVE  AllWorked' /\ RowsSound'
BY DEF DInv, AllWorked, Worked, NoRunYet, RunUncounted, UpsertsTrue, Committed,
       WroteAll, WroteNone, WrittenBy, Newer, Unanswered, InSync, IsDemo, ReadBy,
       RowsSound, RowsObserved, RowsNamed, SnapshotsHaveReserves, OlderUnread

LEMMA AcquireData ==
  ASSUME IInv, DInv, NEW c \in Callers, TryLock(c), proc # "down"
  PROVE  DInv'
<1>1. /\ lock' = c /\ pc'[c] = "load" /\ loaded'[c] = None /\ run'[c] = None
      /\ upserts'[c] = [m \in Markets |-> None] /\ answer'[c] = "none"
      /\ UNCHANGED <<proc, mode, clock, reserves, snapshots, runs>>
  BY DEF TryLock, Acquire, procVars, tables, IInv, TypeOK
<1>2. MutualExclusion'
  BY AcquireAudited DEF Audited
<1>3. Worked(c)'
  BY <1>1 DEF Worked, NoRunYet, RunUncounted, UpsertsTrue, Committed, Newer,
              Unanswered
<1>4. RowsSound'
  BY <1>1, SameRowsSound DEF IInv, TypeOK, DInv
<1> QED BY <1>1, <1>2, <1>3, <1>4, HolderWorked DEF DInv, DownIsQuiet

(* A step that leaves nobody in Sync only has to keep the tables sound.    *)
LEMMA QuietData ==
  ASSUME Quiet', RowsSound'
  PROVE  DInv'
BY QuietWorked DEF Quiet, DInv, DownIsQuiet

LEMMA ProcessStepData ==
  ASSUME IInv, DInv, BootStep \/ Crash \/ Stop
  PROVE  DInv'
<1>1. CASE Start
  <2>1. lock = None /\ UNCHANGED <<lock, pc, clock, reserves, snapshots, runs>>
    BY <1>1 DEF Start, tables, DInv, DownIsQuiet
  <2>2. Quiet'
    BY <2>1, SyncAssumption DEF Quiet, InSync, IInv, Audited, MutualExclusion
  <2> QED BY <2>1, <2>2, SameRowsSound, QuietData DEF IInv, TypeOK, DInv
<1>2. CASE BootSkipsSync
  BY <1>2, NothingWorked DEF BootSkipsSync, localVars, tables, DInv, DownIsQuiet
<1>3. CASE BootSyncs
  BY <1>3, AcquireData DEF BootSyncs, Callers
<1>4. CASE BootOverviewFails \/ Crash \/ Stop
  <2>1. ProcessEnds /\ UNCHANGED <<clock, reserves, snapshots, runs>>
    BY <1>4 DEF BootOverviewFails, Crash, Stop, tables
  <2> QED BY <2>1, EndIsQuiet, SameRowsSound, QuietData DEF IInv, TypeOK, DInv
<1> QED BY <1>1, <1>2, <1>3, <1>4 DEF BootStep

LEMMA ClientStepData ==
  ASSUME IInv, DInv, NEW r \in Requests, Request(r) \/ Conflict(r) \/ Cancel(r)
  PROVE  DInv'
<1>0. r \in Callers
  BY DEF Callers
<1>1. CASE Request(r)
  BY <1>0, <1>1, AcquireData DEF Request
<1>2. CASE Conflict(r)
  <2>1. /\ ~InSync(r)
        /\ pc' = [pc EXCEPT ![r] = "done"]
        /\ run' = [run EXCEPT ![r] = None]
        /\ answer' = [answer EXCEPT ![r] = "conflict"]
        /\ UNCHANGED <<proc, mode, clock, lock, loaded, upserts, reserves,
                       snapshots, runs>>
    BY <1>2 DEF Conflict, procVars, tables
  <2>2. ASSUME NEW d \in Callers, d # r
        PROVE  pc'[d] = pc[d] /\ run'[d] = run[d] /\ answer'[d] = answer[d]
    BY <2>1, <2>2 DEF IInv, TypeOK
  <2>3. pc'[r] = "done"
    BY <1>0, <2>1 DEF IInv, TypeOK
  <2>4. Worked(r)'
    BY <2>3 DEF InSync, Worked, NoRunYet, RunUncounted, UpsertsTrue, Committed,
                Newer, Unanswered
  <2>5. ASSUME NEW d \in Callers, d # r
        PROVE  Worked(d)'
    <3>1. Worked(d)
      BY DEF DInv, AllWorked
    <3> QED BY <3>1, <2>1, <2>2, <2>5
            DEF Worked, NoRunYet, RunUncounted, UpsertsTrue, Committed,
                WroteAll, WroteNone, WrittenBy, Newer, Unanswered, InSync,
                IsDemo, ReadBy
  <2>6. RowsSound'
    BY <2>1, SameRowsSound DEF IInv, TypeOK, DInv
  <2> QED BY <2>1, <2>4, <2>5, <2>6 DEF DInv, AllWorked, DownIsQuiet
<1>3. CASE Cancel(r)
  BY <1>3, NothingWorked DEF Cancel, procVars, tables, DInv, DownIsQuiet
<1> QED BY <1>1, <1>2, <1>3

LEMMA HolderUp ==
  ASSUME IInv, DInv, NEW c \in Callers, InSync(c)
  PROVE  proc # "down"
BY SyncAssumption DEF IInv, Audited, MutualExclusion, DInv, DownIsQuiet

(* The holder goes on to its next step: its own part is left to show.      *)
LEMMA GotoData ==
  ASSUME IInv, DInv, NEW c \in Callers, InSync(c),
         NEW label \in {"load", "ensure", "create", "apply", "finish", "fail"},
         Goto(c, label), RowsSound',
         (NoRunYet(c) /\ RunUncounted(c) /\ UpsertsTrue(c) /\ Committed(c) /\ Newer(c))'
  PROVE  DInv'
<1>1. MutualExclusion' /\ lock' = c /\ UNCHANGED <<proc, answer>>
  BY GotoKeepsHolder DEF Goto, IInv, Audited
<1>2. Unanswered(c)'
  BY <1>1 DEF DInv, AllWorked, Worked, Unanswered
<1> QED BY <1>1, <1>2, HolderWorked, HolderUp DEF Worked, DInv, DownIsQuiet

LEMMA ReturnData ==
  ASSUME IInv, DInv, NEW c \in Callers, InSync(c), NEW result, Return(c, result),
         RowsSound'
  PROVE  DInv'
BY ReturnIsQuiet, QuietData DEF IInv, Audited

LEMMA LoadData ==
  ASSUME IInv, DInv, NEW c \in Callers, Load(c)
  PROVE  DInv'
<1>1. /\ pc[c] = "load" /\ InSync(c) /\ Goto(c, "ensure") /\ pc'[c] = "ensure"
      /\ UNCHANGED <<mode, run, upserts, reserves, snapshots, runs>>
      /\ clock \in Nat /\ clock' \in {clock, clock + 1}
  BY DEF Load, InSync, Goto, tables, IInv, TypeOK
<1>2. RowsSound'
  BY <1>1, SameRowsSound DEF IInv, DInv
<1>3. Newer(c)'
  <2>1. CASE loaded'[c] = None
    BY <2>1 DEF Newer
  <2>2. CASE mode = "demo" /\ loaded'[c] = DemoDataset
    BY <1>1, <2>2 DEF Newer, IsDemo, DemoDataset
  <2>3. CASE /\ mode = "graph" /\ clock' = clock + 1
             /\ loaded'[c] \in GraphDatasets(clock + 1)
    <3>1. loaded'[c].source = "graph" /\ loaded'[c].at = clock'
      BY <2>3, GraphDatasetType, <1>1
    <3>2. ASSUME NEW m \in Markets, FromGraph(reserves[m])
          PROVE  reserves[m].at <= clock + 1
      <4>1. reserves[m].at \in Nat /\ reserves[m].at <= clock
        BY <3>2 DEF IInv, TypeOK, ReserveRows, FromGraph, DInv, RowsSound, RowsObserved
      <4> QED BY <1>1, <4>1
    <3> QED BY <1>1, <2>3, <3>1, <3>2 DEF Newer
  <2> QED BY <2>1, <2>2, <2>3 DEF Load, IInv, TypeOK
<1>4. NoRunYet(c)' /\ RunUncounted(c)' /\ UpsertsTrue(c)' /\ Committed(c)'
  BY <1>1 DEF DInv, AllWorked, Worked, NoRunYet, RunUncounted, UpsertsTrue, Committed
<1> QED BY <1>1, <1>2, <1>3, <1>4, GotoData

LEMMA EnsureProtocolData ==
  ASSUME IInv, DInv, NEW c \in Callers, EnsureProtocol(c)
  PROVE  DInv'
<1>1. /\ pc[c] = "ensure" /\ InSync(c)
      /\ UNCHANGED <<mode, clock, reserves, snapshots, runs>>
  BY DEF EnsureProtocol, InSync
<1>2. RowsSound'
  BY <1>1, SameRowsSound DEF IInv, TypeOK, DInv
<1>3. CASE Goto(c, "create") /\ UNCHANGED <<loaded, run, upserts>>
  <2>1. pc'[c] = "create"
    BY <1>3 DEF Goto, IInv, TypeOK
  <2>2. NoRunYet(c) /\ Newer(c)
    BY DEF DInv, AllWorked, Worked
  <2>3. (NoRunYet(c) /\ RunUncounted(c) /\ UpsertsTrue(c) /\ Committed(c) /\ Newer(c))'
    BY <1>1, <1>3, <2>1, <2>2
       DEF NoRunYet, RunUncounted, UpsertsTrue, Committed, Newer, InSync, IsDemo
  <2> QED BY <1>1, <1>2, <1>3, <2>3, GotoData
<1>4. CASE Return(c, "error")
  BY <1>1, <1>2, <1>4, ReturnData
<1> QED BY <1>3, <1>4 DEF EnsureProtocol

LEMMA CreateSyncRunData ==
  ASSUME IInv, DInv, NEW c \in Callers, CreateSyncRun(c)
  PROVE  DInv'
<1>1. /\ pc[c] = "create" /\ InSync(c)
      /\ UNCHANGED <<mode, clock, reserves, snapshots>>
  BY DEF CreateSyncRun, InSync
<1>2. ASSUME NEW id \in RunIds, runs[id] = None,
             runs' = [runs EXCEPT ![id] = NewRunRow(c)],
             run' = [run EXCEPT ![c] = id], UNCHANGED <<loaded, upserts>>,
             Goto(c, IF loaded[c] = None THEN "fail" ELSE "apply")
      PROVE  DInv'
  <2>1. RowsSound'
    BY <1>1, <1>2, NewRunSound DEF DInv
  <2>2. \A m \in Markets : ~WrittenBy(m, id)
    BY <1>1, <1>2, NewRunAudited DEF IInv, Audited
  <2>3. /\ run'[c] = id /\ runs'[id] = NewRunRow(c)
        /\ pc'[c] = IF loaded[c] = None THEN "fail" ELSE "apply"
    BY <1>2 DEF Goto, IInv, TypeOK
  <2>4. NoRunYet(c) /\ Newer(c)
    BY DEF DInv, AllWorked, Worked
  <2>5. RunUncounted(c)'
    BY <2>3 DEF RunUncounted, NewRunRow
  <2>6. NoRunYet(c)' /\ UpsertsTrue(c)' /\ Newer(c)'
    BY <1>1, <1>2, <2>3, <2>4 DEF NoRunYet, UpsertsTrue, Newer, InSync, IsDemo
  <2>7. Committed(c)'
    BY <1>1, <2>2, <2>3 DEF Committed, WroteNone, WrittenBy
  <2>8. (IF loaded[c] = None THEN "fail" ELSE "apply")
          \in {"load", "ensure", "create", "apply", "finish", "fail"}
    OBVIOUS
  <2> QED BY <1>1, <1>2, <2>1, <2>5, <2>6, <2>7, <2>8, GotoData
<1>3. CASE Return(c, "error") /\ UNCHANGED runs
  BY <1>1, <1>3, ReturnData, SameRowsSound DEF IInv, TypeOK, DInv
<1>4. ASSUME Return(c, "error"), NEW id \in RunIds, runs[id] = None,
             runs' = [runs EXCEPT ![id] = NewRunRow(c)]
      PROVE  DInv'
  BY <1>1, <1>4, ReturnData, NewRunSound DEF DInv
<1> QED BY <1>2, <1>3, <1>4 DEF CreateSyncRun

LEMMA UpsertReserveData ==
  ASSUME IInv, DInv, NEW c \in Callers, NEW m \in Markets, UpsertReserve(c, m)
  PROVE  DInv'
<1>1. /\ pc[c] = "apply" /\ InSync(c) /\ lock = c
      /\ UNCHANGED <<mode, clock, proc, lock, pc, loaded, run, answer, reserves,
                     snapshots, runs>>
  BY DEF UpsertReserve, InSync, procVars, tables, IInv, Audited, MutualExclusion
<1>2. RowsSound'
  BY <1>1, SameRowsSound DEF IInv, TypeOK, DInv
<1>3. UpsertsTrue(c)'
  <2>1. ASSUME NEW k \in Markets
        PROVE  upserts'[c][k] =
                 IF k = m THEN (IF reserves[m] = None THEN <<m, run[c]>>
                                                      ELSE reserves[m].rid)
                          ELSE upserts[c][k]
    BY DEF UpsertReserve, IInv, TypeOK
  <2> QED BY <1>1, <2>1 DEF UpsertsTrue, DInv, AllWorked, Worked
<1>4. NoRunYet(c)' /\ RunUncounted(c)' /\ Committed(c)' /\ Newer(c)' /\ Unanswered(c)'
  BY <1>1 DEF DInv, AllWorked, Worked, NoRunYet, RunUncounted, Committed, Newer,
              InSync, IsDemo, Unanswered
<1>5. MutualExclusion' /\ lock' = c
  BY <1>1 DEF IInv, Audited, MutualExclusion, InSync
<1> QED BY <1>1, <1>2, <1>3, <1>4, <1>5, HolderWorked DEF Worked, DInv, DownIsQuiet

LEMMA CommitDatasetData ==
  ASSUME IInv, DInv, NEW c \in Callers, CommitDataset(c)
  PROVE  DInv'
<1>1. /\ pc[c] = "apply" /\ InSync(c) /\ UNCHANGED <<run, runs>>
  BY DEF CommitDataset, InSync
<1>2. PICK label \in {"finish", "fail"} : Goto(c, label)
  BY DEF CommitDataset
<1>3. pc'[c] = label
  BY <1>2 DEF Goto, IInv, TypeOK
<1>4. RunUncounted(c)
  BY DEF DInv, AllWorked, Worked
<1>5. NoRunYet(c)' /\ RunUncounted(c)' /\ UpsertsTrue(c)' /\ Committed(c)'
  BY <1>1, <1>3, <1>4, CommitSound DEF NoRunYet, RunUncounted, UpsertsTrue, Committed
<1> QED BY <1>1, <1>2, <1>5, CommitSound, GotoData

LEMMA RollBackData ==
  ASSUME IInv, DInv, NEW c \in Callers, RollBack(c)
  PROVE  DInv'
<1>1. /\ pc[c] = "apply" /\ InSync(c) /\ Goto(c, "fail") /\ pc'[c] = "fail"
      /\ UNCHANGED <<mode, clock, loaded, run, reserves, snapshots, runs>>
  BY DEF RollBack, InSync, tables, Goto, IInv, TypeOK
<1>2. RowsSound'
  BY <1>1, SameRowsSound DEF IInv, TypeOK, DInv
<1>3. WroteNone(c)'
  BY <1>1 DEF IInv, Audited, RowsAccounted, Unpublished, WroteNone, WrittenBy
<1>4. (NoRunYet(c) /\ RunUncounted(c) /\ UpsertsTrue(c) /\ Committed(c) /\ Newer(c))'
  BY <1>1, <1>3 DEF NoRunYet, RunUncounted, UpsertsTrue, Committed, Newer, InSync,
                    IsDemo, DInv, AllWorked, Worked
<1> QED BY <1>1, <1>2, <1>4, GotoData

LEMMA CloseRunData ==
  ASSUME IInv, DInv, NEW c \in Callers, FinishRun(c) \/ FinishFailedRun(c)
  PROVE  DInv'
<1>1. /\ pc[c] \in {"finish", "fail"} /\ InSync(c)
      /\ UNCHANGED <<clock, reserves, snapshots>>
  BY DEF FinishRun, FinishFailedRun, InSync
<1>2. /\ WroteAll(c) \/ WroteNone(c)
      /\ run[c] \in RunIds /\ runs[run[c]] # None
  BY <1>1 DEF DInv, AllWorked, Worked, Committed, IInv, Audited, RunsRecorded,
              RunRecorded
<1>3. RowsSound'
  <2>1. CASE UNCHANGED runs
    BY <1>1, <2>1, SameRowsSound DEF IInv, TypeOK, DInv
  <2>2. CASE UpdateRun(c, "succeeded", ReadBy(c)) \/ UpdateRun(c, "failed", {})
    BY <1>1, <1>2, <2>2, UpdateRunSound DEF DInv
  <2> QED BY <2>1, <2>2 DEF FinishRun, FinishFailedRun
<1>4. PICK result \in Answers : Return(c, result)
  BY DEF FinishRun, FinishFailedRun, Answers
<1> QED BY <1>1, <1>3, <1>4, ReturnData

LEMMA StepData ==
  ASSUME IInv, DInv, [Next]_vars
  PROVE  DInv'
<1>1. CASE BootStep \/ Crash \/ Stop
  BY <1>1, ProcessStepData
<1>2. ASSUME NEW r \in Requests, Request(r) \/ Conflict(r) \/ Cancel(r)
      PROVE  DInv'
  BY <1>2, ClientStepData
<1>3. ASSUME NEW c \in Callers, SyncStep(c)
      PROVE  DInv'
  BY <1>3, LoadData, EnsureProtocolData, CreateSyncRunData, UpsertReserveData,
     CommitDatasetData, RollBackData, CloseRunData DEF SyncStep
<1>4. CASE UNCHANGED vars
  BY <1>4, NothingWorked DEF vars, procVars, localVars, tables, DInv, DownIsQuiet
<1> QED BY <1>1, <1>2, <1>3, <1>4 DEF Next

(* What the holder of syncLock has read and written at each step of Sync,  *)
(* and that no visible row of The Graph is newer than it.                  *)
THEOREM DataInvariance == Spec => []DInv
<1>1. Init => DInv
  BY InitData
<1>2. IInv /\ DInv /\ [Next]_vars => DInv'
  BY StepData
<1> QED BY <1>1, <1>2, Invariance, PTL DEF Spec


-----------------------------------------------------------------------------
(* What no step may do.                                                    *)

LEMMA OnlyCommitsWriteRows ==
  ASSUME [Next]_vars, reserves' # reserves
  PROVE  \E c \in Callers : CommitDataset(c)
<1>1. ASSUME NEW c \in Callers, SyncStep(c), ~CommitDataset(c)
      PROVE  UNCHANGED reserves
  BY <1>1 DEF SyncStep, Load, EnsureProtocol, CreateSyncRun, UpsertReserve,
              RollBack, FinishRun, FinishFailedRun, tables
<1>2. CASE BootStep \/ Crash \/ Stop
  BY <1>2 DEF BootStep, Start, BootSkipsSync, BootSyncs, TryLock, Acquire,
              BootOverviewFails, Crash, Stop, tables
<1>3. ASSUME NEW r \in Requests, Request(r) \/ Conflict(r) \/ Cancel(r)
      PROVE  UNCHANGED reserves
  BY <1>3 DEF Request, TryLock, Acquire, Conflict, Cancel, tables
<1> QED BY <1>1, <1>2, <1>3 DEF Next, vars, tables

(* A row, once there, stays, and keeps its id.                             *)
LEMMA RowsStay ==
  ASSUME IInv, DInv, [Next]_vars, NEW m \in Markets, reserves[m] # None
  PROVE  reserves'[m] # None /\ reserves'[m].rid = reserves[m].rid
BY OnlyCommitsWriteRows, CommitRows

(* An older observation of The Graph never replaces a newer one.           *)
THEOREM NewerDataOnly == Spec => NeverOlderData
<1>1. ASSUME IInv, DInv, [Next]_vars, NEW m \in Markets,
             FromGraph(reserves[m]), FromGraph(reserves'[m])
      PROVE  reserves'[m].at >= reserves[m].at
  <2>1. reserves[m].at \in Nat
    BY <1>1 DEF IInv, TypeOK, ReserveRows, FromGraph
  <2>2. CASE reserves' = reserves
    BY <2>1, <2>2
  <2>3. ASSUME NEW c \in Callers, CommitDataset(c)
        PROVE  reserves'[m].at >= reserves[m].at
    <3>1. CASE m \notin ReadBy(c)
      BY <1>1, <2>1, <2>3, <3>1, CommitRows
    <3>2. CASE m \in ReadBy(c)
      <4>1. /\ reserves'[m].at = loaded[c].at /\ ~IsDemo(c)
        BY <1>1, <2>3, <3>2, CommitRows DEF FromGraph
      <4>2. Newer(c) /\ InSync(c) /\ loaded[c] # None
        BY <1>1, <2>3 DEF DInv, AllWorked, Worked, CommitDataset, InSync, IInv, Audited,
                    RunsRecorded, RunRecorded
      <4>3. loaded[c].at \in Nat
        BY <1>1, <4>2 DEF IInv, TypeOK, Datasets
      <4> QED BY <1>1, <2>1, <4>1, <4>2, <4>3 DEF Newer
    <3> QED BY <3>1, <3>2
  <2> QED BY <1>1, <2>2, <2>3, OnlyCommitsWriteRows
<1>2. IInv /\ DInv /\ [Next]_vars =>
        [\A m \in Markets :
           FromGraph(reserves[m]) /\ FromGraph(reserves'[m])
             => reserves'[m].at >= reserves[m].at]_vars
  BY <1>1
<1> QED BY <1>2, Invariance, DataInvariance, PTL DEF Spec, NeverOlderData

(* A process built on The Graph writes no demo row.                        *)
THEOREM NoDemoWithoutMode == Spec => NoSilentDemo
<1>1. ASSUME IInv, DInv, [Next]_vars, mode = "graph", NEW m \in Markets,
             IsDemoRow(reserves'[m])
      PROVE  IsDemoRow(reserves[m])
  <2>1. ASSUME NEW c \in Callers, CommitDataset(c)
        PROVE  m \notin ReadBy(c)
    <3>1. Newer(c) /\ InSync(c)
      BY <1>1, <2>1 DEF DInv, AllWorked, Worked, CommitDataset, InSync
    <3>2. ~IsDemo(c)
      BY <1>1, <3>1 DEF Newer, IsDemo
    <3> QED BY <1>1, <2>1, <3>2, CommitRows DEF IsDemoRow
  <2> QED BY <1>1, <2>1, CommitRows, OnlyCommitsWriteRows DEF IsDemoRow
<1>2. IInv /\ DInv /\ [Next]_vars =>
        [mode = "graph" => \A m \in Markets :
           IsDemoRow(reserves'[m]) => IsDemoRow(reserves[m])]_vars
  BY <1>1
<1> QED BY <1>2, Invariance, DataInvariance, PTL DEF Spec, NoSilentDemo

(* Every snapshot belongs to a reserve row.                                *)
THEOREM SnapshotsAreOwned == Spec => []SnapshotsHaveReserves
<1>1. DInv => SnapshotsHaveReserves
  BY DEF DInv, RowsSound
<1> QED BY <1>1, DataInvariance, PTL

(* The data that Overview adds up is of one observation, except for the    *)
(* markets that observation did not report.                                *)
THEOREM OldRowsWereNotRead == Spec => []OldRowsUnread
<1>1. DInv => OldRowsUnread
  BY DEF DInv, RowsSound, OlderUnread, OldRowsUnread, Newest, Overview, ListAllReserves
<1> QED BY <1>1, DataInvariance, PTL

-----------------------------------------------------------------------------
(* The ledger's rows: a step changes the row of a run only while it runs,  *)
(* and only as its caller; and a run enters the table as running.          *)
Closed(id) == runs[id] # None /\ runs[id].status # "running"

ClosedKept == \A id \in RunIds : Closed(id) => runs'[id] = runs[id]

LEMMA ClosedRunsStay ==
  ASSUME IInv, [Next]_vars
  PROVE  ClosedKept
<1>1. CASE UNCHANGED runs
  BY <1>1 DEF ClosedKept
<1>2. ASSUME NEW c \in Callers, CreateSyncRun(c)
      PROVE  ClosedKept
  BY <1>2 DEF CreateSyncRun, ClosedKept, Closed, IInv, TypeOK
<1>3. ASSUME NEW c \in Callers, FinishRun(c) \/ FinishFailedRun(c)
      PROVE  ClosedKept
  <2>1. runs[run[c]].status = "running"
    BY <1>3 DEF FinishRun, FinishFailedRun, IInv, Audited, RunsRecorded, RunRecorded
  <2> QED BY <1>3, <2>1 DEF FinishRun, FinishFailedRun, UpdateRun, ClosedKept,
                            Closed, IInv, TypeOK
<1>4. CASE BootStep \/ Crash \/ Stop
  BY <1>1, <1>4 DEF BootStep, Start, BootSkipsSync, BootSyncs, TryLock, Acquire,
              BootOverviewFails, Crash, Stop, tables
<1>5. ASSUME NEW r \in Requests, Request(r) \/ Conflict(r) \/ Cancel(r)
      PROVE  UNCHANGED runs
  BY <1>5 DEF Request, TryLock, Acquire, Conflict, Cancel, tables
<1>6. ASSUME NEW c \in Callers, SyncStep(c)
      PROVE  ClosedKept
  BY <1>1, <1>2, <1>3, <1>6 DEF SyncStep, Load, EnsureProtocol, UpsertReserve,
              CommitDataset, RollBack, tables
<1> QED BY <1>1, <1>4, <1>5, <1>6 DEF Next, vars, tables

(* An update that closes the run of c is what the record then says.        *)
LEMMA UpdatedRun ==
  ASSUME IInv, NEW c \in Callers, pc[c] \in {"finish", "fail"},
         NEW st \in {"succeeded", "failed"}, NEW wr \in SUBSET Markets,
         UpdateRun(c, st, wr)
  PROVE  /\ runs'[run[c]] # None /\ runs'[run[c]].status = st
         /\ runs'[run[c]].read = ReadBy(c) /\ runs'[run[c]].written = wr
<1>1. run[c] \in RunIds /\ runs[run[c]] \in RunRows
  BY DEF IInv, TypeOK, Audited, RunsRecorded, RunRecorded
<1>2. runs'[run[c]] = [runs[run[c]] EXCEPT !.status = st, !.read = ReadBy(c), !.written = wr]
  BY <1>1 DEF UpdateRun, IInv, TypeOK
<1>3. runs'[run[c]] \in RunRows
  BY <1>1, <1>2, ReadByType DEF RunRows, IInv
<1>4. /\ runs'[run[c]].status = st /\ runs'[run[c]].read = ReadBy(c)
      /\ runs'[run[c]].written = wr
  BY <1>1, <1>2 DEF RunRows
<1> QED BY <1>3, <1>4, NoneAssumption
-----------------------------------------------------------------------------
(* What callers are told.  AnswersMatchRuns, and the run is on record.     *)
AnswerTrue(r) ==
  /\ answer[r] = "ok" =>
       /\ run[r] # None /\ runs[run[r]].status = "succeeded"
       /\ runs[run[r]].read = runs[run[r]].written
  /\ answer[r] = "failed" => run[r] # None /\ runs[run[r]].status = "failed"
  /\ answer[r] = "conflict" => run[r] = None
  /\ answer[r] \in {"ok", "failed"} => runs[run[r]] # None

AnswersTrue == \A r \in Callers : AnswerTrue(r)

(* A new answer is a refusal, or comes with the update that makes it true. *)
NewAnswer(r) ==
  \/ answer'[r] \in {"none", "error"}
  \/ answer'[r] = "conflict" /\ run'[r] = None
  \/ /\ pc[r] = "finish" /\ UpdateRun(r, "succeeded", ReadBy(r))
     /\ answer'[r] = "ok" /\ run'[r] = run[r]
  \/ /\ pc[r] = "fail" /\ UpdateRun(r, "failed", {})
     /\ answer'[r] = "failed" /\ run'[r] = run[r]

SameAnswer(r) == answer'[r] = answer[r] /\ run'[r] = run[r]

LEMMA ReturnAnswers ==
  ASSUME TypeOK, NEW c \in Callers, NEW result, Return(c, result), NEW r \in Callers
  PROVE  SameAnswer(r) \/ answer'[r] = "none"
           \/ (r = c /\ answer'[r] = result /\ run'[r] = run[r])
BY DEF Return, ProcessEnds, SameAnswer, TypeOK

LEMMA StepAnswers ==
  ASSUME IInv, DInv, [Next]_vars, NEW r \in Callers
  PROVE  SameAnswer(r) \/ NewAnswer(r)
<1>1. CASE UNCHANGED <<answer, run>>
  BY <1>1 DEF SameAnswer
<1>2. CASE BootStep \/ Crash \/ Stop
  BY <1>1, <1>2 DEF BootStep, Start, BootSkipsSync, BootSyncs, TryLock, Acquire,
     BootOverviewFails, Crash, Stop, ProcessEnds, localVars, IInv, TypeOK,
     NewAnswer, SameAnswer
<1>3. ASSUME NEW q \in Requests, Request(q) \/ Conflict(q) \/ Cancel(q)
      PROVE  SameAnswer(r) \/ NewAnswer(r)
  BY <1>1, <1>3 DEF Request, TryLock, Acquire, Conflict, Cancel, IInv, TypeOK,
     NewAnswer, SameAnswer
<1>4. ASSUME NEW c \in Callers, Load(c) \/ CommitDataset(c) \/ RollBack(c)
                                  \/ \E m \in Markets : UpsertReserve(c, m)
      PROVE  SameAnswer(r)
  BY <1>4 DEF Load, UpsertReserve, CommitDataset, RollBack, Goto, SameAnswer
<1>5. ASSUME NEW c \in Callers, EnsureProtocol(c)
      PROVE  SameAnswer(r) \/ NewAnswer(r)
  BY <1>5, ReturnAnswers DEF EnsureProtocol, Goto, IInv, NewAnswer, SameAnswer
<1>6. ASSUME NEW c \in Callers, CreateSyncRun(c)
      PROVE  SameAnswer(r) \/ NewAnswer(r)
  <2>1. answer[c] = "none"
    BY <1>6 DEF CreateSyncRun, InSync, DInv, AllWorked, Worked, Unanswered
  <2>2. CASE Return(c, "error")
    BY <2>2, ReturnAnswers DEF IInv, NewAnswer
  <2>3. ASSUME NEW id \in RunIds, run' = [run EXCEPT ![c] = id], UNCHANGED answer
        PROVE  SameAnswer(r) \/ NewAnswer(r)
    BY <2>1, <2>3 DEF IInv, TypeOK, NewAnswer, SameAnswer
  <2> QED BY <1>6, <2>2, <2>3 DEF CreateSyncRun, Goto
<1>7. ASSUME NEW c \in Callers, FinishRun(c) \/ FinishFailedRun(c)
      PROVE  SameAnswer(r) \/ NewAnswer(r)
  BY <1>7, ReturnAnswers DEF FinishRun, FinishFailedRun, IInv, NewAnswer
<1> QED BY <1>1, <1>2, <1>3, <1>4, <1>5, <1>6, <1>7
        DEF Next, SyncStep, vars, localVars

(* A caller is told the truth, and it stays true.                          *)
THEOREM AnswersAreTrue == Spec => []AnswersMatchRuns
<1>1. Init => AnswersTrue
  BY DEF Init, AnswersTrue, AnswerTrue
<1>2. ASSUME IInv, DInv, AnswersTrue, [Next]_vars
      PROVE  AnswersTrue'
  <2> SUFFICES ASSUME NEW r \in Callers
               PROVE  AnswerTrue(r)'
    BY DEF AnswersTrue
  <2>1. CASE SameAnswer(r)
    <3>1. AnswerTrue(r) /\ ClosedKept /\ run[r] \in RunIds \cup {None}
      BY <1>2, ClosedRunsStay DEF AnswersTrue, IInv, TypeOK
    <3>2. answer[r] \in {"ok", "failed"} => runs'[run[r]] = runs[run[r]]
      BY <3>1 DEF AnswerTrue, ClosedKept, Closed
    <3> QED BY <2>1, <3>1, <3>2 DEF SameAnswer, AnswerTrue
  <2>2. CASE NewAnswer(r)
    <3>1. pc[r] \in {"finish", "fail"} => run[r] \in RunIds /\ run[r] # None
      BY <1>2, SyncAssumption DEF IInv, Audited, RunsRecorded, RunRecorded
    <3> QED BY <1>2, <2>2, <3>1, UpdatedRun, ReadByType
            DEF NewAnswer, AnswerTrue, IInv
  <2> QED BY <1>2, <2>1, <2>2, StepAnswers
<1>3. AnswersTrue => AnswersMatchRuns
  BY DEF AnswersTrue, AnswerTrue, AnswersMatchRuns
<1> QED BY <1>1, <1>2, <1>3, Invariance, DataInvariance, PTL DEF Spec

-----------------------------------------------------------------------------
(* The process comes up with data, or after a run that found none.         *)
LEMMA ComesUp ==
  ASSUME IInv, [Next]_vars, proc # "up", proc' = "up"
  PROVE  \/ UNCHANGED reserves /\ (~AutoSync \/ ~NoReserves)
         \/ FinishRun(Boot) /\ UpdateRun(Boot, "succeeded", ReadBy(Boot))
<1>1. ASSUME NEW c \in Callers, NEW result, Return(c, result)
      PROVE  c = Boot /\ result = "ok"
  BY <1>1 DEF Return, ProcessEnds
<1>2. CASE BootStep \/ Crash \/ Stop
  BY <1>2 DEF BootStep, Start, BootSkipsSync, BootSyncs, TryLock, Acquire,
     BootOverviewFails, Crash, Stop, ProcessEnds, procVars, tables
<1>3. ASSUME NEW q \in Requests, Request(q) \/ Conflict(q) \/ Cancel(q)
      PROVE  UNCHANGED proc
  BY <1>3 DEF Request, TryLock, Acquire, Conflict, Cancel, procVars
<1>4. ASSUME NEW c \in Callers, SyncStep(c), ~FinishRun(c)
      PROVE  FALSE
  BY <1>1, <1>4 DEF SyncStep, Load, EnsureProtocol, CreateSyncRun, UpsertReserve,
     CommitDataset, RollBack, FinishFailedRun, Goto, procVars
<1>5. ASSUME NEW c \in Callers, FinishRun(c)
      PROVE  c = Boot /\ UpdateRun(Boot, "succeeded", ReadBy(Boot))
  BY <1>1, <1>5 DEF FinishRun
<1> QED BY <1>2, <1>3, <1>4, <1>5 DEF Next, vars, procVars

(* A server that synchronizes at start never serves an empty dashboard,    *)
(* unless a run succeeded on a source that reports no reserve.             *)
THEOREM BootFills == Spec => []BootFillsDashboard
<1> DEFINE Empty(id) == /\ runs[id] # None /\ runs[id].status = "succeeded"
                        /\ runs[id].read = {}
<1>1. NoReserves <=> \A m \in Markets : reserves[m] = None
  BY DEF NoReserves, Overview, ListAllReserves
<1>2. (NoReserves <=> \A m \in Markets : reserves[m] = None)'
  BY DEF NoReserves, Overview, ListAllReserves
<1>3. Init => BootFillsDashboard
  BY DEF Init, BootFillsDashboard
<1>4. ASSUME IInv, DInv, BootFillsDashboard, [Next]_vars,
             AutoSync, proc' = "up", NoReserves'
      PROVE  \E id \in RunIds : Empty(id)'
  <2>1. NoReserves
    BY <1>1, <1>2, <1>4, RowsStay
  <2>2. CASE proc = "up"
    <3>1. PICK id \in RunIds : Empty(id)
      BY <1>4, <2>1, <2>2 DEF BootFillsDashboard
    <3>2. runs'[id] = runs[id]
      BY <1>4, <3>1, ClosedRunsStay DEF ClosedKept, Closed
    <3> QED BY <3>1, <3>2
  <2>3. CASE FinishRun(Boot) /\ UpdateRun(Boot, "succeeded", ReadBy(Boot))
    <3>1. Boot \in Callers /\ pc[Boot] = "finish"
      BY <2>3 DEF Callers, FinishRun
    <3>2. run[Boot] \in RunIds /\ WroteAll(Boot)
      BY <1>4, <3>1 DEF IInv, Audited, RunsRecorded, RunRecorded, DInv, AllWorked,
                        Worked, Committed
    <3>3. ReadBy(Boot) = {}
      BY <1>1, <1>4, <2>1, <3>1, <3>2, ReadByType DEF WroteAll, WrittenBy, IInv
    <3>4. ASSUME NEW id, id = run[Boot]
          PROVE  Empty(id)'
      BY <1>4, <2>3, <3>1, <3>3, <3>4, UpdatedRun
    <3> QED BY <3>2, <3>4
  <2> QED BY <1>4, <2>1, <2>2, <2>3, ComesUp
<1>5. IInv /\ DInv /\ BootFillsDashboard /\ [Next]_vars => BootFillsDashboard'
  BY <1>4 DEF BootFillsDashboard
<1> QED BY <1>3, <1>5, Invariance, DataInvariance, PTL DEF Spec


-----------------------------------------------------------------------------
(* Stranded runs.  A context that was cancelled has counted its fault      *)
(* already, and has the run of its caller still to strand.                 *)
Owed == IF lock # None /\ cancelled[lock] THEN 1 ELSE 0

StrandsCounted ==
  IsFiniteSet(StrandedRuns) /\ Cardinality(StrandedRuns) + Owed <= faults

Running(id) == id \in RunIds /\ runs[id] # None /\ runs[id].status = "running"

(* Arithmetic of the counts.                                               *)
LEMMA CountKept ==
  ASSUME NEW old \in Nat, NEW new \in Nat, NEW owed \in Nat, NEW owes \in Nat,
         NEW f \in Nat, NEW g \in Nat,
         old + owed <= f, new <= old, owes + f <= owed + g
  PROVE  new + owes <= g
OBVIOUS

LEMMA CountGrown ==
  ASSUME NEW old \in Nat, NEW new \in Nat, NEW owed \in Nat, NEW owes \in Nat,
         NEW f \in Nat, NEW g \in Nat,
         old + owed <= f, new <= old + 1, owes + f + 1 <= owed + g
  PROVE  new + owes <= g
OBVIOUS

(* The count, when a step strands nothing, and when it strands one run.    *)
LEMMA NoneStranded ==
  ASSUME TypeOK, TypeOK', StrandsCounted, StrandedRuns' \subseteq StrandedRuns,
         Owed' + faults <= Owed + faults'
  PROVE  StrandsCounted'
<1> DEFINE old == Cardinality(StrandedRuns)
           new == Cardinality(StrandedRuns')
<1>1. IsFiniteSet(StrandedRuns) /\ old + Owed <= faults
  BY DEF StrandsCounted
<1>2. IsFiniteSet(StrandedRuns') /\ new <= old
  BY <1>1, FS_Subset
<1>3. new \in Nat /\ old \in Nat
  BY <1>1, <1>2, FS_CardinalityType
<1>4. faults \in Nat /\ faults' \in Nat /\ Owed \in Nat /\ Owed' \in Nat
  BY SyncAssumption DEF TypeOK, Owed
<1>5. new + Owed' <= faults'
  <2> HIDE DEF old, new
  <2> QED BY <1>1, <1>2, <1>3, <1>4, CountKept
<1> QED BY <1>2, <1>5 DEF StrandsCounted

LEMMA OneStranded ==
  ASSUME TypeOK, TypeOK', StrandsCounted, NEW id,
         StrandedRuns' \subseteq StrandedRuns \cup {id},
         Owed' + faults + 1 <= Owed + faults'
  PROVE  StrandsCounted'
<1> DEFINE S == StrandedRuns \cup {id}
           old == Cardinality(StrandedRuns)
           new == Cardinality(StrandedRuns')
<1>1. IsFiniteSet(StrandedRuns) /\ old + Owed <= faults
  BY DEF StrandsCounted
<1>2. old \in Nat
  BY <1>1, FS_CardinalityType
<1>3. IsFiniteSet(S) /\ Cardinality(S) <= old + 1 /\ Cardinality(S) \in Nat
  BY <1>1, <1>2, FS_AddElement
<1>4. IsFiniteSet(StrandedRuns') /\ new <= Cardinality(S)
  BY <1>3, FS_Subset
<1>5. new \in Nat
  BY <1>4, FS_CardinalityType
<1>6. faults \in Nat /\ faults' \in Nat /\ Owed \in Nat /\ Owed' \in Nat
  BY SyncAssumption DEF TypeOK, Owed
<1>7. new + Owed' <= faults'
  <2>1. new <= old + 1
    BY <1>2, <1>3, <1>4, <1>5
  <2> HIDE DEF S, old, new
  <2> QED BY <1>1, <1>2, <1>5, <1>6, <2>1, CountGrown
<1> QED BY <1>4, <1>7 DEF StrandsCounted

(* Whoever is at work keeps its run, and no row starts to run: nothing is  *)
(* stranded.                                                               *)
LEMMA StayersStrandNothing ==
  ASSUME \A id \in RunIds : Running(id)' => Running(id),
         \A d \in Callers : InSync(d) => InSync(d)' /\ run'[d] = run[d]
  PROVE  StrandedRuns' \subseteq StrandedRuns
BY DEF StrandedRuns, Running

(* The holder leaves: its own run at most, and none that it closed.        *)
LEMMA LeaverStrands ==
  ASSUME IInv, NEW c \in Callers, InSync(c),
         \A id \in RunIds : Running(id)' => Running(id)
  PROVE  /\ StrandedRuns' \subseteq StrandedRuns \cup {run[c]}
         /\ (\A id \in RunIds : id = run[c] => ~Running(id)')
              => StrandedRuns' \subseteq StrandedRuns
<1>1. \A d \in Callers : InSync(d) => d = c
  BY DEF IInv, Audited, MutualExclusion
<1> QED BY <1>1 DEF StrandedRuns, Running

(* Nobody leaves: nobody was there.                                        *)
LEMMA QuietStrandsNothing ==
  ASSUME \A d \in Callers : ~InSync(d),
         \A id \in RunIds : Running(id)' => Running(id)
  PROVE  StrandedRuns' \subseteq StrandedRuns
BY DEF StrandedRuns, Running

(* What a fault costs.                                                     *)
LEMMA FaultsCounted ==
  ASSUME TypeOK, NEW c
  PROVE  /\ NewFault \/ AckLost(c) => faults' = faults + 1
         /\ Accepted(c) => faults' = faults /\ ~cancelled[c]
         /\ Refused(c) => faults' = faults + 1 \/ (faults' = faults /\ cancelled[c])
         /\ faults \in Nat
BY SyncAssumption DEF TypeOK, NewFault, AckLost, Accepted, Refused

LEMMA OwedByHolder ==
  ASSUME IInv, NEW c \in Callers, InSync(c)
  PROVE  Owed = IF cancelled[c] THEN 1 ELSE 0
BY SyncAssumption DEF IInv, Audited, MutualExclusion, Owed

(* The holder goes on.                                                     *)
LEMMA GotoStrands ==
  ASSUME IInv, TypeOK', StrandsCounted, NEW c \in Callers, InSync(c), NEW label,
         Goto(c, label), InSync(c)', faults' >= faults, run'[c] = run[c],
         \A id \in RunIds : Running(id)' => Running(id)
  PROVE  StrandsCounted'
<1>1. UNCHANGED <<lock, cancelled>>
  BY DEF Goto
<1>2. Owed' = Owed
  BY <1>1 DEF Owed
<1>3. \A d \in Callers : InSync(d) => InSync(d)' /\ run'[d] = run[d]
  BY DEF IInv, Audited, MutualExclusion
<1>4. faults \in Nat /\ faults' \in Nat /\ Owed \in Nat
  BY SyncAssumption DEF IInv, TypeOK, Owed
<1>5. Owed' + faults <= Owed + faults'
  <2>1. \A o, f, g \in Nat : f <= g => o + f <= o + g
    OBVIOUS
  <2>2. Owed + faults <= Owed + faults'
    BY <1>4, <2>1
  <2> QED BY <1>2, <2>2
<1>6. StrandedRuns' \subseteq StrandedRuns
  BY <1>3, StayersStrandNothing
<1> QED BY <1>5, <1>6, NoneStranded DEF IInv

(* The holder returns with an error that a fault explains.                 *)
LEMMA ReturnStrands ==
  ASSUME IInv, TypeOK', StrandsCounted, NEW c \in Callers, InSync(c),
         NEW result, Return(c, result), Refused(c) \/ AckLost(c),
         \A id \in RunIds : Running(id)' => Running(id)
  PROVE  StrandsCounted'
<1>1. StrandedRuns' \subseteq StrandedRuns \cup {run[c]}
  BY LeaverStrands
<1>2. Owed' = 0
  <2>1. Quiet'
    BY ReturnIsQuiet DEF IInv, Audited
  <2> QED BY <2>1 DEF Quiet, Owed
<1>3. Owed = IF cancelled[c] THEN 1 ELSE 0
  BY OwedByHolder
<1>4. Owed' + faults + 1 <= Owed + faults'
  BY <1>2, <1>3, FaultsCounted DEF IInv
<1> QED BY <1>1, <1>4, OneStranded DEF IInv

LEMMA AcquireStrands ==
  ASSUME IInv, TypeOK', StrandsCounted, NEW c \in Callers, TryLock(c)
  PROVE  StrandsCounted'
<1>1. /\ lock = None /\ lock' = c /\ UNCHANGED <<faults, runs>> /\ ~cancelled'[c]
  BY DEF TryLock, Acquire, tables, IInv, TypeOK
<1>2. \A d \in Callers : ~InSync(d)
  BY <1>1, SyncAssumption DEF IInv, Audited, MutualExclusion
<1>3. Owed = 0 /\ Owed' = 0 /\ faults \in Nat
  BY <1>1, SyncAssumption DEF Owed, IInv, TypeOK
<1>4. StrandedRuns' \subseteq StrandedRuns
  BY <1>1, <1>2, QuietStrandsNothing DEF Running
<1> QED BY <1>1, <1>3, <1>4, NoneStranded DEF IInv

LEMMA ProcessStepStrands ==
  ASSUME IInv, TypeOK', StrandsCounted, BootStep \/ Crash \/ Stop
  PROVE  StrandsCounted'
<1>1. CASE Start \/ BootSkipsSync
  <2>1. UNCHANGED <<lock, faults, cancelled, run, pc, runs>>
    BY <1>1 DEF Start, BootSkipsSync, localVars, tables
  <2>2. Owed' = Owed /\ Owed \in Nat /\ faults \in Nat
    BY <2>1, SyncAssumption DEF Owed, IInv, TypeOK
  <2> QED BY <2>1, <2>2, StayersStrandNothing, NoneStranded
          DEF InSync, Running, IInv
<1>2. CASE BootSyncs
  BY <1>2, AcquireStrands DEF BootSyncs, Callers
<1>3. CASE BootOverviewFails \/ Crash \/ Stop
  <2>1. /\ ProcessEnds /\ UNCHANGED runs /\ Owed' = 0 /\ Owed \in Nat /\ faults \in Nat
        /\ faults' = faults + 1 \/ (faults' = faults /\ lock = None)
    BY <1>3, SyncAssumption
       DEF BootOverviewFails, Crash, Stop, ProcessEnds, tables, NewFault, Owed, IInv,
           TypeOK
  <2>2. CASE lock = None
    <3>1. \A d \in Callers : ~InSync(d)
      BY <2>2, SyncAssumption DEF IInv, Audited, MutualExclusion
    <3>2. StrandedRuns' \subseteq StrandedRuns
      BY <2>1, <3>1, QuietStrandsNothing DEF Running
    <3> QED BY <2>1, <3>2, NoneStranded DEF IInv
  <2>3. CASE lock # None
    <3>1. lock \in Callers /\ InSync(lock)
      BY <2>3 DEF IInv, TypeOK, Audited, MutualExclusion
    <3>2. StrandedRuns' \subseteq StrandedRuns \cup {run[lock]}
      BY <2>1, <3>1, LeaverStrands DEF Running
    <3> QED BY <2>1, <2>3, <3>2, OneStranded DEF IInv
  <2> QED BY <2>2, <2>3
<1> QED BY <1>1, <1>2, <1>3 DEF BootStep

LEMMA ClientStepStrands ==
  ASSUME IInv, TypeOK', StrandsCounted, NEW r \in Requests,
         Request(r) \/ Conflict(r) \/ Cancel(r)
  PROVE  StrandsCounted'
<1>0. r \in Callers /\ faults \in Nat /\ Owed \in Nat
  BY SyncAssumption DEF Callers, IInv, TypeOK, Owed
<1>1. CASE Request(r)
  BY <1>0, <1>1, AcquireStrands DEF Request
<1>2. CASE Conflict(r)
  <2>1. UNCHANGED <<lock, faults, cancelled, runs>>
    BY <1>2 DEF Conflict, tables
  <2>2. Owed' = Owed
    BY <2>1 DEF Owed
  <2>3. \A d \in Callers : InSync(d) => InSync(d)' /\ run'[d] = run[d]
    BY <1>2 DEF Conflict, InSync, IInv, TypeOK
  <2> QED BY <1>0, <2>1, <2>2, <2>3, StayersStrandNothing, NoneStranded
          DEF Running, IInv
<1>3. CASE Cancel(r)
  <2>1. UNCHANGED <<lock, pc, run, runs>> /\ faults' = faults + 1
    BY <1>3 DEF Cancel, NewFault, tables
  <2>2. (Owed' = 0 \/ Owed' = 1) /\ lock = r /\ Owed = 0
    BY <1>0, <1>3 DEF Cancel, Owed, IInv, Audited, MutualExclusion
  <2>3. Owed' + faults <= Owed + faults'
    BY <1>0, <2>1, <2>2
  <2> QED BY <2>1, <2>3, StayersStrandNothing, NoneStranded
          DEF Running, IInv, InSync
<1> QED BY <1>1, <1>2, <1>3

LEMMA CreateSyncRunStrands ==
  ASSUME IInv, DInv, TypeOK', StrandsCounted, NEW c \in Callers, CreateSyncRun(c)
  PROVE  StrandsCounted'
<1>1. InSync(c) /\ run[c] = None /\ \A d \in Callers : InSync(d) => d = c
  BY DEF CreateSyncRun, InSync, DInv, AllWorked, Worked, NoRunYet, IInv, Audited,
         MutualExclusion
<1>2. ASSUME NEW id \in RunIds, runs[id] = None,
             runs' = [runs EXCEPT ![id] = NewRunRow(c)]
      PROVE  \A k \in RunIds : k # id => (Running(k)' <=> Running(k))
  BY <1>2 DEF Running, IInv, TypeOK
<1>3. ASSUME NEW id \in RunIds, runs[id] = None, Accepted(c),
             runs' = [runs EXCEPT ![id] = NewRunRow(c)],
             run' = [run EXCEPT ![c] = id],
             Goto(c, IF loaded[c] = None THEN "fail" ELSE "apply")
      PROVE  StrandsCounted'
  <2>1. InSync(c)' /\ run'[c] = id /\ UNCHANGED <<lock, cancelled, faults>>
    BY <1>3 DEF Goto, InSync, Accepted, IInv, TypeOK
  <2>2. StrandedRuns' \subseteq StrandedRuns
    <3> SUFFICES ASSUME NEW k \in StrandedRuns' PROVE k \in StrandedRuns
      OBVIOUS
    <3>1. k \in RunIds /\ k # id /\ Running(k)
      BY <1>2, <1>3, <2>1 DEF StrandedRuns, Running
    <3> QED BY <1>1, <3>1, SyncAssumption DEF StrandedRuns, Running
  <2>3. Owed' = Owed /\ Owed \in Nat /\ faults \in Nat
    BY <2>1, SyncAssumption DEF Owed, IInv, TypeOK
  <2> QED BY <2>1, <2>2, <2>3, NoneStranded DEF IInv
<1>4. CASE Refused(c) /\ Return(c, "error") /\ UNCHANGED runs
  BY <1>1, <1>4, ReturnStrands DEF Running
<1>5. ASSUME NEW id \in RunIds, runs[id] = None, AckLost(c), Return(c, "error"),
             runs' = [runs EXCEPT ![id] = NewRunRow(c)]
      PROVE  StrandsCounted'
  <2>1. Owed' = 0 /\ Owed = 0 /\ faults' = faults + 1 /\ faults \in Nat
    <3>1. Quiet'
      BY <1>1, <1>5, ReturnIsQuiet DEF IInv, Audited
    <3>2. Owed' = 0
      BY <3>1 DEF Quiet, Owed
    <3> QED BY <1>1, <1>5, <3>2, OwedByHolder, FaultsCounted DEF IInv, AckLost
  <2>2. StrandedRuns' \subseteq StrandedRuns \cup {id}
    <3> SUFFICES ASSUME NEW k \in StrandedRuns', k # id PROVE k \in StrandedRuns
      OBVIOUS
    <3>1. k \in RunIds /\ Running(k)
      BY <1>2, <1>5 DEF StrandedRuns, Running
    <3> QED BY <1>1, <3>1, SyncAssumption DEF StrandedRuns, Running
  <2> QED BY <2>1, <2>2, OneStranded DEF IInv
<1> QED BY <1>3, <1>4, <1>5 DEF CreateSyncRun

LEMMA CloseRunStrands ==
  ASSUME IInv, TypeOK', StrandsCounted, NEW c \in Callers,
         FinishRun(c) \/ FinishFailedRun(c)
  PROVE  StrandsCounted'
<1>1. InSync(c) /\ pc[c] \in {"finish", "fail"} /\ run[c] \in RunIds
  BY DEF FinishRun, FinishFailedRun, InSync, IInv, Audited, RunsRecorded, RunRecorded
<1>2. CASE Refused(c) /\ UNCHANGED runs /\ Return(c, "error")
  BY <1>1, <1>2, ReturnStrands DEF Running
<1>3. ASSUME NEW st \in {"succeeded", "failed"}, NEW wr \in SUBSET Markets,
             UpdateRun(c, st, wr), NEW result, Return(c, result),
             Accepted(c) \/ AckLost(c)
      PROVE  StrandsCounted'
  <2>1. runs'[run[c]].status = st
    BY <1>1, <1>3, UpdatedRun
  <2>2. \A id \in RunIds : id # run[c] => runs'[id] = runs[id]
    BY <1>3 DEF UpdateRun, IInv, TypeOK
  <2>3. StrandedRuns' \subseteq StrandedRuns
    <3> SUFFICES ASSUME NEW k \in StrandedRuns' PROVE k \in StrandedRuns
      OBVIOUS
    <3>1. k \in RunIds /\ k # run[c] /\ Running(k)
      BY <2>1, <2>2 DEF StrandedRuns, Running
    <3>2. \A d \in Callers : InSync(d) => d = c
      BY <1>1 DEF IInv, Audited, MutualExclusion
    <3> QED BY <3>1, <3>2 DEF StrandedRuns, Running
  <2>4. /\ Owed' = 0 /\ Owed \in Nat /\ faults \in Nat
        /\ faults' = faults \/ faults' = faults + 1
    <3>1. Quiet'
      BY <1>1, <1>3, ReturnIsQuiet DEF IInv, Audited
    <3>2. Owed' = 0
      BY <3>1 DEF Quiet, Owed
    <3> QED BY <1>3, <3>2, FaultsCounted DEF IInv, Owed
  <2>5. Owed' + faults <= Owed + faults'
    BY <2>4
  <2> QED BY <2>3, <2>5, NoneStranded DEF IInv
<1> QED BY <1>2, <1>3, ReadByType DEF FinishRun, FinishFailedRun, IInv

(* Steps of Sync that leave the runs alone.                                *)
LEMMA SameRunsStrands ==
  ASSUME IInv, TypeOK', StrandsCounted, NEW c \in Callers,
         Load(c) \/ EnsureProtocol(c) \/ (\E m \in Markets : UpsertReserve(c, m))
           \/ CommitDataset(c) \/ RollBack(c)
  PROVE  StrandsCounted'
<1>1. InSync(c) /\ UNCHANGED runs /\ \A id \in RunIds : Running(id)' => Running(id)
  BY DEF Load, EnsureProtocol, UpsertReserve, CommitDataset, RollBack, InSync,
         tables, Running
<1>2. ASSUME NEW label \in {"ensure", "create", "finish", "fail"}, Goto(c, label),
             faults' >= faults, run' = run
      PROVE  StrandsCounted'
  BY <1>1, <1>2, GotoStrands DEF Goto, InSync, IInv, TypeOK
<1>3. CASE Load(c) \/ CommitDataset(c) \/ RollBack(c)
  <2>1. \E label \in {"ensure", "finish", "fail"} : Goto(c, label)
    BY <1>3 DEF Load, CommitDataset, RollBack
  <2>2. faults' >= faults /\ run' = run
    BY <1>3, SyncAssumption
       DEF Load, CommitDataset, RollBack, Accepted, Refused, AckLost, NewFault, IInv,
           TypeOK
  <2> QED BY <1>2, <2>1, <2>2
<1>4. CASE EnsureProtocol(c)
  <2>1. CASE Accepted(c) /\ Goto(c, "create") /\ UNCHANGED run
    BY <1>2, <2>1, SyncAssumption DEF Accepted, IInv, TypeOK
  <2>2. CASE (Refused(c) \/ AckLost(c)) /\ Return(c, "error")
    BY <1>1, <2>2, ReturnStrands
  <2> QED BY <1>4, <2>1, <2>2 DEF EnsureProtocol
<1>5. ASSUME NEW m \in Markets, UpsertReserve(c, m)
      PROVE  StrandsCounted'
  <2>1. UNCHANGED <<lock, faults, cancelled, pc, run, runs>>
    BY <1>5 DEF UpsertReserve, Accepted, tables
  <2>2. Owed' = Owed /\ Owed \in Nat /\ faults \in Nat
    BY <2>1, SyncAssumption DEF Owed, IInv, TypeOK
  <2> QED BY <1>1, <2>1, <2>2, StayersStrandNothing, NoneStranded DEF InSync, IInv
<1> QED BY <1>3, <1>4, <1>5

LEMMA StepStrands ==
  ASSUME IInv, DInv, TypeOK', StrandsCounted, [Next]_vars
  PROVE  StrandsCounted'
<1>1. CASE BootStep \/ Crash \/ Stop
  BY <1>1, ProcessStepStrands
<1>2. ASSUME NEW r \in Requests, Request(r) \/ Conflict(r) \/ Cancel(r)
      PROVE  StrandsCounted'
  BY <1>2, ClientStepStrands
<1>3. ASSUME NEW c \in Callers, SyncStep(c)
      PROVE  StrandsCounted'
  BY <1>3, SameRunsStrands, CreateSyncRunStrands, CloseRunStrands DEF SyncStep
<1>4. CASE UNCHANGED vars
  <2>1. UNCHANGED <<lock, faults, cancelled, pc, run, runs>>
    BY <1>4 DEF vars, localVars, tables
  <2>2. Owed' = Owed /\ Owed \in Nat /\ faults \in Nat
    BY <2>1, SyncAssumption DEF Owed, IInv, TypeOK
  <2> QED BY <2>1, <2>2, StayersStrandNothing, NoneStranded
          DEF InSync, Running, IInv
<1> QED BY <1>1, <1>2, <1>3, <1>4 DEF Next

(* Nothing but a fault strands a run.                                      *)
THEOREM StrandsNeedFaults == Spec => []StrandedRunsNeedFaults
<1>1. Init => StrandsCounted
  <2> SUFFICES ASSUME Init PROVE StrandsCounted
    OBVIOUS
  <2>1. StrandedRuns = {} /\ Owed = 0 /\ faults = 0
    BY DEF Init, StrandedRuns, Owed
  <2>2. IsFiniteSet(StrandedRuns) /\ Cardinality(StrandedRuns) = 0
    BY <2>1, FS_EmptySet
  <2> QED BY <2>1, <2>2 DEF StrandsCounted
<1>2. IInv /\ IInv' /\ DInv /\ StrandsCounted /\ [Next]_vars => StrandsCounted'
  BY StepStrands DEF IInv
<1>3. IInv /\ StrandsCounted => StrandedRunsNeedFaults
  <2> SUFFICES ASSUME IInv, StrandsCounted
               PROVE  Cardinality(StrandedRuns) <= faults
    BY DEF StrandedRunsNeedFaults
  <2> DEFINE n == Cardinality(StrandedRuns)
  <2>1. n \in Nat /\ n + Owed <= faults
    BY FS_CardinalityType DEF StrandsCounted
  <2>2. faults \in Nat /\ Owed \in Nat
    BY SyncAssumption DEF Owed, IInv, TypeOK
  <2>3. n <= faults
    <3> HIDE DEF n
    <3> QED BY <2>1, <2>2
  <2> QED BY <2>3
<1> QED BY <1>1, <1>2, <1>3, Invariance, DataInvariance, PTL DEF Spec


-----------------------------------------------------------------------------
(* The refinement: seen through the mapping of SyncService, every step is  *)
(* one of the ledger or changes nothing there.                             *)

LedgerStep == [Ledger!LedgerNext]_(Ledger!ledgerVars)

LEMMA LedgerStutters ==
  ASSUME UNCHANGED <<reserves, runs>>, OpenNow' = OpenNow
  PROVE  LedgerStep
BY DEF LedgerStep, Ledger!ledgerVars

LEMMA LedgerAbandons ==
  ASSUME UNCHANGED <<reserves, runs>>, OpenNow' = None
  PROVE  LedgerStep
<1>1. CASE OpenNow = None
  BY <1>1, LedgerStutters
<1>2. CASE OpenNow # None
  BY <1>2 DEF LedgerStep, Ledger!LedgerNext, Ledger!Abandon, Ledger!ledgerVars
<1> QED BY <1>1, <1>2

(* What is open: the run of the holder of the lock.                        *)
LEMMA NothingOpen ==
  ASSUME Quiet
  PROVE  OpenNow = None
BY DEF Quiet, OpenNow

LEMMA HolderOpens ==
  ASSUME IInv, NEW c \in Callers, InSync(c)
  PROVE  OpenNow = run[c]
BY SyncAssumption DEF IInv, Audited, MutualExclusion, OpenNow

LEMMA HolderHasRun ==
  ASSUME IInv, DInv, NEW c \in Callers
  PROVE  /\ pc[c] \in {"load", "ensure", "create"} => run[c] = None
         /\ pc[c] \in {"apply", "finish", "fail"} =>
              /\ run[c] \in RunIds /\ run[c] # None
              /\ runs[run[c]] \in RunRows
              /\ runs[run[c]].status = "running" /\ runs[run[c]].written = {}
BY SyncAssumption, NoneAssumption
   DEF IInv, TypeOK, Audited, RunsRecorded, RunRecorded, DInv, AllWorked, Worked,
       NoRunYet, RunUncounted

LEMMA ReturnCloses ==
  ASSUME IInv, NEW c \in Callers, InSync(c), NEW result, Return(c, result)
  PROVE  OpenNow' = None
BY ReturnIsQuiet, NothingOpen DEF IInv, Audited, Quiet, OpenNow

LEMMA AcquireLedger ==
  ASSUME IInv, NEW c \in Callers, TryLock(c)
  PROVE  LedgerStep
<1>1. /\ lock' = c /\ run'[c] = None /\ UNCHANGED <<reserves, runs>>
  BY DEF TryLock, Acquire, tables, IInv, TypeOK
<1> QED BY <1>1, LedgerAbandons DEF OpenNow

LEMMA ProcessStepLedger ==
  ASSUME IInv, BootStep \/ Crash \/ Stop
  PROVE  LedgerStep
<1>1. CASE Start \/ BootSkipsSync
  BY <1>1, LedgerStutters DEF Start, BootSkipsSync, localVars, tables, OpenNow
<1>2. CASE BootSyncs
  BY <1>2, AcquireLedger DEF BootSyncs, Callers
<1>3. CASE BootOverviewFails \/ Crash \/ Stop
  <2>1. ProcessEnds /\ UNCHANGED <<reserves, runs>>
    BY <1>3 DEF BootOverviewFails, Crash, Stop, tables
  <2>2. OpenNow' = None
    BY <2>1 DEF ProcessEnds, OpenNow
  <2> QED BY <2>1, <2>2, LedgerAbandons
<1> QED BY <1>1, <1>2, <1>3 DEF BootStep

LEMMA ClientStepLedger ==
  ASSUME IInv, NEW r \in Requests, Request(r) \/ Conflict(r) \/ Cancel(r)
  PROVE  LedgerStep
<1>0. r \in Callers
  BY DEF Callers
<1>1. CASE Request(r)
  BY <1>0, <1>1, AcquireLedger DEF Request
<1>2. CASE Conflict(r)
  <2>1. /\ lock # r /\ run' = [run EXCEPT ![r] = None]
        /\ UNCHANGED <<lock, reserves, runs>>
    BY <1>0, <1>2 DEF Conflict, tables, IInv, Audited, MutualExclusion
  <2>2. lock # None => run'[lock] = run[lock]
    BY <2>1 DEF IInv, TypeOK
  <2> QED BY <2>1, <2>2, LedgerStutters DEF OpenNow
<1>3. CASE Cancel(r)
  BY <1>3, LedgerStutters DEF Cancel, tables, OpenNow
<1> QED BY <1>1, <1>2, <1>3

(* Before CreateSyncRun the ledger does not know of the sync; from then to *)
(* the last update, a failed attempt of the transaction is not seen in it. *)
LEMMA LoadLedger ==
  ASSUME NEW c \in Callers, Load(c)
  PROVE  LedgerStep
BY LedgerStutters DEF Load, Goto, tables, OpenNow

LEMMA EnsureProtocolLedger ==
  ASSUME IInv, NEW c \in Callers, EnsureProtocol(c)
  PROVE  LedgerStep
<1>1. InSync(c) /\ UNCHANGED <<reserves, runs>>
  BY DEF EnsureProtocol, InSync
<1>2. CASE Goto(c, "create") /\ UNCHANGED run
  BY <1>1, <1>2, LedgerStutters DEF Goto, OpenNow
<1>3. CASE Return(c, "error")
  BY <1>1, <1>3, ReturnCloses, LedgerAbandons
<1> QED BY <1>2, <1>3 DEF EnsureProtocol

LEMMA CreateSyncRunLedger ==
  ASSUME IInv, DInv, NEW c \in Callers, CreateSyncRun(c)
  PROVE  LedgerStep
<1>1. /\ InSync(c) /\ lock = c /\ UNCHANGED reserves /\ OpenNow = None
  BY HolderHasRun, HolderOpens
     DEF CreateSyncRun, InSync, IInv, Audited, MutualExclusion
<1>2. ASSUME NEW id \in RunIds, runs[id] = None,
             runs' = [runs EXCEPT ![id] = NewRunRow(c)],
             NEW orphan \in BOOLEAN, orphan => LostAcks,
             OpenNow' = IF orphan THEN None ELSE id
      PROVE  LedgerStep
  <2>1. NewRunRow(c) # None /\ NewRunRow(c).status = "running"
        /\ NewRunRow(c).written = {}
    BY NewRunRowType, NoneAssumption DEF NewRunRow
  <2>2. \A i \in RunIds : runs'[i] = IF i = id THEN NewRunRow(c) ELSE runs[i]
    BY <1>2 DEF IInv, TypeOK
  <2>3. ASSUME NEW i \in RunIds
        PROVE  /\ (IF runs'[i] = None THEN "absent" ELSE runs'[i].status)
                    = IF i = id THEN "running"
                      ELSE IF runs[i] = None THEN "absent" ELSE runs[i].status
               /\ (IF runs'[i] = None THEN {} ELSE runs'[i].written)
                    = IF runs[i] = None THEN {} ELSE runs[i].written
    BY <1>2, <2>1, <2>2
  <2>4. Ledger!OpenRun(id, orphan)
    BY <1>1, <1>2, <2>3 DEF Ledger!OpenRun
  <2> QED BY <1>2, <2>4 DEF LedgerStep, Ledger!LedgerNext
<1>3. ASSUME NEW id \in RunIds, runs[id] = None,
             runs' = [runs EXCEPT ![id] = NewRunRow(c)],
             run' = [run EXCEPT ![c] = id], UNCHANGED lock
      PROVE  LedgerStep
  <2>1. OpenNow' = id
    BY <1>1, <1>3, SyncAssumption DEF OpenNow, IInv, TypeOK
  <2> QED BY <1>2, <1>3, <2>1
<1>4. CASE Return(c, "error") /\ UNCHANGED runs
  BY <1>1, <1>4, ReturnCloses, LedgerAbandons
<1>5. ASSUME LostAcks, Return(c, "error"), NEW id \in RunIds, runs[id] = None,
             runs' = [runs EXCEPT ![id] = NewRunRow(c)]
      PROVE  LedgerStep
  BY <1>1, <1>2, <1>5, ReturnCloses
<1> QED BY <1>3, <1>4, <1>5 DEF CreateSyncRun, Goto, AckLost

LEMMA CommitDatasetLedger ==
  ASSUME IInv, DInv, NEW c \in Callers, CommitDataset(c)
  PROVE  LedgerStep
<1>1. /\ InSync(c) /\ pc[c] = "apply" /\ UNCHANGED <<run, runs, lock>>
      /\ run[c] # None /\ OpenNow = run[c] /\ OpenNow' = run[c]
  BY HolderHasRun, HolderOpens DEF CommitDataset, Goto, InSync, OpenNow
<1>2. Unpublished(c) /\ ReadBy(c) \subseteq Markets
  BY ReadByType DEF IInv, Audited, RowsAccounted
<1>3. Ledger!Publish(ReadBy(c))
  <2>1. Ledger!PublishedBy(OpenNow) = {}
    BY <1>1, <1>2 DEF Ledger!PublishedBy, Unpublished, WrittenBy
  <2>2. ASSUME NEW m \in Markets
        PROVE  (IF reserves'[m] = None THEN None ELSE reserves'[m].by)
                 = IF m \in ReadBy(c) THEN run[c]
                   ELSE IF reserves[m] = None THEN None ELSE reserves[m].by
    BY CommitRows
  <2> QED BY <1>1, <2>1, <2>2 DEF Ledger!Publish
<1>4. \E ms \in SUBSET Markets : Ledger!Publish(ms)
  BY <1>2, <1>3 DEF Ledger!Publish
<1> QED BY <1>4 DEF LedgerStep, Ledger!LedgerNext

LEMMA RollBackLedger ==
  ASSUME NEW c \in Callers, RollBack(c)
  PROVE  LedgerStep
BY LedgerStutters DEF RollBack, Goto, tables, OpenNow

(* The last update closes the open run with what it published.             *)
LEMMA CloseRunLedger ==
  ASSUME IInv, DInv, NEW c \in Callers, FinishRun(c) \/ FinishFailedRun(c)
  PROVE  LedgerStep
<1>1. /\ InSync(c) /\ UNCHANGED reserves /\ pc[c] \in {"finish", "fail"}
      /\ OpenNow = run[c] /\ run[c] \in RunIds /\ run[c] # None
      /\ runs[run[c]] \in RunRows /\ runs[run[c]] # None
      /\ runs[run[c]].written = {}
  BY HolderHasRun, HolderOpens, NoneAssumption
     DEF FinishRun, FinishFailedRun, InSync
<1>2. OpenNow' = None
  BY <1>1, ReturnCloses DEF FinishRun, FinishFailedRun
<1>3. CASE UNCHANGED runs
  BY <1>1, <1>2, <1>3, LedgerAbandons
<1>4. ASSUME NEW st \in {"succeeded", "failed"}, NEW wr \in SUBSET Markets,
             UpdateRun(c, st, wr), NEW i \in RunIds
      PROVE  IF i = run[c]
             THEN runs'[i] # None /\ runs'[i].status = st /\ runs'[i].written = wr
             ELSE runs'[i] = runs[i]
  <2>1. runs'[i] = IF i = run[c]
                   THEN [runs[i] EXCEPT !.status = st, !.read = ReadBy(c), !.written = wr]
                   ELSE runs[i]
    BY <1>4 DEF UpdateRun, IInv, TypeOK
  <2>2. CASE i = run[c]
    <3>1. runs'[i] \in RunRows /\ runs'[i].status = st /\ runs'[i].written = wr
      BY <1>1, <1>4, <2>1, <2>2, ReadByType DEF RunRows, IInv
    <3> QED BY <2>2, <3>1, NoneAssumption
  <2> QED BY <2>1, <2>2
<1>5. CASE pc[c] = "finish" /\ UpdateRun(c, "succeeded", ReadBy(c))
  <2>1. Ledger!PublishedBy(OpenNow) = ReadBy(c)
    <3>1. WroteAll(c)
      BY <1>5 DEF DInv, AllWorked, Worked, Committed
    <3> QED BY <1>1, <3>1, ReadByType
            DEF WroteAll, WrittenBy, Ledger!PublishedBy, IInv
  <2>2. ASSUME NEW i \in RunIds
        PROVE  IF i = run[c]
               THEN runs'[i] # None /\ runs'[i].status = "succeeded"
                    /\ runs'[i].written = ReadBy(c)
               ELSE runs'[i] = runs[i]
    BY <1>4, <1>5, ReadByType DEF IInv
  <2>3. Ledger!CloseSucceeded
    BY <1>1, <1>2, <2>1, <2>2 DEF Ledger!CloseSucceeded
  <2> QED BY <2>3 DEF LedgerStep, Ledger!LedgerNext
<1>6. CASE pc[c] = "fail" /\ UpdateRun(c, "failed", {})
  <2>1. Ledger!PublishedBy(OpenNow) = {} \/ LostAcks
    BY <1>1, <1>6
       DEF IInv, Audited, RowsAccounted, Unpublished, WrittenBy, Ledger!PublishedBy
  <2>2. ASSUME NEW i \in RunIds
        PROVE  IF i = run[c]
               THEN runs'[i] # None /\ runs'[i].status = "failed"
                    /\ runs'[i].written = {}
               ELSE runs'[i] = runs[i]
    BY <1>4, <1>6
  <2>3. Ledger!CloseFailed
    BY <1>1, <1>2, <2>1, <2>2 DEF Ledger!CloseFailed
  <2> QED BY <2>3 DEF LedgerStep, Ledger!LedgerNext
<1> QED BY <1>3, <1>5, <1>6 DEF FinishRun, FinishFailedRun

LEMMA StepLedger ==
  ASSUME IInv, DInv, [Next]_vars
  PROVE  LedgerStep
<1>1. CASE BootStep \/ Crash \/ Stop
  BY <1>1, ProcessStepLedger
<1>2. ASSUME NEW r \in Requests, Request(r) \/ Conflict(r) \/ Cancel(r)
      PROVE  LedgerStep
  BY <1>2, ClientStepLedger
<1>3. ASSUME NEW c \in Callers, NEW m \in Markets, UpsertReserve(c, m)
      PROVE  LedgerStep
  BY <1>3, LedgerStutters DEF UpsertReserve, tables, OpenNow
<1>4. ASSUME NEW c \in Callers, SyncStep(c)
      PROVE  LedgerStep
  BY <1>3, <1>4, LoadLedger, EnsureProtocolLedger, CreateSyncRunLedger,
     CommitDatasetLedger, RollBackLedger, CloseRunLedger DEF SyncStep
<1>5. CASE UNCHANGED vars
  BY <1>5, LedgerStutters DEF vars, localVars, tables, OpenNow
<1> QED BY <1>1, <1>2, <1>4, <1>5 DEF Next

LEMMA InitLedger == Init => Ledger!LedgerInit
BY DEF Init, Ledger!LedgerInit, OpenNow

(* Sync refines SyncLedger: what others see of the tables is a run opened, *)
(* its rows published all at once, and it closed with what it published,   *)
(* or failed with nothing, or abandoned, whatever is refused or crashes.   *)
THEOREM LedgerIsKept == Spec => LedgerKept
<1>1. Init => Ledger!LedgerInit
  BY InitLedger
<1>2. IInv /\ DInv /\ [Next]_vars => [Ledger!LedgerNext]_(Ledger!ledgerVars)
  BY StepLedger DEF LedgerStep
<1> QED BY <1>1, <1>2, Invariance, DataInvariance, PTL
        DEF Spec, LedgerKept, Ledger!LedgerSpec

-----------------------------------------------------------------------------
(* The Graph client in the place of Load.                                  *)

(* The steps of the conversation: each is the Load of SyncService or is    *)
(* not seen there.                                                         *)
LEMMA DeliverIsLoad ==
  ASSUME NEW c \in Callers, Fetching(c), NEW result, Deliver(c, result),
         \/ result = None /\ UNCHANGED clock
         \/ /\ ~cancelled[c] /\ clock' = clock + 1
            /\ result \in GraphDatasets(clock + 1)
  PROVE  Load(c)
<1>1. /\ pc[c] = "load" /\ mode = "graph"
      /\ loaded' = [loaded EXCEPT ![c] = result]
      /\ Goto(c, "ensure") /\ UNCHANGED <<mode, faults, run, upserts, tables>>
  BY DEF Fetching, Deliver
<1> QED BY <1>1 DEF Load

LEMMA ClientStepIsLoad ==
  ASSUME NEW c \in Callers, ClientStep(c)
  PROVE  Load(c) \/ UNCHANGED vars
<1>1. CASE Succeed(c)
  <2>1. /\ Fetching(c) /\ ~cancelled[c] /\ clock' = clock + 1
    BY <1>1 DEF Succeed, Requesting
  <2>2. PICK d \in GraphDatasets(clock + 1) : Deliver(c, d)
    BY <1>1, <2>1 DEF Succeed
  <2> QED BY <2>1, <2>2, DeliverIsLoad
<1>2. CASE GiveUp(c) \/ SelectDone(c)
  BY <1>2, DeliverIsLoad DEF GiveUp, SelectDone, Requesting
<1>3. CASE Retry(c) \/ TimerFires(c) \/ SelectTimer(c)
  BY <1>3 DEF Retry, TimerFires, SelectTimer
<1> QED BY <1>1, <1>2, <1>3 DEF ClientStep

LEMMA StepOverGraphIsStep ==
  ASSUME [NextOverGraph]_allVars
  PROVE  [Next]_vars
<1>1. CASE ProcessStep
  BY <1>1 DEF ProcessStep, Next
<1>2. ASSUME NEW r \in Requests, RequestStep(r)
      PROVE  Next
  BY <1>2 DEF RequestStep, Next
<1>3. ASSUME NEW c \in Callers, LoadDemo(c) \/ ElsewhereStep(c)
      PROVE  Next
  <2>1. SyncStep(c)
    BY <1>3 DEF LoadDemo, ElsewhereStep, SyncStep
  <2> QED BY <2>1 DEF Next
<1>4. ASSUME NEW c \in Callers, ClientStep(c)
      PROVE  [Next]_vars
  <2>1. CASE Load(c)
    BY <2>1 DEF SyncStep, Next
  <2> QED BY <1>4, <2>1, ClientStepIsLoad
<1>5. CASE UNCHANGED allVars
  BY <1>5 DEF allVars
<1> QED BY <1>1, <1>2, <1>3, <1>4, <1>5 DEF NextOverGraph, SyncStepOverGraph

(* Sync over the Graph client is Sync over the one step Load: the safety   *)
(* part of LoadImplemented (client.go:98-128).                             *)
THEOREM GraphClientLoads == SpecOverGraph => Spec
<1>1. InitOverGraph => Init
  BY DEF InitOverGraph
<1>2. [NextOverGraph]_allVars => [Next]_vars
  BY StepOverGraphIsStep
<1> QED BY <1>1, <1>2, PTL DEF SpecOverGraph, Spec

(* So everything proved of the service holds with the client in it.        *)
THEOREM SafeOverGraph ==
  SpecOverGraph => /\ [](TypeOK /\ MutualExclusion /\ VisibleDataAudited)
                   /\ [](SnapshotsHaveReserves /\ AnswersMatchRuns)
                   /\ [](StrandedRunsNeedFaults /\ OldRowsUnread)
                   /\ [](BootFillsDashboard)
                   /\ NeverOlderData /\ NoSilentDemo /\ LedgerKept
BY GraphClientLoads, TypeCorrect, SyncsExcludeEachOther, VisibleDataIsAudited,
   SnapshotsAreOwned, AnswersAreTrue, StrandsNeedFaults, OldRowsWereNotRead,
   BootFills, NewerDataOnly, NoDemoWithoutMode, LedgerIsKept, PTL

-----------------------------------------------------------------------------
(* The conversation itself: fetchDataset makes MaxAttempts requests at     *)
(* most, and none of a conversation is left over for the next one.         *)

ConversationOK ==
  /\ attempt \in 1..MaxAttempts
  /\ stage \in {"request", "timer", "fired"}
  /\ stage # "request" => attempt > 1
  /\ attempt > 1 => lock # None /\ Fetching(lock)

LEMMA AttemptsPositive == MaxAttempts \in Nat /\ MaxAttempts >= 1
BY ClientAssumption DEF MaxAttempts

LEMMA ResetIsOK ==
  ASSUME ClientReset
  PROVE  ConversationOK'
BY AttemptsPositive DEF ClientReset, ConversationOK

(* A step under which whoever fetches goes on fetching.                    *)
LEMMA SameConversation ==
  ASSUME ConversationOK, UNCHANGED <<clientVars, lock>>,
         lock # None /\ Fetching(lock) => Fetching(lock)'
  PROVE  ConversationOK'
BY DEF ConversationOK, clientVars

LEMMA FetchingHolds ==
  ASSUME IInv, NEW c \in Callers, Fetching(c)
  PROVE  lock = c /\ lock # None
BY SyncAssumption DEF IInv, Audited, MutualExclusion, InSync, Fetching

LEMMA StepConversation ==
  ASSUME IInv, ConversationOK, [NextOverGraph]_allVars
  PROVE  ConversationOK'
<1>1. CASE ProcessStep
  BY <1>1, ResetIsOK DEF ProcessStep
<1>2. ASSUME NEW r \in Requests, RequestStep(r)
      PROVE  ConversationOK'
  <2>1. CASE ClientReset
    BY <2>1, ResetIsOK
  <2>2. CASE Conflict(r) /\ UNCHANGED clientVars
    <3>1. /\ lock # r /\ pc' = [pc EXCEPT ![r] = "done"] /\ UNCHANGED <<lock, mode>>
      BY <2>2 DEF Conflict, procVars, IInv, Audited, MutualExclusion, Callers
    <3>2. lock # None => pc'[lock] = pc[lock]
      BY <3>1 DEF IInv, TypeOK
    <3> QED BY <2>2, <3>1, <3>2, SameConversation DEF Fetching
  <2>3. CASE Cancel(r) /\ UNCHANGED clientVars
    BY <2>3, SameConversation DEF Cancel, procVars, Fetching
  <2> QED BY <1>2, <2>1, <2>2, <2>3 DEF RequestStep
<1>3. ASSUME NEW c \in Callers, LoadDemo(c)
      PROVE  ConversationOK'
  <2>1. lock = c /\ ~Fetching(lock) /\ UNCHANGED <<clientVars, lock>>
    BY <1>3 DEF LoadDemo, Load, Goto, Fetching, InSync, IInv, Audited, MutualExclusion
  <2> QED BY <2>1, SameConversation
<1>4. ASSUME NEW c \in Callers, ClientStep(c)
      PROVE  ConversationOK'
  <2>1. CASE Succeed(c) \/ GiveUp(c) \/ SelectDone(c)
    BY <2>1, ResetIsOK DEF Succeed, GiveUp, SelectDone, Deliver
  <2>2. CASE Retry(c)
    <3>1. /\ Fetching(c) /\ attempt <= MaxAttempts /\ attempt # MaxAttempts
          /\ stage' = "timer" /\ attempt' = attempt + 1 /\ UNCHANGED <<lock, pc, mode>>
      BY <2>2 DEF Retry, Requesting, vars, procVars
    <3> QED BY <3>1, FetchingHolds, AttemptsPositive DEF ConversationOK, Fetching
  <2>3. CASE TimerFires(c) \/ SelectTimer(c)
    <3>1. /\ Fetching(c) /\ stage \in {"timer", "fired"} /\ UNCHANGED <<attempt, lock, pc, mode>>
          /\ stage' \in {"request", "fired"}
      BY <2>3 DEF TimerFires, SelectTimer, vars, procVars
    <3> QED BY <3>1 DEF ConversationOK, Fetching
  <2> QED BY <1>4, <2>1, <2>2, <2>3 DEF ClientStep
<1>5. ASSUME NEW c \in Callers, ElsewhereStep(c)
      PROVE  ConversationOK'
  BY <1>5, ResetIsOK DEF ElsewhereStep
<1>6. CASE UNCHANGED allVars
  BY <1>6, SameConversation DEF allVars, vars, procVars, Fetching
<1> QED BY <1>1, <1>2, <1>3, <1>4, <1>5, <1>6 DEF NextOverGraph, SyncStepOverGraph

(* fetchDataset makes MaxAttempts requests at most, a retry is pending only *)
(* in the conversation of the holder of syncLock, and whatever ends that    *)
(* conversation (an answer, an error, a cancellation, a crash) leaves       *)
(* nothing of it to the next.                                               *)
THEOREM RetriesAreBounded == SpecOverGraph => []ConversationOK
<1>1. InitOverGraph => ConversationOK
  BY AttemptsPositive DEF InitOverGraph, ConversationOK
<1>2. IInv /\ ConversationOK /\ [NextOverGraph]_allVars => ConversationOK'
  BY StepConversation
<1> QED BY <1>1, <1>2, GraphClientLoads, Invariance, PTL DEF SpecOverGraph

=============================================================================
