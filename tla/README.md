# AavePulse: specifications and proofs

AavePulse is a Go service (Gin, GORM, Postgres, Casbin, JWT) that copies the
Aave V3 reserves of Ethereum from The Graph into its own tables and serves them
to a React dashboard, behind the user, role and menu administration it was
built on. This directory holds TLA+ specifications of its core, TLC runs that
check them, and TLAPS proofs. Paths below are relative to the repository;
`service.go:38` means a line of the file named just before.

    tlc -workers 2 -config MC_SyncService.cfg MC_SyncService     # a run
    tlapm SyncService_proofs.tla                                 # the proofs

`PROJECT.json` lists the runs, the lines each definition is translated from,
the mutants every property has been seen to catch, the findings, the hazards
and the theorems.

## 1. The system

One process, one database. At start the modules are initialised one after the
other (`internal/mods/mods.go`), and only then the HTTP server listens; each
request is a goroutine; a signal stops the server with a grace period.

| part | state it keeps | operations | talks to |
|---|---|---|---|
| Sync service `defi/biz/service.go` | `syncLock` | `Sync`, `finishFailedRun`, `Overview`, `Snapshots`, `SyncRuns` | source, repository |
| Repository `defi/dal` | tables `defi_protocols`, `defi_reserves`, `defi_reserve_snapshots`, `defi_sync_runs` | `EnsureProtocol`, `CreateSyncRun`, `UpdateSyncRun`, `ApplyDataset`, lists | Postgres |
| Sources `defi/graph` | none (the demo source: one dataset) | `Load`: query with retries, mapping, daily history | The Graph |
| DeFi start `defi/main.go` | the source chosen by the configuration | `Init`: AutoSync when no reserve is stored | sync service |
| Menus `rbac/biz/menu.biz.go` | tables `menu`, `menu_resource` | `Create`, `Update`, `Delete`, `Query`, `InitFromFile` | cache (time of change) |
| Roles `rbac/biz/role.biz.go` | tables `role`, `role_menu` | `Create`, `Update`, `Delete` | cache (time of change) |
| Policy `rbac/casbin.go` | the enforcer, the time it was loaded for | `Load`, `load`, `autoLoad` | cache, tables, policy file |
| Users, login `rbac/biz/{user,login}.biz.go` | tables `user`, `user_role`; a cache entry per user | user administration, `Login`, `Logout`, `ParseUserID`, `QueryMenus` | cache, tokens |
| Tokens `pkg/jwtx` | store of destroyed tokens | `GenerateToken`, `DestroyToken`, `ParseSubject` | cache |
| Cache `pkg/cachex` | memory, Badger or Redis | `Set`, `Get`, `Delete`, with expiry | |
| Middleware `pkg/middleware` | rate limiters per user | authentication, Casbin, rate limit, ... | all of the above |
| Log hook `pkg/logging/hook.go` | a bounded queue, workers | `Write`, `Flush` | log table |
| Process `internal/bootstrap`, `pkg/util/command.go` | listeners, the channel of signals, what the injector opened | start, `Run`, cleanup | all of the above |
| Web dashboard `web/src` | React state | pages over the API | HTTP API |

Configuration, metrics, encoding and hashing helpers, the generated OpenAPI
documents, captchas and the read-only log queries keep no state that another
part depends on and are not modelled (`components` in `PROJECT.json` gives the
reason for each).

**What is hard here.**

* A synchronization is an HTTP request and at least five database calls under
  one mutex, all with the context of the request that started it. The client
  may disconnect, any call may fail, and the process may stop between any two.
  Only the reserves and snapshots are written in one transaction; the row of
  the run is written before and after it.
* History arrives newest first, truncated to days, limited to a page, and is
  topped up with the present value; stored rows accumulate across days, late
  indexing and repeated syncs.
* Menus keep, beside the parent, the path of all ancestors. Searches, deletion,
  the spreading of a status and inherited permissions trust the path, so every
  move has to rewrite it for a whole subtree; and a menu file is merged in at
  every start.
* The Casbin policy is a copy of the roles and menus, refreshed by a goroutine
  that compares a time, in whole seconds, which writers put into the cache
  before they commit.
* A user's roles are cached at login and on demand, deleted in the middle of
  transactions, and sessions end by a list of destroyed tokens.
* Tokens count in seconds and caches in finer units; a user's rate limiter lives
  in a cache that forgets it, and is fetched, used and stored in three calls.
* Every goroutine writes log entries through one bounded channel, which the
  shutdown closes while requests and the reload of the policy may still run.

**What makes each part correct.**

| part | properties |
|---|---|
| sync service | at most one sync at a time; visible rows are vouched for by a run on record; a run is stranded only by a fault; answers tell the truth; no demo data by accident; older observations never win; a server never starts empty; a sync always ends |
| snapshots | the last value of a day is stored, and no row of the day is newer; the range asked for is the range returned, today included; repeating a sync changes nothing |
| menus | paths equal the tree, up to a move of a menu under itself; deletion leaves nothing; a status reaches the whole subtree; codes are unique on a level; the file is idempotent; what matches a search is shown |
| policy | when no reload is due, the enforcer equals the tables; a change is reloaded in the end |
| users | a change of roles or status takes effect; no edit undoes another one; names are unique; nobody gone has roles |
| tokens, rate limit | a destroyed token stays destroyed; a logout ends its own session only; a user gets no more than a known number of bursts at his rate |
| process and log | no entry taken is lost; a request finds its storage closed only if it outlives the shutdown; what can panic in the cleanup is known; a signal ends the process |

The full list of hazards, each at its line, is in `PROJECT.json`.

## 2. Modules

| module | models |
|---|---|
| `SyncLedger` | what the sync service promises, with no mechanism |
| `SyncService` | `Service.Sync`, the repository's writes, the start and end of the process; refines `SyncLedger` |
| `SnapshotHistory` | history items to rows to the answer of `Service.Snapshots` |
| `SyncOverGraph` | `SyncService` with the Graph client's attempts, timer and cancellation in the place of its step `Load`; implements it |
| `MenuTree` | the menu table: forms, deletion, menu file, queries |
| `MenuRaces` | `MenuTree` and one request that reads and writes in two steps |
| `PolicyReload` | from a change of roles and menus to the enforcer |
| `Accounts` | users, their roles, passwords and cache entries, requests interleaved |
| `Gateway` | tokens, the store of destroyed ones, rate limiters, restarts |
| `Server` | the process from start to exit, with everything that writes log entries |
| `SyncService_proofs` | theorems about `SyncService`, its refinement of `SyncLedger`, and `SyncOverGraph` |
| `SnapshotHistory_proofs`, `PolicyReload_proofs`, `Accounts_proofs`, `Gateway_proofs`, `Server_proofs` | theorems about the module of that name |
| `MenuRaces_proofs` | theorems about `MenuTree` and `MenuRaces` |
| `NumberLemmas` | the least number, products, sizes of finite sets: what several proofs need |
| `MC_*` | instances for TLC, nothing else |

### SyncService

A caller of `Sync` (a handler of `POST /defi/sync-runs`, or `DEFI.Init`) is at
`pc`: `load` (`service.go:44`), `ensure` (46), `create` (61), `apply` (69),
`finish` (77) or `fail` (95). Each label is one call that other goroutines may
run around; `apply` is the transaction, with one step per reserve
(`UpsertReserve`) and one for the snapshots and the commit, and the rows it
writes are invisible until then. `loaded`, `run` and `upserts` are the local
variables `dataset`, `run` and `reserveIDs`; `protocol`, `reserves`,
`snapshots`, `runs` are the tables; `lock` is `syncLock` and its holder.

A call with a cancelled context is refused. Any call may be refused, at the
price of one of `MaxFaults`; if `LostAcks`, a refused one may have taken effect
all the same (a connection that breaks at the commit). A crash, or a shutdown
whose grace period runs out, is `Crash`: memory is gone, the transaction is
rolled back. An error of the AutoSync
call, or of the count before it, ends the process that is starting.

Counts are kept as the sets counted. `by` in a reserve's row is no column: it
remembers which run wrote it, so that properties can relate the two tables.
Behaviours are taken within one UTC day (the demo dataset carries the start of
the day) and with a clock that does not go back.

`SyncLedger` has five actions: a run is opened, the open run publishes rows all
at once, it is closed as succeeded with exactly those rows, or as failed having
published nothing, or it is abandoned. `LedgerKept` maps `SyncService` to it:
`open` is the run of the lock's holder, `visible` the writers of the rows.

### SyncOverGraph

`fetchDataset` and `fetchOnce` as steps of the caller at `load`: a request, the
timer between two attempts, and the `select` of timer and cancellation
(`client.go:98-128`). `attempt` is the loop variable, `stage` where in the loop
the caller is. How an attempt fails is one of six classes (`Failures`), of which
three are retried. `LoadImplemented` is `SyncService!FairSpec`: the conversation
is one `Load` for the rest of the system, and it ends, so what is shown of
`SyncService` holds with the client in it. `ConfigAttempts` is any integer:
`NewClient` replaces one that is not positive by three (`client.go:78`).

### SnapshotHistory

A sync is one step (`SyncService` shows that syncs exclude each other and store
all or nothing). Time is ticks, a few to a day. A value is named by the tick of
the event that produced it, so "the last value of the day" can be stated.
`Event` happens on chain, `Index` makes past events known to The Graph,
`Ascending` is an `ORDER BY` over numbers (the place of a member is the number
of those up to it), `HistoryPage` the newest events by `Position`, `MapHistory`
is the loop over history in `MapDataset`, `FillToday` what `Client.Load`
appends, `StoreSnapshots` `upsertSnapshot` with its conflict key, `Snapshots(m)`
the query with `since` and the cut to `days` points.

### MenuTree

`menus[m]` is the row of menu `m`: code, parent, path as a sequence of ids,
status. A request is one step, its checks and its transaction; one that is
refused is no step. `Updated` is the transaction of `Menu.Update`, in which the
status spreads by the old path, the paths below are rewritten, and the row comes
last. `InitFromFile` is a recursive function over the items of the file. Ids are
issued in order, and `First` takes the smallest, as `ORDER BY id LIMIT 1` does
with XIDs. Names, sequences and other columns nothing depends on are left out,
and so is the search for an item of the file by its id or name: those of the
repository's file have codes. `roleMenus` is what the roles of a user list; a
form may name any id, of a menu that is there or not, since `role.biz.go:91` and
136 insert it unchecked (`Listable` bounds the choice). `SubtreeMoves = FALSE`
says that no form names a menu of the moved subtree as the new parent. The code
does not refuse this, so it is only a bound, of the runs `menus_unique` and
`menus_codepath` and, for the single steps, `menu_races`; no theorem assumes it.

### MenuRaces

Extends `MenuTree`. `request` has done its reads (`Begin`) and writes by them
later (`Write`), or `Fails`; in between other requests are the single steps of
`MenuTree`. One such request is enough: of two that overlap, the one that writes
first can be taken as a single step. The model keeps what each statement goes
by: `UpdateStatusByParentPath` by the paths of that moment, `UpdateParentPath`
by the paths read. `spoiled` is history: a write by reads that no longer hold, or
a move into the menu's own subtree; a behaviour ends there, since everything
after it would follow from the one mistake.

### PolicyReload

A handler opens a transaction (`open`), reads the clock (`ReadClock`), puts that
time into the cache (`SyncToCasbin`), and commits or rolls back. Reading and
putting are the two calls in the one line of `syncToCasbin` (`role.biz.go:178`,
`menu.biz.go:514`): between them another handler may put a newer time, which is
then replaced by the older one. What a transaction changes is chosen at its
commit, since nobody sees it before: a role, or a menu with everything that its
move, status or deletion changes in the lists of the roles. The loader is
`autoLoad` and `load`: it compares the time in the cache with `lastUpdated`,
queries the enabled roles, for each its menus and then their resources, and
installs the enforcer, each query a step. A query for one role that fails loses
the role; an error elsewhere fails the load. `Start`, `InitFromFile` and `Crash`
are the process: the first load comes before the menu file is applied, which may
add resources and change lists (it sets the status of its items), and not until
then requests are served. `missed` and `skipped` are history: why the enforcer
may be behind. A resource stands for the menu it belongs to, and a role's list
for its enabled menus with their ancestors.

### Accounts

Each goroutine (`job`) authenticates, logs in, changes a password, or creates,
edits or deletes a user; every read, every cache call and every commit is a step
(`at` is the next one). A transaction keeps the row of its user locked until it
ends, as Postgres does, and reads nothing that is not committed; the cache entry
is deleted before the commit (`user.biz.go:170`, `190`), where everybody sees it.
`DeleteRole` is `Role.Delete` as far as it touches users, in one step.
`passed` is history: what others did to a job's data since it looked. A hit in
the cache changes nothing and is no step. `Forget` is everything that drops an
entry, expiry and logout included.

### Gateway

One user's sessions; tokens and limiters of two users never meet. Time goes by
half seconds, since tokens are valid through the second of their `ExpiresAt` and
cache entries end at an instant; `GoneAt` says for each of the three stores when
an entry is gone. A token is what decides about it, its second and its key: two
of one second are one. A request is authentication, the three calls around the
limiter, a handler. Limiters are objects several requests may hold. One that
nobody holds and the cache has forgotten goes on filling in the model, as history:
`Busy` is the limiters in use, or not yet full again and so other than a new one.
`Generations` is how often the cache can forget a limiter before an empty one
would be full. `Restart` takes the keys of the configuration as it is then
(`Auth.SigningKey`, `OldSigningKey`), or the same ones; `ended`, the tokens that
clients logged out, is filled from the token of the client, not from what the
store was told.

### Server

`at[g]` is where a goroutine is: the main one (start, `util.Run`, the cleanup in
its order), the two listeners, `autoLoad`, and the requests. `Write` of the hook
is three steps (`hook.go:97-110`): it looks whether the hook is closed, whether
the channel is full, and sends; the send may block, and panics once the channel
is closed. What a panic does depends on the goroutine: `Recovery` answers for a
handler, net/http for the rest of a request, and nobody for `autoLoad` and the
listeners (`Crash`). `harmed`, `overdue`, `stray` and `culprit` are history.
Found while translating it, and part of the model:

* a signal before `Notify` ends the process without cleanup, and later ones go
  through a channel of one place: a TERM that arrives while a HUP waits is lost;
* a start that fails, by the panic in `cmd/start.go`, does not flush the hook:
  entries in its channel are lost. `EntriesKept` is about exits after a signal;
* a listener that cannot bind its address, or fails later, only writes an entry;
  the process stays, initialised and serving nobody (`http.go:90`). If it is
  about to write that entry while the channel is closed, it panics;
* `Release` stops a ticker only if `autoLoad` has made it already;
* a panic inside the entry that `Logger` writes makes `Recovery` append a second
  answer to one already sent.

## 3. Runs

| run | question | instance | distinct states |
|---|---|---|---|
| `sync_safety` | does concurrency, failure or a crash break the ledger, the data or an answer? | 2 requests and AutoSync, 2 + 1 markets, 3 runs, 2 faults | 571,087 |
| `sync_live` | does every sync return, with The Graph failing and hanging; is the client one step for the rest; is the ledger kept when acknowledgements are lost? | 2 requests and AutoSync, 1 + 1 markets, 2 runs, 2 faults, 3 attempts | 55,929 |
| `snapshots` | is daily history right under any order of events, indexing, midnights and syncs? | 2 markets, 5 ticks of half a day, 3 events, page of 2, range of 2 days | 2,128,832 |
| `snapshots_idempotence` | are writes idempotent? **No** | 1 market, 1 day | |
| `menus` | do moves, status changes, deletions and restarts keep paths and queries right? | 4 menus, 2 codes, moves under itself included, one listed menu, there or not | 75,290 |
| `menu_races` | what do two overlapping requests do to the tree? | 3 menus, 1 code, a resource of one menu at a time, one listed menu, there or not | 457,432 |
| `menus_unique` | are codes unique on a level? **No** | 3 menus | |
| `menus_codepath` | does a code path find its menu? **No** | 3 menus | |
| `policy` | when is the enforcer behind the tables, and does it catch up? | 2 roles, 3 transactions of 2 handlers, 2 seconds, 2 faults | 1,236,509 |
| `accounts` | what do two overlapping requests do to users, roles, passwords and cached roles? | 2 requests, 2 users, 2 names, 1 role | 2,591,937 |
| `gateway` | are tokens and limits honoured in every second, store, restart and race? | 2 sessions, 3 stores, 2 keys, tokens of 1 s, a limiter of 1 request per 2 s forgotten after 1 s, 2 s | 3,006,046 |
| `server` | is the log kept, are requests spared, and does a signal end the process? | 1 request and 4 goroutines, a channel of 1, 1 worker | 1,219,489 |

What they show:

* **VisibleDataAudited**, **LedgerKept**: nobody ever sees a row whose run says
  failed, or rows of half a dataset, or a run that says succeeded with another
  set of rows than it published, except in one way: a commit acknowledged as an
  error closes its run as failed (`LostAcks`).
* **StrandedRunsNeedFaults**: each run left `running` is paid for by a crash, a
  refused update or a disconnected client. There is no other way, and there is
  no repair either: the code never closes such a run.
* **SnapshotsHaveReserves**, **NeverOlderData**: both hold only because of the
  lock (the mutant without it breaks them): `upsertReserve` returns an id it
  read or made before the upsert, and an observation is stamped before it is
  stored.
* **OldRowsUnread**: nothing removes a reserve, so `Overview` adds up rows older
  than the time it calls synced last. Those of The Graph are of markets that the
  newest run did not read, never ones it read and did not replace.
* **AnswersMatchRuns**, **BootFillsDashboard**, **NoSilentDemo**: as their
  comments say. `NoSilentDemo` is about new demo rows; a demo row stored by an
  earlier process in demo mode stays.
* **WindowExact** has the condition that no day has two rows; `Client.Load`
  breaks it (next point), and then the range shows the newest `days` rows.
* **LatestOfDayStored**: the last value of a day is in the row of that day's
  midnight. Other rows of the day are top-ups, stored when The Graph had no event
  of the day yet; their values are older, but they carry the moment of their sync
  and sort behind. So the value is stored, and the range ends that day on an older
  one all the same.
* Finding 1, **WritesIdempotent**: the top-up row carries the moment of the
  sync instead of the day, so a second sync of a day adds a row per reserve.
* **SyncReturns**, **LoadImplemented**: retries and cancellation neither keep
  the lock nor bring a dataset to a caller who was gone before the answer.
* **OnlySelfMovesBreak**, **StatusReachesSubtree**, **MatchesShown**,
  **FileIdempotent** hold of requests one after the other. The first says that the
  paths agree with the tree until a form puts a menu under itself or a menu below
  it, which nothing refuses and which always breaks them, and that nothing else
  does; the third is about states in which they agree. `FileIdempotent` says that
  after one start another one finds everything; the first may well enable again
  what an administrator disabled.
* Finding 2, **UniqueCodePerLevel**: a move does not look for the code under
  the new parent. Finding 3, **CodePathResolves**: a code path of two codes or
  more is followed with the wrong id.
* **TreeKept** is the limit of that: paths, parents and resources stay right
  unless a request wrote by what it had read before another changed
  it, or a form moved a menu into its own subtree; neither is excluded by the
  code. **FreshWritesAreSteps**: overlapping is harmless as long as the reads still
  hold at the write, which is also what makes the single steps of `MenuTree` a
  fair picture.
* **StaleExplained** is the exact list of the ways the enforcer stays behind
  once no load is due: a change committed when its own time, or an older one that
  another handler put over it, had been loaded for already; changes whose load was
  due, or had failed and was to be repeated, when an older time was put over
  theirs; the menu file, which tells nobody; a role whose query failed during the
  load; tables that grant nothing. The second needs two handlers that read the
  clock in one order and write the cache in the other (`role.biz.go:178`).
  **CatchesUp**: a change whose time is still newer than the last load's is loaded,
  through any number of failed loads.
* **EntriesExplained**, **PasswordKept**, **OrphansNeedOverlap**,
  **DoubledNamesNeedOverlap** say, each exactly, which overlap of two requests it
  takes for cached roles to differ from the tables, a password to be put back, a
  deleted user to keep roles, two users to share a name. One after the other,
  requests do none of this, with one exception: `Role.Delete` takes the role from
  its users and leaves their cache entries, so a deleted role stays with them as
  long as the entry, and permits what it did until Casbin's policy is reloaded.
  The last property has a way one does not expect: an edit puts back the name it
  read, after that name was taken twice by others.
* **EndedRefused**: a logged out token is refused but for two cases, a store in
  the memory of a process that ended, and the token's last second, in which the
  token is still valid and its entry gone. **OpenAccepted**: a session ends with
  another one's logout only if both got their tokens in the same second; a change
  of keys keeps sessions as long as the old key is configured.
* **LimitHolds**: requests that race for a first limiter each make one, so a
  user may get a burst per concurrent request. A limiter that the cache forgets
  before it is full again gives the user another burst without any race: with the
  numbers of `configs/dev` (where the limiter is switched off) after 3600 s instead
  of 5000 s, so there are two generations. The limiters in use or not yet full are
  never more than the requests at a time multiplied by the generations, and the
  run reaches that number. A restart starts with none.
* **EntriesKept**, **HarmedWereOverdue**, **CrashesWereStray**: at a shutdown
  nothing the hook took is lost, and requests meet closed storage or a closed
  channel only when they outlive `ShutdownTimeout`. The cleanup can still end in
  a panic, by a send on the closed channel: of a reload of the policy that had
  something left to do at `Release`, which nobody waits for, or of a listener
  that failed and was about to write that. **SignalEnds**: a TERM that was not
  lost ends the process, even with requests that hang for ever.

**Bounds, and why they are enough.** Two requests and the AutoSync call give
every pair of callers; a third would only find the lock taken. Three runs allow
a stranded one, a failed one and a good one after it. Two markets and a demo one
separate "some" from "all" and the two sources. Two faults are enough for a
failure and the failure to record it, and for a crash after either. Four menus
give a chain of three and a place to move it to, and the run goes up to a move
that breaks the paths and no further; in a role's list each menu counts for
itself, so one that may be created, deleted or never made is enough. Three menus
give the shapes needed by the other runs of `MenuTree`, and in `MenuRaces` for
every position of the menu that is read to the one that changes; one code
suffices there, two menus of a level and a code being brought together by moves,
and the resources of one menu at a time, which no other menu's touch.
In `Accounts` every race of the code is between two requests, and a second user
is there to take a name. In `Gateway` tokens live one second, so that issue,
last second, expiry and a second token fall within the bound, and a limiter is
forgotten after two of the four half seconds it takes to fill: two clients in
two generations come to hold four limiters at once. In `Server` a channel of one
place is empty, full and contended; `Flush` has to wait for the one worker, and
the theorems are about any number of them. Two days and a half contain a
midnight on both sides of a full day. In `PolicyReload` three transactions of
two handlers may share a second or not, so that a time can be put over a newer
one and a change lost by that, and two roles are read one after the other with
commits in between. `Symmetry` is declared for the requests and run ids of
`sync_safety`, the processes and names of `accounts`, the sessions and keys of
`gateway`: nothing orders them, and those runs have no liveness property.

`CHECK_DEADLOCK FALSE` is set where the system may stop: in `sync_*` when the
run ids are used up while the process is booting, in `policy` when the clock,
writers and faults have reached their bounds, in `gateway` when the clock has and
its sessions are answered, in `server` because the process ends, in `menu_races`
because a behaviour ends at a stale write. The other runs check deadlock.

**Fairness.** `SyncService!FairSpec` is weak fairness of each caller's own
steps: a goroutine that can run does, the HTTP client has a timeout and a
bounded number of attempts, and a database call answers or fails. There is no
fairness of clients, signals, starts or faults, and a caller in `BootSyncs` need
not begin. `PolicyReload!FairSpec` is weak fairness of the loader (the ticker
fires, queries return) and of `InitFromFile`; writers, the clock, crashes and
the operator who starts the process owe nothing, and faults are finite.
`SyncOverGraph!FairOverGraph` is that of `SyncService`, for the steps the client
is made of: timers fire and `http.Client.Timeout` ends a request.
`Server!FairSpec` is weak fairness of the workers (the log's database answers)
and strong fairness of the main goroutine's steps, because it may compete with
others for the one place in the channel, and the Go runtime serves blocked
senders in the order they came. Requests and `autoLoad` owe nothing: they may
hang in a handler or a query.

## 4. Proofs

TLAPS checks what follows for every value of the constants that the named
assumptions allow; TLC evaluates those assumptions in the runs. The runs of
section 3 show the same formulas on small instances, and that each can fail.

### SyncService and SyncOverGraph

| theorem | statement |
|---|---|
| `TypeCorrect` | `Spec => []TypeOK` |
| `SyncsExcludeEachOther` | `Spec => []MutualExclusion` |
| `VisibleDataIsAudited` | `Spec => []VisibleDataAudited` |
| `SnapshotsAreOwned` | `Spec => []SnapshotsHaveReserves` |
| `OldRowsWereNotRead` | `Spec => []OldRowsUnread` |
| `AnswersAreTrue` | `Spec => []AnswersMatchRuns` |
| `BootFills` | `Spec => []BootFillsDashboard` |
| `StrandsNeedFaults` | `Spec => []StrandedRunsNeedFaults` |
| `NewerDataOnly`, `NoDemoWithoutMode` | `Spec => NeverOlderData`, `Spec => NoSilentDemo` |
| `LedgerIsKept` | `Spec => LedgerKept`: `SyncService` implements `SyncLedger` |
| `GraphClientLoads` | `SpecOverGraph => Spec`, the safety part of `LoadImplemented` |
| `SafeOverGraph` | all of the above of `SpecOverGraph` |
| `RetriesAreBounded` | `SpecOverGraph => []ConversationOK` |

None of the invariants is inductive alone. That a failing sync may mark its run
failed needs that no visible row names that run, hence that its transaction was
rolled back, hence that nobody else uses its run. The first strengthening,
`IInv`, adds to `TypeOK`

* `MutualExclusion`: a caller is inside `Sync` exactly if it holds the lock;
* `RunsRecorded`: a caller past `CreateSyncRun` has a row, running, of the kind
  of source it loaded;
* `RowsAccounted`: before the commit, and on the way to failure without a lost
  acknowledgement, no visible row names the caller's run; after the commit only
  markets of its dataset do.

The second, `DInv`, says what the holder has done so far (`Worked`: no counts in
its run yet, upserts that name the ids the rows have or will get, all or none of
its rows after the transaction, no visible row newer than its dataset) and what
the tables then keep (`RowsSound`). The third, `StrandsCounted`, is `StrandedRuns
+ Owed <= faults`: a context that was cancelled has paid its fault already and
still has its caller's run to strand. The refinement has one lemma per action,
which is an action of the ledger or a stutter. Throughout, a step of one caller
leaves the clauses of every other caller vacuous, since no other is inside
`Sync`. In `ConversationOK` attempts are within `MaxAttempts`, and whoever is
past the first is the holder of the lock.

### SnapshotHistory

| theorem | statement |
|---|---|
| `HistoryTypes` | `Spec => []TypeOK` |
| `DaysEndRight` | `Spec => []LatestOfDayStored` |
| `RangesAreExact` | `Spec => []WindowExact` |

A chain of lemmas follows the data: `AscendingLists` (every member once, in
order), `Page` (of one market the later events come first, and an event is on
the page if no more than `PageSize` are as late), `History` (one snapshot per
market and day, that of the last event), `Filled` (still one per market and day,
and one of today per reserve), `Stores` (so no two meet in one row), `Trimmed`.
The invariant is `HInv`: nothing is stored for a later time (`Past`), every
reserve of the last sync has a row of today (`SyncedToday`), and a row that is not
at midnight is a top-up's, older than every event of that day that The Graph has
shown since (`TopUpsOlder`). How long a day, a
page or a range is does not matter.

### MenuTree and MenuRaces

| theorem | statement |
|---|---|
| `MenuTypes` | `Spec => []TypeOK` |
| `TreeIsKept` | `Spec => PathsAgree /\ OnlySelfMovesBreak` |
| `NothingIsLeft` | `Spec => []NoLeftovers` |
| `StatusIsSpread` | `Spec => StatusReachesSubtree` |
| `FileReadOnce` | `Spec => []FileIdempotent` |
| `SearchesShow` | `Spec => []MatchesShown` |
| `OnlySpoiledTreesFall` | `RacesSpec => []TreeKept` |
| `FreshRequestsAreSteps` | `RacesSpec => FreshWritesAreSteps` |

None of them assumes anything of the forms: `SubtreeMoves` may be `TRUE`. In
`TreeIsKept` the paths agree at the start, and from a state in which they do a step
breaks them if and only if it moves a menu under itself. `MatchesShown` has the
agreement as its condition, and `TreeKept` what breaks it (`RacesInv`: `spoiled`, or
the types, the paths and no leftovers).

To show that a move keeps the paths one
needs that paths are prefixes of each other exactly along the tree, which is
proved from `PathsAgree` by the least depth at which it could fail. `CreateKeeps`,
`UpdateKeeps` and `DeleteKeeps` are about tables, not about the state, because
`InitFromFile` makes a table per item: `BroughtIn` is what holds after each. Two
recursions occur, over the items of the file and over the levels of a tree.
Their functions are defined by `CHOOSE`; that such a function exists, and what it
yields, follows from `LeastNumber`: a least place where it went wrong would have
a predecessor.

### PolicyReload

`PolicyTypes` is `Spec => []TypeOK`, and `NoOtherStalePolicy` is
`Spec => []StaleExplained`. The times in the cache, of the load under way and of the
last one come in any order, since an older one may be put over a newer one. The
invariant `PInv` says that the cache holds a time whenever a transaction has put
one (`TimeStored`), and of a load under way that the rules it has collected are
those the tables grant to the roles it is done with (`LoadTrue`), and of the
enforcer that it is current (`InForce`), each unless another load will follow
(`WillLoad`) or one of the excuses applies (`Content`).

### Accounts

| theorem | statement |
|---|---|
| `AccountsTypes` | `Spec => []TypeOK` |
| `StaleEntriesExplained` | `Spec => EntriesExplained` |
| `PasswordsAreKept` | `Spec => PasswordKept` |
| `OrphansAreOverlaps` | `Spec => OrphansNeedOverlap` |
| `DoubledNamesAreOverlaps` | `Spec => DoubledNamesNeedOverlap` |

`AInv` says what `passed` is for: what a job has read is still so, unless a
commit has passed it (`ReadsKept`); an open transaction holds its row and has
deleted the entry (`Transactions`); a user being created is met by nobody else
but a bearer of a token (`CreatorsAlone`). The action properties are then each
about the few steps that write the piece of state in question (`StepKinds`,
`WhoWrites`).

### Gateway

| theorem | statement |
|---|---|
| `GatewayTypes` | `Spec => []TypeOK` |
| `LogoutRefuses` | `Spec => []EndedRefused` |
| `LogoutEndsOneSession` | `Spec => []OpenAccepted` |
| `RacesAreLimited` | `Spec => []LimitHolds` |

For tokens, `GInv` has that an entry lasts until the last second of its token
and that only destroyed tokens have one. The limiter is a matter of counting
(`Counted`). For every `k`, the limiters not yet refilled by what `k + 1`
forgettings in a row would take (`Mark`) are, while the cache knows none, at
most `k` for each session; while it knows one, they are, with those in use and
those about to be made, at most `k + 1` for each. One that nobody holds has
filled since the cache was last told (`Rested`), so whenever the cache forgets,
the limiters below each mark are those that were below the next lower one
(`Marks`); the last mark is a full limiter (`LastMark`).

### Server

| theorem | statement |
|---|---|
| `ServerTypes` | `Spec => []TypeOK` |
| `NoEntryLost` | `Spec => []EntriesKept` |
| `OnlyOverdueHarms` | `Spec => []HarmedWereOverdue` |
| `OnlyStrayWritersCrash` | `Spec => []CrashesWereStray` |

`SInv` says of every place of the main goroutine what is then open, started or
over: the hook is closed by it only, a worker ends only at an empty closed
channel, the hook's database outlives the workers (`HookSound`); requests are in
progress and storage is open together (`StorageSound`); after `Release` the loader
is idle or astray (`ReloadSound`).

### What the proofs assume

`SyncAssumption`, `NoneAssumption`, `ClientAssumption`, `HistoryAssumption`,
`MenuAssumption`, `FileAssumption`, `RequestAssumption`, `PolicyAssumption`,
`AccountsAssumption`, `GatewayAssumption`, `ServerAssumption`: bounds are
natural numbers, the model value for "nothing" is no row, token or time, named
goroutines are no requests, and, of the code, that `Logger.Hooks` has a worker,
that a day, a page, a burst, the life of a token and the idle time of a limiter
are not empty, that "enabled" is a status, and that the items of a menu file
come after their parents, in the order in which the code walks it, and have
different codes under one parent. No theorem has a hypothesis besides.

Trying to prove found places where the models said less than they meant, all put
right and without effect on the runs: a clock that never runs was allowed in
`PolicyReload`; requests could have been called as the goroutines of `Server`
are; "nothing" could have been a row of `MenuTree` or an entry of `Gateway`.
`MenuTree!CreateInBatch` and the lists of `SnapshotHistory` were folds and
selections by an operator, of which TLAPS knows nothing; they are now a
recursive function and `Ascending`, with the same states in the runs.

### What is only model-checked

* Liveness: `SyncReturns`, `CatchesUp`, `SignalEnds`, and the fairness in
  `LoadImplemented` (its safety part is `GraphClientLoads`). The prover does not
  reason about fairness and `ENABLED`.
* The three findings, which are counterexamples.

## 5. Plan

The modules planned are written, and every invariant and action property of the
passing runs is proved. What could follow:

1. More about the abstractions the proofs rest on: that the one step of
   `SnapshotHistory!Sync` is what `SyncService` does, as a theorem over both.
2. The findings' positive side: `UniqueCodePerLevel` as long as no form moves a
   menu, `WritesIdempotent` for reserves with an event of today on the page.

A composition of `Accounts`, `Gateway` and `PolicyReload` was considered and not
made: a request passes them one after the other and they share no state but the
cache, whose namespaces are apart, so it would check nothing its parts do not.

## 6. Not modelled

* Numbers and text: the decimal arithmetic of `MapDataset` and
  `CalculateMetrics` (big numbers, with unit tests of their own), the sums of
  `Overview`, password hashing and signatures, captchas, the configuration's
  parser, the formatting of log entries, error values, metrics.
* Queries: SQL itself, migrations, the order and paging of lists. A list of
  reserves is paged by a column that syncs rewrite (`repository.go:202`), so a row
  may be on two pages or on none; each page is one query, and nothing in the
  repository promises more. The read-only queries of the log table.
* Rate limits kept in Redis (a script of a library), and their division of
  requests by seconds, which is zero for fewer requests than seconds
  (`ratelimiter.go:139`). A store in memory with an `Expiration` of 0, from which
  nothing is ever forgotten.
* Authentication of the root user, who has no row, no roles and no Casbin check;
  the middlewares that keep no state between requests.
* In `Server`: the steps inside a handler; connections accepted after the
  listener has bound and before it serves; an idle connection that becomes busy
  while `Shutdown` runs; the order in which the files of the log are closed.
  `Logger.Hooks` with no worker (`MaxThread` 0) is excluded by an assumption:
  nobody would empty the channel.
* The commands `stop` and `version`, the daemon mode and its lock file; the
  generated OpenAPI documents; the web dashboard.

The components table of `PROJECT.json` says so part by part.
