--------------------------- MODULE SnapshotHistory ---------------------------
(***************************************************************************)
(* The history of a reserve: how Client.Load turns the answer of The Graph *)
(* into daily snapshots, how ApplyDataset stores them, and what            *)
(* Service.Snapshots returns for a range of days.                          *)
(*                                                                         *)
(* Time is counted in ticks, TicksPerDay to the UTC day.  A value is named *)
(* by the tick at which the market took it: the history item of an event   *)
(* at tick t carries value t, and a reserve's present value is the tick of *)
(* its last event.  A sync is one step here: SyncService shows that syncs  *)
(* do not overlap and that a dataset is stored whole or not at all.        *)
(***************************************************************************)
EXTENDS Integers, Sequences, FiniteSets, SequencesExt

CONSTANTS
  NumMarkets,   \* markets are 1 .. NumMarkets; the number breaks ties in a page
  TicksPerDay,
  MaxClock,     \* bound on the clock
  MaxEvents,    \* bound on the events
  PageSize,     \* history items per answer (first: 1000 in the query)
  Days,         \* number of days of the range asked for (7, 30 or 90)
  NoRow

ASSUME HistoryAssumption ==
  /\ NumMarkets \in Nat /\ TicksPerDay \in Nat \ {0}
  /\ MaxClock \in Nat /\ MaxEvents \in Nat /\ PageSize \in Nat \ {0} /\ Days \in Nat \ {0}
  /\ NoRow \notin Nat

VARIABLES
  clock,     \* the wall clock of the service
  events,    \* what happened on chain: pairs <<market, tick>>
  indexed,   \* events before this tick are known to The Graph
  rows,      \* defi_reserve_snapshots: market -> snapshot_at -> value or NoRow
  synced     \* the reserves of the sync just made, {} after other steps (history)

vars == <<clock, events, indexed, rows, synced>>

Markets == 1 .. NumMarkets
Ticks   == 0 .. MaxClock
Day(t) == t \div TicksPerDay
TruncateToDay(t) == Day(t) * TicksPerDay

Init ==
  /\ clock = 0 /\ events = {} /\ indexed = 0
  /\ rows = [m \in Markets |-> [t \in Ticks |-> NoRow]]
  /\ synced = {}

-----------------------------------------------------------------------------
(* The Graph.                                                              *)

Tick ==
  /\ clock < MaxClock /\ clock' = clock + 1
  /\ synced' = {}
  /\ UNCHANGED <<events, indexed, rows>>

Event(m) ==
  /\ Cardinality(events) < MaxEvents
  /\ events' = events \cup {<<m, clock>>}
  /\ synced' = {}
  /\ UNCHANGED <<clock, indexed, rows>>

(* Indexing catches up with the chain, up to but not with the present tick. *)
Index ==
  /\ indexed' = clock
  /\ synced' = {}
  /\ UNCHANGED <<clock, events, rows>>

Visible == { e \in events : e[2] < indexed }

(* What an ORDER BY over numbers returns of the set S of them.              *)
Ascending(S) ==
  [i \in 1 .. Cardinality(S) |->
     CHOOSE x \in S : Cardinality({ y \in S : y <= x }) = i]

(* reserveParamsHistoryItems(first, orderBy: timestamp, desc); the events   *)
(* of a tick come by their markets.                                         *)
Position(e) == (MaxClock - e[2]) * NumMarkets + e[1]

HistoryPage ==
  LET found == Ascending({ Position(e) : e \in Visible })
      size  == IF Len(found) < PageSize THEN Len(found) ELSE PageSize
  IN  [i \in 1 .. size |-> CHOOSE e \in Visible : Position(e) = found[i]]

PresentUnset(m) == -1   \* mutant: the metric is left out of the snapshot

Present(m) ==
  LET seen == { e[2] : e \in { x \in Visible : x[1] = m } }
  IN  IF seen = {} THEN 0 ELSE CHOOSE t \in seen : \A u \in seen : u <= t

-----------------------------------------------------------------------------
(* The dataset.                                                            *)

Snapshot(m, at, value) == [market |-> m, at |-> at, value |-> value]

SnapshotFromReserve(m, at) == Snapshot(m, at, Present(m))

SameDayKey(s, u) == s.market = u.market /\ Day(s.at) = Day(u.at)

HistoryItem(e) == Snapshot(e[1], TruncateToDay(e[2]), e[2])

MapHistoryKeepsAll(page) ==   \* mutant: seenDays not consulted
  [i \in DOMAIN page |-> HistoryItem(page[i])]

(* MapDataset: truncate to the day, keep the first item of each market-day. *)
MapHistory(page) ==
  LET repeats(i) == \E j \in 1 .. i-1 :
                      SameDayKey(HistoryItem(page[j]), HistoryItem(page[i]))
      kept == Ascending({ i \in DOMAIN page : ~repeats(i) })
  IN  [k \in DOMAIN kept |-> HistoryItem(page[kept[k]])]

(* Load: a reserve without a snapshot today gets one of its present value,  *)
(* stamped with the moment of observation.                                  *)
FillToday(snapshots, reserves, now) ==
  LET lacks(m) == \A i \in DOMAIN snapshots :
                    ~SameDayKey(snapshots[i], Snapshot(m, now, 0))
      filled == Ascending({ m \in reserves : lacks(m) })
  IN  snapshots \o [i \in DOMAIN filled |-> SnapshotFromReserve(filled[i], now)]

(* ApplyDataset: snapshots of reserves of this answer, one after the other, *)
(* each replacing the row of its reserve and snapshot_at.                   *)
StoreSnapshots(table, snapshots, reserves) ==
  [m \in Markets |-> [t \in Ticks |->
     LET writes == { i \in DOMAIN snapshots :
                       m \in reserves /\ snapshots[i].market = m /\ snapshots[i].at = t }
     IN  IF writes = {} THEN table[m][t] ELSE snapshots[Max(writes)].value]]

(* The table after a sync at tick now, when it was `table` before.          *)
Synced(table, reserves, now) ==
  StoreSnapshots(table, FillToday(MapHistory(HistoryPage), reserves, now), reserves)

Sync(reserves) ==
  /\ rows' = Synced(rows, reserves, clock)
  /\ synced' = reserves
  /\ UNCHANGED <<clock, events, indexed>>

Next ==
  \/ Tick
  \/ \E m \in Markets : Event(m)
  \/ Index
  \/ \E reserves \in SUBSET Markets : Sync(reserves)

Spec == Init /\ [][Next]_vars

-----------------------------------------------------------------------------
(* Service.Snapshots, for a reserve m and a range of Days days.            *)

SinceLate == TruncateToDay(clock) - (Days - 2) * TicksPerDay  \* mutant: one day short

Since == TruncateToDay(clock) - (Days - 1) * TicksPerDay

(* snapshot_at of the stored rows of m from since on, oldest first.         *)
Listed(m, since) ==
  Ascending({ t \in Ticks : rows[m][t] # NoRow /\ t >= since })

Trim(items) ==
  IF Len(items) > Days THEN SubSeq(items, Len(items) - Days + 1, Len(items)) ELSE items

Snapshots(m) == Trim(Listed(m, Since))

-----------------------------------------------------------------------------
TypeOK ==
  /\ clock \in Ticks /\ indexed \in Ticks
  /\ events \subseteq Markets \X Ticks
  /\ rows \in [Markets -> [Ticks -> Ticks \cup {NoRow}]]
  /\ synced \subseteq Markets

(* After a sync, the last value of a day that The Graph's page holds is     *)
(* stored at that day's midnight, however many earlier events of the day    *)
(* the page holds (client.go:269-276).  Another row of the day is a top-up  *)
(* of a sync that found no event of the day (client.go:130-146); its value  *)
(* is older, and so nothing the day took is lost.  But it sorts behind: the *)
(* range then ends the day on the older value.  (Tick 0 is also the value   *)
(* of a market without events.)                                             *)
EventsOf(m) == { e[2] : e \in { x \in Visible : x[1] = m } }

LastOfDay(m, t) == t \in EventsOf(m) /\ \A u \in EventsOf(m) : Day(u) = Day(t) => u <= t

InPage(t) == Cardinality({ e \in Visible : e[2] >= t }) <= PageSize

LatestOfDayStored ==
  \A m \in synced, t \in Ticks :
     LastOfDay(m, t) /\ InPage(t) =>
       /\ rows[m][TruncateToDay(t)] = t
       /\ \A u \in Ticks \ {TruncateToDay(t)} :
            rows[m][u] # NoRow /\ Day(u) = Day(t) => rows[m][u] < t \/ t = 0

(* A range of Days days is at most Days points of the last Days days; when *)
(* no day has two rows it is every row of those days; and once a sync has  *)
(* seen the reserve today it ends with one of today's (service.go:166).    *)
RangeDays == Day(clock) - Days + 1 .. Day(clock)

EndsToday(m) == Snapshots(m) # <<>> /\ Day(Last(Snapshots(m))) = Day(clock)

WindowExact ==
  \A m \in Markets :
    LET s      == Snapshots(m)
        stored == { t \in Ticks : rows[m][t] # NoRow /\ Day(t) \in RangeDays }
        shown  == { s[i] : i \in DOMAIN s }
    IN /\ Len(s) <= Days
       /\ shown \subseteq stored
       /\ (\A t, u \in stored : Day(t) = Day(u) => t = u) => shown = stored
       /\ m \in synced => EndsToday(m)

(* "Idempotent writes" (README.md:13): a sync adds no row to a reserve that *)
(* already has a row of today with the value it still has in The Graph.     *)
UpToDate(m) ==
  \E t \in Ticks : Day(t) = Day(clock) /\ rows[m][t] = Present(m)

WritesIdempotent ==
  [][\A m \in synced' : UpToDate(m) =>
       \A t \in Ticks : rows'[m][t] # NoRow => rows[m][t] # NoRow]_vars

=============================================================================
