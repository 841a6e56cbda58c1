---------------------- MODULE SnapshotHistory_proofs ----------------------
(***************************************************************************)
(* Proofs about SnapshotHistory, for any number of markets and events, any *)
(* length of a day, of a page and of a range.  The three invariants follow *)
(* from what each step of a sync makes of its input: the page is the       *)
(* newest events in order, MapHistory keeps the last of each day in it,    *)
(* FillToday leaves no reserve without a snapshot of today, and            *)
(* StoreSnapshots lets no two of them meet.                                *)
(***************************************************************************)
EXTENDS SnapshotHistory, NumberLemmas, SequenceTheorems

-----------------------------------------------------------------------------
(* Numbers, days and lists in order.                                       *)

LEMMA GreatestNumber ==
  ASSUME NEW S \in SUBSET Nat, S # {}, NEW n \in Nat, \A x \in S : x <= n
  PROVE  \E x \in S : \A y \in S : y <= x
<1> DEFINE T == { k \in Nat : \E x \in S : k = n - x }
<1>1. PICK s \in S : TRUE
  OBVIOUS
<1>2. n - s \in T
  BY <1>1
<1>3. T \in SUBSET Nat /\ T # {}
  BY <1>2
<1>4. PICK l \in T : \A k \in T : l <= k
  <2> HIDE DEF T
  <2> QED BY <1>3, LeastNumber
<1>5. PICK x \in S : l = n - x
  BY <1>4
<1>6. ASSUME NEW y \in S
      PROVE  y <= x
  <2>1. n - y \in T
    BY y \in Nat, y <= n
  <2>2. l <= n - y
    BY <1>4, <2>1
  <2> QED BY <1>5, <2>2, x \in Nat, y \in Nat
<1> QED BY <1>6

LEMMA Bounds ==
  /\ NumMarkets \in Nat /\ TicksPerDay \in Nat /\ TicksPerDay > 0
  /\ MaxClock \in Nat /\ PageSize \in Nat /\ PageSize > 0 /\ Days \in Nat /\ Days > 0
  /\ NoRow \notin Ticks
  /\ Markets \subseteq Nat /\ Ticks \subseteq Nat
  /\ IsFiniteSet(Markets) /\ IsFiniteSet(Ticks)
<1>1. IsFiniteSet(Markets) /\ IsFiniteSet(Ticks)
  BY HistoryAssumption, FS_Interval DEF Markets, Ticks
<1> QED BY <1>1, HistoryAssumption DEF Markets, Ticks

LEMMA DayBounds ==
  ASSUME NEW t \in Int
  PROVE  /\ Day(t) \in Int
         /\ Day(t) * TicksPerDay <= t
         /\ t < Day(t) * TicksPerDay + TicksPerDay
BY HistoryAssumption DEF Day

LEMMA DayIs ==
  ASSUME NEW t \in Int, NEW q \in Int,
         q * TicksPerDay <= t, t < q * TicksPerDay + TicksPerDay
  PROVE  Day(t) = q
BY HistoryAssumption DEF Day

LEMMA DaysGrow ==
  ASSUME NEW t \in Int, NEW u \in Int, t <= u
  PROVE  Day(t) <= Day(u)
<1> DEFINE a == Day(t)
           b == Day(u)
           d == TicksPerDay
<1>1. /\ a \in Int /\ b \in Int /\ d \in Nat /\ d > 0
      /\ a * d <= t /\ u < b * d + d
  BY DayBounds, Bounds
<1> HIDE DEF a, b, d
<1>2. SUFFICES ASSUME a > b PROVE FALSE
  BY <1>1 DEF a, b
<1>3. PICK c \in Nat : a = b + 1 + c
  <2>1. a - b - 1 \in Nat /\ a = b + 1 + (a - b - 1)
    BY <1>1, <1>2
  <2> QED BY <2>1
<1>4. a * d = b * d + d + c * d
  BY <1>1, <1>3
<1>5. c * d \in Nat /\ b * d \in Int
  BY <1>1
<1> QED BY <1>1, <1>4, <1>5

(* The start of a day is of that day.                                      *)
LEMMA DayStarts ==
  ASSUME NEW t \in Int
  PROVE  /\ TruncateToDay(t) \in Int
         /\ TruncateToDay(t) <= t
         /\ Day(TruncateToDay(t)) = Day(t)
         /\ t \in Nat => TruncateToDay(t) \in Nat
<1>1. /\ Day(t) \in Int /\ TicksPerDay \in Nat /\ TicksPerDay > 0
      /\ Day(t) * TicksPerDay <= t
  BY DayBounds, Bounds
<1>2. TruncateToDay(t) \in Int /\ TruncateToDay(t) <= t
  BY <1>1 DEF TruncateToDay
<1>3. Day(TruncateToDay(t)) = Day(t)
  <2>1. TruncateToDay(t) = Day(t) * TicksPerDay
    BY DEF TruncateToDay
  <2>2. Day(t) * TicksPerDay \in Int
    BY <1>1
  <2> QED BY <1>1, <1>2, <2>1, <2>2, DayIs
<1>4. ASSUME t \in Nat
      PROVE  TruncateToDay(t) \in Nat
  <2>1. Day(0) = 0
    BY DayIs, Bounds
  <2>2. 0 <= Day(t)
    BY <1>4, <2>1, DaysGrow
  <2>3. Day(t) \in Nat
    BY <1>1, <2>2
  <2> QED BY <1>1, <2>3 DEF TruncateToDay
<1> QED BY <1>2, <1>3, <1>4

(* Ascending lists every member once, each before the larger ones; the     *)
(* place of a member is the number of those up to it.                      *)
UpTo(S, x) == { y \in S : y <= x }

LEMMA UpToGrows ==
  ASSUME NEW S \in SUBSET Nat, IsFiniteSet(S), NEW x \in S, NEW y \in S
  PROVE  /\ Cardinality(UpTo(S, x)) \in 1 .. Cardinality(S)
         /\ x < y => Cardinality(UpTo(S, x)) < Cardinality(UpTo(S, y))
<1>1. /\ IsFiniteSet(UpTo(S, x)) /\ IsFiniteSet(UpTo(S, y))
      /\ Cardinality(UpTo(S, x)) <= Cardinality(S)
  BY FS_Subset DEF UpTo
<1>2. /\ Cardinality(S) \in Nat
      /\ Cardinality(UpTo(S, x)) \in Nat /\ Cardinality(UpTo(S, y)) \in Nat
  BY <1>1, FS_CardinalityType
<1>3. x \in UpTo(S, x)
  BY x \in Nat DEF UpTo
<1>4. Cardinality(UpTo(S, x)) # 0
  BY <1>1, <1>3, FS_EmptySet
<1>5. ASSUME x < y
      PROVE  Cardinality(UpTo(S, x)) < Cardinality(UpTo(S, y))
  <2>1. y \in UpTo(S, y) /\ y \notin UpTo(S, x)
    BY <1>5, x \in Nat, y \in Nat DEF UpTo
  <2>3. ASSUME NEW z \in UpTo(S, x)
        PROVE  z \in UpTo(S, y)
    BY <1>5, z \in Nat, x \in Nat, y \in Nat DEF UpTo
  <2>2. /\ Cardinality(UpTo(S, x)) <= Cardinality(UpTo(S, y))
        /\ Cardinality(UpTo(S, x)) # Cardinality(UpTo(S, y))
    BY <1>1, <2>1, <2>3, FS_Subset
  <2> QED BY <1>2, <2>2
<1> QED BY <1>1, <1>2, <1>4, <1>5

LEMMA AscendingLists ==
  ASSUME NEW S \in SUBSET Nat, IsFiniteSet(S)
  PROVE  LET a == Ascending(S)
             n == Cardinality(S)
         IN  /\ n \in Nat /\ DOMAIN a = 1 .. n /\ Len(a) = n /\ a \in Seq(S)
             /\ \A i \in 1 .. n : a[i] \in S /\ Cardinality(UpTo(S, a[i])) = i
             /\ \A i, j \in 1 .. n : i < j => a[i] < a[j]
             /\ \A x \in S : \E i \in 1 .. n : a[i] = x /\ i = Cardinality(UpTo(S, x))
<1> DEFINE a == Ascending(S)
           n == Cardinality(S)
           place == [x \in S |-> Cardinality(UpTo(S, x))]
<1>1. n \in Nat
  BY FS_CardinalityType
<1>2. place \in Injection(S, 1 .. n)
  <2>1. \A x \in S : place[x] \in 1 .. n
    BY UpToGrows
  <2>2. ASSUME NEW x \in S, NEW y \in S, place[x] = place[y]
        PROVE  x = y
    <3>1. /\ x < y => place[x] < place[y]
          /\ y < x => place[y] < place[x]
      BY UpToGrows
    <3>2. place[x] \in Nat /\ x \in Nat /\ y \in Nat
      BY <2>1
    <3> QED BY <2>2, <3>1, <3>2
  <2> QED BY <2>1, <2>2 DEF Injection, IsInjective
<1>3. IsFiniteSet(1 .. n) /\ Cardinality(1 .. n) = n
  BY <1>1, FS_Interval
<1>4. place \in Surjection(S, 1 .. n)
  <2> HIDE DEF place
  <2> QED BY <1>2, <1>3, FS_Injection
<1>5. \A i \in 1 .. n : \E x \in S : Cardinality(UpTo(S, x)) = i
  BY <1>4 DEF Surjection
<1>6. a = [i \in 1 .. n |-> CHOOSE x \in S : Cardinality(UpTo(S, x)) = i]
  BY DEF Ascending, UpTo
<1> HIDE DEF a, place
<1>7. \A i \in 1 .. n : a[i] \in S /\ Cardinality(UpTo(S, a[i])) = i
  BY <1>5, <1>6
<1>8. DOMAIN a = 1 .. n /\ Len(a) = n /\ a \in Seq(S)
  <2>1. a \in [1 .. n -> S]
    BY <1>6, <1>7
  <2> QED BY <1>1, <2>1
<1>9. ASSUME NEW i \in 1 .. n, NEW j \in 1 .. n, i < j
      PROVE  a[i] < a[j]
  <2>1. a[j] < a[i] => j < i
    BY <1>7, UpToGrows
  <2>2. a[i] # a[j]
    BY <1>7, <1>9
  <2>3. a[i] \in Nat /\ a[j] \in Nat
    BY <1>7
  <2> QED BY <1>1, <1>9, <2>1, <2>2, <2>3
<1>10. ASSUME NEW x \in S
       PROVE  \E i \in 1 .. n : a[i] = x /\ i = Cardinality(UpTo(S, x))
  <2>1. PICK i \in 1 .. n : i = Cardinality(UpTo(S, x))
    BY UpToGrows
  <2>2. a[i] = x
    <3>1. a[i] \in S /\ Cardinality(UpTo(S, a[i])) = i
      BY <1>7, <2>1
    <3>2. /\ x < a[i] => i < i
          /\ a[i] < x => i < i
      BY <2>1, <3>1, UpToGrows
    <3>3. a[i] \in Nat /\ x \in Nat
      BY <3>1
    <3>4. ~(i < i)
      BY <1>1
    <3> QED BY <3>2, <3>3, <3>4
  <2> QED BY <2>1, <2>2
<1> QED BY <1>1, <1>7, <1>8, <1>9, <1>10 DEF a

-----------------------------------------------------------------------------
(* The page.                                                               *)

LEMMA VisibleEvents ==
  ASSUME TypeOK
  PROVE  /\ IsFiniteSet(Visible)
         /\ \A e \in Visible : /\ e \in events /\ e = <<e[1], e[2]>>
                               /\ e[1] \in Markets /\ e[2] \in Ticks
                               /\ e[1] \in Nat /\ e[2] \in Nat
<1>1. Visible \subseteq Markets \X Ticks
  BY DEF TypeOK, Visible
<1>2. IsFiniteSet(Markets \X Ticks)
  BY Bounds, FS_Product
<1> QED BY <1>1, <1>2, Bounds, FS_Subset DEF Visible

(* An event is before another on the page if it is later.                  *)
LEMMA NewestFirst ==
  ASSUME NEW e \in Markets \X Ticks, NEW f \in Markets \X Ticks
  PROVE  /\ Position(e) \in 1 .. (MaxClock + 1) * NumMarkets
         /\ e[2] > f[2] => Position(e) < Position(f)
         /\ e[2] = f[2] => Position(e) - Position(f) = e[1] - f[1]
<1>1. /\ e[1] \in 1 .. NumMarkets /\ f[1] \in 1 .. NumMarkets
      /\ e[2] \in 0 .. MaxClock /\ f[2] \in 0 .. MaxClock
  BY DEF Markets, Ticks
<1>2. PICK n \in Nat : n = NumMarkets
  BY Bounds
<1>3. PICK a \in Nat, b \in Nat : a = MaxClock - e[2] /\ b = MaxClock - f[2]
  BY <1>1, Bounds
<1>4. /\ Position(e) = a * n + e[1] /\ Position(f) = b * n + f[1]
      /\ a * n \in Nat /\ b * n \in Nat
  BY <1>2, <1>3 DEF Position
<1>5. Position(e) \in 1 .. (MaxClock + 1) * NumMarkets
  <2>1. PICK c \in Nat : MaxClock = a + c
    BY <1>1, <1>3, Bounds
  <2>2. (MaxClock + 1) * NumMarkets = a * n + c * n + n /\ c * n \in Nat
    BY <1>2, <2>1
  <2>3. (MaxClock + 1) * NumMarkets \in Nat
    BY Bounds
  <2> QED BY <1>1, <1>2, <1>4, <2>2, <2>3
<1>6. ASSUME e[2] > f[2]
      PROVE  Position(e) < Position(f)
  <2>1. PICK c \in Nat : b = a + 1 + c
    <3>1. b - a - 1 \in Nat /\ b = a + 1 + (b - a - 1)
      BY <1>1, <1>3, <1>6, Bounds
    <3> QED BY <3>1
  <2>2. b * n = a * n + n + c * n /\ c * n \in Nat
    BY <2>1
  <2> QED BY <1>1, <1>2, <1>4, <2>2
<1>7. ASSUME e[2] = f[2]
      PROVE  Position(e) - Position(f) = e[1] - f[1]
  BY <1>1, <1>3, <1>4, <1>7
<1> QED BY <1>5, <1>6, <1>7

LEMMA OnePosition ==
  ASSUME NEW e \in Markets \X Ticks, NEW f \in Markets \X Ticks, Position(e) = Position(f)
  PROVE  e = f
<1>1. /\ e[1] \in Nat /\ f[1] \in Nat /\ e[2] \in Nat /\ f[2] \in Nat
      /\ e = <<e[1], e[2]>> /\ f = <<f[1], f[2]>>
  BY DEF Markets, Ticks
<1>2. Position(e) \in Nat /\ Position(f) \in Nat
  BY NewestFirst
<1>3. e[2] = f[2]
  <2>1. /\ e[2] > f[2] => Position(e) < Position(f)
        /\ f[2] > e[2] => Position(f) < Position(e)
    BY NewestFirst
  <2> QED BY <1>1, <1>2, <2>1
<1>4. Position(e) - Position(f) = e[1] - f[1]
  BY <1>3, NewestFirst
<1> QED BY <1>1, <1>2, <1>3, <1>4

Positions == { Position(e) : e \in Visible }

LEMMA PositionsListed ==
  ASSUME TypeOK
  PROVE  Positions \in SUBSET Nat /\ IsFiniteSet(Positions)
<1>1. Visible \subseteq Markets \X Ticks
  BY DEF TypeOK, Visible
<1>2. \A e \in Visible : Position(e) \in 1 .. (MaxClock + 1) * NumMarkets
  BY <1>1, NewestFirst
<1>3. PICK k \in Nat : k = (MaxClock + 1) * NumMarkets
  BY Bounds
<1>4. Positions \subseteq 1 .. k
  BY <1>2, <1>3 DEF Positions
<1>5. IsFiniteSet(1 .. k)
  BY FS_Interval
<1>6. Positions \in SUBSET Nat /\ Positions \in SUBSET (1 .. k)
  BY <1>4
<1> QED BY <1>5, <1>6, FS_Subset

(* The events as late as e are no fewer than the positions up to its own.  *)
LEMMA NewerOnes ==
  ASSUME TypeOK, NEW e \in Visible
  PROVE  Cardinality(UpTo(Positions, Position(e)))
           <= Cardinality({ x \in Visible : x[2] >= e[2] })
<1> DEFINE p == Position(e)
           V == { x \in Visible : x[2] >= e[2] }
           before == { x \in Visible : Position(x) <= p }
           place == [x \in before |-> Position(x)]
<1>1. Visible \subseteq Markets \X Ticks
  BY DEF TypeOK, Visible
<1>2. before \subseteq V
  <2>1. ASSUME NEW x \in Visible, Position(x) <= p
        PROVE  x[2] >= e[2]
    <3>1. e[2] > x[2] => p < Position(x)
      BY <1>1, NewestFirst
    <3>2. Position(x) \in Nat /\ p \in Nat
      BY PositionsListed DEF Positions
    <3>3. e[2] \in Nat /\ x[2] \in Nat
      BY VisibleEvents
    <3> HIDE DEF p
    <3> QED BY <2>1, <3>1, <3>2, <3>3
  <2> QED BY <2>1
<1>3. IsFiniteSet(V)
  BY VisibleEvents, FS_Subset
<1>4. IsFiniteSet(before) /\ Cardinality(before) <= Cardinality(V)
  <2> HIDE DEF before, V
  <2> QED BY <1>2, <1>3, FS_Subset
<1>5. place \in Surjection(before, UpTo(Positions, p))
  <2>1. \A x \in before : place[x] \in UpTo(Positions, p)
    BY DEF UpTo, Positions
  <2>2. \A y \in UpTo(Positions, p) : \E x \in before : place[x] = y
    BY DEF UpTo, Positions
  <2> QED BY <2>1, <2>2 DEF Surjection
<1>6. IsFiniteSet(UpTo(Positions, p)) /\ Cardinality(UpTo(Positions, p)) <= Cardinality(before)
  <2> HIDE DEF before, place, p
  <2> QED BY <1>4, <1>5, FS_Surjection
<1>7. /\ Cardinality(V) \in Nat /\ Cardinality(before) \in Nat
      /\ Cardinality(UpTo(Positions, p)) \in Nat
  <2> HIDE DEF before, V, p
  <2> QED BY <1>3, <1>4, <1>6, FS_CardinalityType
<1> QED
  <2> HIDE DEF before, V, p
  <2>1. Cardinality(UpTo(Positions, p)) <= Cardinality(V)
    BY <1>4, <1>6, <1>7
  <2> QED BY <2>1 DEF V, p

(* What the page holds: visible events, of a market the later ones first,  *)
(* and every event that fewer than PageSize others are as late as.         *)
LEMMA Page ==
  ASSUME TypeOK
  PROVE  LET p == HistoryPage
         IN  /\ \E n \in Nat : DOMAIN p = 1 .. n
             /\ \A i \in DOMAIN p : p[i] \in Visible
             /\ \A i, j \in DOMAIN p : i < j /\ p[i][1] = p[j][1] => p[i][2] > p[j][2]
             /\ \A e \in Visible : InPage(e[2]) => \E i \in DOMAIN p : p[i] = e
<1> DEFINE found == Ascending(Positions)
           c == Cardinality(Positions)
           size == IF Len(found) < PageSize THEN Len(found) ELSE PageSize
           p == HistoryPage
<1>1. /\ c \in Nat /\ Len(found) = c
      /\ \A i \in 1 .. c : found[i] \in Positions
      /\ \A i, j \in 1 .. c : i < j => found[i] < found[j]
      /\ \A x \in Positions : \E i \in 1 .. c : found[i] = x /\ i = Cardinality(UpTo(Positions, x))
  BY PositionsListed, AscendingLists
<1>2. p = [i \in 1 .. size |-> CHOOSE e \in Visible : Position(e) = found[i]]
  BY DEF HistoryPage, Positions
<1>3. /\ size \in Nat /\ size <= c /\ size <= PageSize
      /\ \A i \in 1 .. c : i <= PageSize => i \in 1 .. size
  BY <1>1, Bounds
<1>4. \A i \in 1 .. c : \E e \in Visible : Position(e) = found[i]
  BY <1>1 DEF Positions
<1> HIDE DEF found, c, size, p
<1>5. DOMAIN p = 1 .. size
  BY <1>2
<1>6. \A i \in 1 .. size : i \in 1 .. c
  BY <1>1, <1>3
<1>7. \A i \in 1 .. size : p[i] \in Visible /\ Position(p[i]) = found[i]
  BY <1>2, <1>4, <1>6
<1>8. Visible \subseteq Markets \X Ticks
  BY DEF TypeOK, Visible
<1>9. ASSUME NEW i \in 1 .. size, NEW j \in 1 .. size, i < j, p[i][1] = p[j][1]
      PROVE  p[i][2] > p[j][2]
  <2>1. Position(p[i]) < Position(p[j])
    BY <1>1, <1>6, <1>7, <1>9
  <2>2. /\ p[i] \in Markets \X Ticks /\ p[j] \in Markets \X Ticks
        /\ p[i][1] \in Nat /\ p[i][2] \in Nat /\ p[j][2] \in Nat
    BY <1>7, <1>8, VisibleEvents
  <2>3. Position(p[i]) \in Nat /\ Position(p[j]) \in Nat
    BY <2>2, NewestFirst
  <2>4. /\ p[j][2] > p[i][2] => Position(p[j]) < Position(p[i])
        /\ p[i][2] = p[j][2] => Position(p[i]) - Position(p[j]) = p[i][1] - p[j][1]
    BY <2>2, NewestFirst
  <2> QED BY <1>9, <2>1, <2>2, <2>3, <2>4
<1>10. ASSUME NEW e \in Visible, InPage(e[2])
       PROVE  \E i \in 1 .. size : p[i] = e
  <2>1. Position(e) \in Positions
    BY DEF Positions
  <2>2. PICK i \in 1 .. c : found[i] = Position(e) /\ i = Cardinality(UpTo(Positions, Position(e)))
    BY <1>1, <2>1
  <2>3. i <= PageSize
    <3>1. /\ i <= Cardinality({ x \in Visible : x[2] >= e[2] })
          /\ Cardinality({ x \in Visible : x[2] >= e[2] }) <= PageSize
      BY <1>10, <2>2, NewerOnes DEF InPage
    <3>2. IsFiniteSet({ x \in Visible : x[2] >= e[2] })
      BY VisibleEvents, FS_Subset
    <3>3. Cardinality({ x \in Visible : x[2] >= e[2] }) \in Nat
      BY <3>2, FS_CardinalityType
    <3> QED BY <3>1, <3>3, <1>1, Bounds
  <2>4. i \in 1 .. size
    BY <1>3, <2>3
  <2>5. p[i] \in Visible /\ Position(p[i]) = Position(e)
    BY <1>7, <2>2, <2>4
  <2>6. p[i] = e
    BY <1>8, <2>5, OnePosition
  <2> QED BY <2>4, <2>6
<1> QED BY <1>3, <1>5, <1>7, <1>9, <1>10 DEF p

-----------------------------------------------------------------------------
(* The dataset.                                                            *)

LEMMA ItemsOfADay ==
  ASSUME TypeOK, NEW e \in Visible, NEW f \in Visible
  PROVE  SameDayKey(HistoryItem(e), HistoryItem(f)) <=> e[1] = f[1] /\ Day(e[2]) = Day(f[2])
<1>1. e[2] \in Int /\ f[2] \in Int
  BY VisibleEvents
<1>2. Day(TruncateToDay(e[2])) = Day(e[2]) /\ Day(TruncateToDay(f[2])) = Day(f[2])
  BY <1>1, DayStarts
<1>3. /\ HistoryItem(e).market = e[1] /\ HistoryItem(e).at = TruncateToDay(e[2])
      /\ HistoryItem(f).market = f[1] /\ HistoryItem(f).at = TruncateToDay(f[2])
  BY DEF HistoryItem, Snapshot
<1> QED BY <1>2, <1>3 DEF SameDayKey

(* MapHistory: one snapshot of each market and day, the last event of a    *)
(* day among them if the page holds it.                                    *)
LEMMA History ==
  ASSUME TypeOK
  PROVE  LET q == MapHistory(HistoryPage)
         IN  /\ \E n \in Nat : DOMAIN q = 1 .. n /\ Len(q) = n
             /\ q \in Seq({ HistoryItem(e) : e \in Visible })
             /\ \A k, l \in DOMAIN q : SameDayKey(q[k], q[l]) => k = l
             /\ \A m \in Markets, t \in Ticks : LastOfDay(m, t) /\ InPage(t) =>
                  \E k \in DOMAIN q : q[k] = Snapshot(m, TruncateToDay(t), t)
<1> DEFINE p == HistoryPage
           q == MapHistory(p)
           firsts == { i \in DOMAIN p :
                         ~ \E j \in 1 .. i - 1 : SameDayKey(HistoryItem(p[j]), HistoryItem(p[i])) }
           kept == Ascending(firsts)
           c == Cardinality(firsts)
<1>1. PICK n \in Nat : DOMAIN p = 1 .. n
  BY Page
<1>2. /\ \A i \in 1 .. n : p[i] \in Visible
      /\ \A i, j \in 1 .. n : i < j /\ p[i][1] = p[j][1] => p[i][2] > p[j][2]
      /\ \A e \in Visible : InPage(e[2]) => \E i \in 1 .. n : p[i] = e
  BY <1>1, Page
<1>3. q = [k \in DOMAIN kept |-> HistoryItem(p[kept[k]])]
  BY DEF MapHistory
<1> HIDE DEF p
<1>4. firsts \in SUBSET Nat /\ firsts \in SUBSET (1 .. n) /\ IsFiniteSet(firsts)
  <2>1. firsts \in SUBSET (1 .. n)
    BY <1>1
  <2>2. firsts \in SUBSET Nat
    BY <2>1
  <2>3. IsFiniteSet(1 .. n)
    BY FS_Interval
  <2> HIDE DEF firsts
  <2> QED BY <2>1, <2>2, <2>3, FS_Subset
<1>5. /\ c \in Nat /\ DOMAIN kept = 1 .. c
      /\ \A k \in 1 .. c : kept[k] \in firsts
      /\ \A k, l \in 1 .. c : k < l => kept[k] < kept[l]
      /\ \A i \in firsts : \E k \in 1 .. c : kept[k] = i
  <2> HIDE DEF firsts
  <2> QED BY <1>4, AscendingLists
<1>6. \A i \in firsts, j \in firsts :
        SameDayKey(HistoryItem(p[j]), HistoryItem(p[i])) => ~(j < i)
  <2>1. ASSUME NEW i \in firsts, NEW j \in firsts, j < i,
               SameDayKey(HistoryItem(p[j]), HistoryItem(p[i]))
        PROVE  FALSE
    <3>1. j \in 1 .. i - 1
      BY <1>4, <2>1
    <3> QED BY <2>1, <3>1
  <2> QED BY <2>1
<1>7. \A i \in 1 .. n :
        (\A j \in 1 .. i - 1 : ~SameDayKey(HistoryItem(p[j]), HistoryItem(p[i]))) => i \in firsts
  BY <1>1
<1> HIDE DEF q, kept, c, firsts
<1>8. DOMAIN q = 1 .. c
  BY <1>3, <1>5
<1>9. \A k \in 1 .. c : q[k] = HistoryItem(p[kept[k]]) /\ kept[k] \in 1 .. n
  BY <1>3, <1>4, <1>5
<1>10. q \in Seq({ HistoryItem(e) : e \in Visible }) /\ Len(q) = c
  <2>1. q \in [1 .. c -> { HistoryItem(e) : e \in Visible }]
    BY <1>2, <1>3, <1>5, <1>9
  <2> QED BY <1>5, <2>1
<1>11. ASSUME NEW k \in 1 .. c, NEW l \in 1 .. c, SameDayKey(q[k], q[l])
       PROVE  k = l
  <2>1. kept[k] \in firsts /\ kept[l] \in firsts
    BY <1>5
  <2>2. /\ SameDayKey(HistoryItem(p[kept[k]]), HistoryItem(p[kept[l]]))
        /\ SameDayKey(HistoryItem(p[kept[l]]), HistoryItem(p[kept[k]]))
    BY <1>9, <1>11 DEF SameDayKey
  <2>3. ~(kept[k] < kept[l]) /\ ~(kept[l] < kept[k])
    BY <1>6, <2>1, <2>2
  <2> QED BY <1>5, <2>3
<1>12. ASSUME NEW m \in Markets, NEW t \in Ticks, LastOfDay(m, t), InPage(t)
       PROVE  \E k \in 1 .. c : q[k] = Snapshot(m, TruncateToDay(t), t)
  <2>1. PICK e \in Visible : e[1] = m /\ e[2] = t
    BY <1>12 DEF LastOfDay, EventsOf
  <2>2. PICK i \in 1 .. n : p[i] = e
    BY <1>2, <1>12, <2>1
  <2>3. ASSUME NEW j \in 1 .. i - 1, SameDayKey(HistoryItem(p[j]), HistoryItem(p[i]))
        PROVE  FALSE
    <3>1. j \in 1 .. n /\ j < i
      BY <2>2
    <3>2. p[j] \in Visible
      BY <1>2, <3>1
    <3>3. p[j][1] = m /\ Day(p[j][2]) = Day(t)
      BY <2>1, <2>2, <2>3, <3>2, ItemsOfADay
    <3>4. p[j][2] > t
      BY <1>2, <2>1, <2>2, <3>1, <3>3
    <3>5. p[j][2] \in EventsOf(m)
      BY <3>2, <3>3 DEF EventsOf
    <3>6. p[j][2] <= t
      BY <1>12, <3>3, <3>5 DEF LastOfDay
    <3>7. p[j][2] \in Nat /\ t \in Nat
      BY <2>1, <3>2, VisibleEvents
    <3> QED BY <3>4, <3>6, <3>7
  <2>4. i \in firsts
    BY <1>7, <2>3
  <2>5. PICK k \in 1 .. c : kept[k] = i
    BY <1>5, <2>4
  <2>6. q[k] = HistoryItem(e)
    BY <1>9, <2>2, <2>5
  <2> QED BY <2>1, <2>6 DEF HistoryItem
<1> QED BY <1>5, <1>8, <1>10, <1>11, <1>12 DEF q, p

LEMMA PresentIsATick ==
  ASSUME TypeOK, NEW m \in Markets
  PROVE  Present(m) \in Ticks /\ (Present(m) < indexed \/ Present(m) = 0)
<1> DEFINE seen == { e[2] : e \in { x \in Visible : x[1] = m } }
<1>1. seen \in SUBSET Ticks
  BY VisibleEvents
<1>2. \A t \in seen : t \in Nat /\ t <= MaxClock /\ t < indexed
  BY <1>1 DEF Ticks, Visible
<1>3. Present(m) = IF seen = {} THEN 0 ELSE CHOOSE t \in seen : \A u \in seen : u <= t
  BY DEF Present
<1> HIDE DEF seen
<1>4. ASSUME seen # {}
      PROVE  \E t \in seen : \A u \in seen : u <= t
  BY <1>2, <1>4, Bounds, GreatestNumber
<1>5. 0 \in Ticks
  BY Bounds DEF Ticks
<1>6. CASE seen = {}
  BY <1>3, <1>5, <1>6
<1>7. CASE seen # {}
  <2>1. Present(m) \in seen
    BY <1>3, <1>4, <1>7
  <2> QED BY <1>1, <1>2, <2>1
<1> QED BY <1>6, <1>7

(* FillToday: still one snapshot of each market and day, and one of today  *)
(* of every reserve.                                                       *)
LEMMA Filled ==
  ASSUME TypeOK, NEW reserves \in SUBSET Markets, NEW now \in Ticks
  PROVE  LET q == MapHistory(HistoryPage)
             s == FillToday(q, reserves, now)
         IN  /\ \E n \in Nat : DOMAIN s = 1 .. n
             /\ \A k \in DOMAIN s : \/ \E e \in Visible : s[k] = HistoryItem(e)
                                    \/ \E m \in reserves : s[k] = SnapshotFromReserve(m, now)
             /\ \A k, l \in DOMAIN s : SameDayKey(s[k], s[l]) => k = l
             /\ \A k \in DOMAIN q : k \in DOMAIN s /\ s[k] = q[k]
             /\ \A m \in reserves : \E k \in DOMAIN s :
                  s[k].market = m /\ Day(s[k].at) = Day(now)
<1> DEFINE q == MapHistory(HistoryPage)
           lacking == { m \in reserves :
                          \A i \in DOMAIN q : ~SameDayKey(q[i], Snapshot(m, now, 0)) }
           filled == Ascending(lacking)
           top == [i \in DOMAIN filled |-> SnapshotFromReserve(filled[i], now)]
           c == Cardinality(lacking)
           s == FillToday(q, reserves, now)
<1>1. PICK n \in Nat : DOMAIN q = 1 .. n /\ Len(q) = n
  BY History
<1>2. /\ \A k \in 1 .. n : \E e \in Visible : q[k] = HistoryItem(e)
      /\ \A k, l \in 1 .. n : SameDayKey(q[k], q[l]) => k = l
  <2>1. q \in Seq({ HistoryItem(e) : e \in Visible })
    BY History
  <2>2. \A k, l \in DOMAIN q : SameDayKey(q[k], q[l]) => k = l
    BY History
  <2> HIDE DEF q
  <2> QED BY <1>1, <2>1, <2>2
<1>3. s = q \o top
  BY DEF FillToday
<1> HIDE DEF q
<1>4. lacking \in SUBSET Nat /\ IsFiniteSet(lacking)
  <2>1. lacking \in SUBSET Markets
    OBVIOUS
  <2> HIDE DEF lacking
  <2> QED BY <2>1, Bounds, FS_Subset
<1>5. /\ c \in Nat /\ DOMAIN filled = 1 .. c
      /\ \A k \in 1 .. c : filled[k] \in lacking
      /\ \A k, l \in 1 .. c : k < l => filled[k] < filled[l]
      /\ \A m \in lacking : \E k \in 1 .. c : filled[k] = m
  <2> HIDE DEF lacking
  <2> QED BY <1>4, AscendingLists
<1>6. \A m \in lacking : m \in reserves /\ \A i \in 1 .. n : ~SameDayKey(q[i], Snapshot(m, now, 0))
  BY <1>1
<1>7. \A m \in reserves : m \notin lacking =>
        \E i \in 1 .. n : SameDayKey(q[i], Snapshot(m, now, 0))
  BY <1>1
<1> HIDE DEF lacking, filled, c
<1>8. DOMAIN top = 1 .. c /\ Len(top) = c
      /\ \A k \in 1 .. c : top[k] = SnapshotFromReserve(filled[k], now)
  BY <1>5
<1>9. /\ DOMAIN s = 1 .. n + c
      /\ \A k \in 1 .. n : s[k] = q[k]
      /\ \A k \in 1 .. n + c : k > n => s[k] = top[k - n]
  <2> DEFINE X == { q[k] : k \in 1 .. n } \cup { top[k] : k \in 1 .. c }
  <2> HIDE DEF top, s
  <2>1. q \in Seq(X)
    <3>1. q \in Seq({ HistoryItem(e) : e \in Visible })
      BY History DEF q
    <3>2. q = [k \in 1 .. n |-> q[k]]
      BY <1>1, <3>1
    <3>3. \A k \in 1 .. n : q[k] \in X
      OBVIOUS
    <3> HIDE DEF X
    <3> QED BY <3>2, <3>3
  <2>2. top \in Seq(X)
    <3>1. top = [k \in 1 .. c |-> top[k]]
      BY <1>8 DEF top
    <3>2. \A k \in 1 .. c : top[k] \in X
      OBVIOUS
    <3> HIDE DEF X
    <3> QED BY <1>5, <3>1, <3>2
  <2>3. /\ s \in Seq(X) /\ Len(s) = n + c
        /\ \A k \in 1 .. n + c : s[k] = IF k <= n THEN q[k] ELSE top[k - n]
    <3> HIDE DEF X
    <3> QED BY <1>1, <1>3, <1>8, <2>1, <2>2, ConcatProperties
  <2>4. DOMAIN s = 1 .. n + c
    <3> HIDE DEF X
    <3> QED BY <2>3
  <2> QED BY <1>5, <2>3, <2>4
<1> HIDE DEF top, s
<1>10. ASSUME NEW k \in 1 .. n + c, k > n
       PROVE  /\ k - n \in 1 .. c /\ filled[k - n] \in lacking
              /\ s[k] = SnapshotFromReserve(filled[k - n], now)
              /\ s[k].market = filled[k - n] /\ s[k].at = now
  <2>1. k - n \in 1 .. c
    BY <1>5, <1>10
  <2>2. s[k] = SnapshotFromReserve(filled[k - n], now)
    BY <1>8, <1>9, <1>10, <2>1
  <2> QED BY <1>5, <2>1, <2>2 DEF SnapshotFromReserve, Snapshot
<1>11. \A k \in 1 .. n + c : k <= n => k \in 1 .. n
  BY <1>5
<1>12. ASSUME NEW k \in 1 .. n + c, NEW l \in 1 .. n + c, SameDayKey(s[k], s[l])
       PROVE  k = l
  <2>1. CASE k <= n /\ l <= n
    BY <1>2, <1>9, <1>11, <1>12, <2>1
  <2>2. ASSUME NEW i \in 1 .. n, NEW j \in 1 .. n + c, j > n
        PROVE  ~SameDayKey(s[i], s[j])
    <3>1. s[i] = q[i] /\ s[j].market = filled[j - n] /\ s[j].at = now /\ filled[j - n] \in lacking
      BY <1>9, <1>10, <2>2
    <3>2. ~SameDayKey(q[i], Snapshot(filled[j - n], now, 0))
      BY <1>6, <3>1
    <3> QED BY <3>1, <3>2 DEF SameDayKey, Snapshot
  <2>3. CASE k <= n /\ l > n
    BY <1>11, <1>12, <2>2, <2>3
  <2>4. CASE k > n /\ l <= n
    <3>1. SameDayKey(s[l], s[k])
      BY <1>12 DEF SameDayKey
    <3> QED BY <1>11, <2>2, <2>4, <3>1
  <2>5. CASE k > n /\ l > n
    <3>1. /\ k - n \in 1 .. c /\ l - n \in 1 .. c
          /\ s[k].market = filled[k - n] /\ s[l].market = filled[l - n]
      BY <1>10, <2>5
    <3>2. filled[k - n] = filled[l - n]
      BY <1>12, <3>1 DEF SameDayKey
    <3>3. filled[k - n] \in Nat
      BY <1>4, <1>5, <3>1
    <3>4. ~(k - n < l - n) /\ ~(l - n < k - n)
      BY <1>5, <3>1, <3>2, <3>3
    <3> QED BY <1>5, <3>1, <3>4
  <2> QED BY <1>5, <2>1, <2>3, <2>4, <2>5
<1>13. ASSUME NEW m \in reserves
       PROVE  \E k \in 1 .. n + c : s[k].market = m /\ Day(s[k].at) = Day(now)
  <2>1. CASE m \in lacking
    <3>1. PICK i \in 1 .. c : filled[i] = m
      BY <1>5, <2>1
    <3>2. n + i \in 1 .. n + c /\ n + i > n /\ (n + i) - n = i
      BY <1>5
    <3>3. s[n + i].market = m /\ s[n + i].at = now
      BY <1>10, <3>1, <3>2
    <3> QED BY <3>2, <3>3
  <2>2. CASE m \notin lacking
    <3>1. PICK i \in 1 .. n : SameDayKey(q[i], Snapshot(m, now, 0))
      BY <1>7, <2>2
    <3>2. i \in 1 .. n + c /\ s[i] = q[i]
      BY <1>5, <1>9
    <3> QED BY <3>1, <3>2 DEF SameDayKey, Snapshot
  <2> QED BY <2>1, <2>2
<1>14. \A k \in 1 .. n + c : \/ \E e \in Visible : s[k] = HistoryItem(e)
                            \/ \E m \in reserves : s[k] = SnapshotFromReserve(m, now)
  <2>1. ASSUME NEW k \in 1 .. n + c, k <= n
        PROVE  \E e \in Visible : s[k] = HistoryItem(e)
    BY <1>2, <1>9, <1>11, <2>1
  <2>2. ASSUME NEW k \in 1 .. n + c, k > n
        PROVE  \E m \in reserves : s[k] = SnapshotFromReserve(m, now)
    BY <1>6, <1>10, <2>2
  <2> QED BY <1>5, <2>1, <2>2
<1>15. \A k \in 1 .. n : k \in 1 .. n + c /\ s[k] = q[k]
  BY <1>5, <1>9
<1>16. n + c \in Nat
  BY <1>5
<1> QED BY <1>1, <1>9, <1>12, <1>13, <1>14, <1>15, <1>16 DEF s, q

-----------------------------------------------------------------------------
(* Storing the dataset.                                                    *)

(* What a sync stores now.                                                 *)
(* With an event the page holds the last one of its day.                   *)
LEMMA LastIsInPage ==
  ASSUME TypeOK, NEW m \in Markets, NEW d, NEW t \in EventsOf(m), Day(t) = d, InPage(t)
  PROVE  \E w \in EventsOf(m) : LastOfDay(m, w) /\ Day(w) = d /\ InPage(w)
                               /\ w \in Ticks /\ w \in Int
<1> DEFINE D == { x \in EventsOf(m) : Day(x) = d }
<1>1. EventsOf(m) \in SUBSET Ticks
  BY VisibleEvents DEF EventsOf
<1>2. D \in SUBSET Nat /\ t \in D /\ \A x \in D : x <= MaxClock
  BY <1>1, Bounds DEF Ticks
<1>3. PICK w \in D : \A y \in D : y <= w
  <2> HIDE DEF D
  <2> QED BY <1>2, Bounds, GreatestNumber
<1>4. t <= w /\ LastOfDay(m, w) /\ Day(w) = d
  BY <1>2, <1>3 DEF LastOfDay
<1>5. InPage(w)
  <2> DEFINE V == { e \in Visible : e[2] >= t }
             W == { e \in Visible : e[2] >= w }
  <2>1. W \in SUBSET V /\ V \in SUBSET Visible
    <3>1. \A e \in Visible : e[2] >= w => e[2] >= t
      <4>1. t \in Nat /\ w \in Nat
        BY <1>2
      <4> QED BY <1>4, <4>1, VisibleEvents
    <3> QED BY <3>1
  <2>2. Cardinality(V) <= PageSize
    BY DEF InPage
  <2> HIDE DEF V, W
  <2>3. IsFiniteSet(V) /\ IsFiniteSet(W) /\ Cardinality(W) <= Cardinality(V)
    BY <2>1, VisibleEvents, FS_Subset
  <2>4. Cardinality(V) \in Nat /\ Cardinality(W) \in Nat
    BY <2>3, FS_CardinalityType
  <2>5. Cardinality(W) <= PageSize
    BY <2>2, <2>3, <2>4, Bounds
  <2> QED BY <2>5 DEF InPage, W
<1>6. w \in Ticks /\ w \in Int
  BY <1>1, <1>2
<1> QED BY <1>4, <1>5, <1>6

Dataset(reserves) == FillToday(MapHistory(HistoryPage), reserves, clock)

LEMMA DatasetFilled ==
  ASSUME TypeOK, NEW reserves \in SUBSET Markets
  PROVE  LET q == MapHistory(HistoryPage)
             s == Dataset(reserves)
         IN  /\ \E n \in Nat : DOMAIN s = 1 .. n
             /\ \A k \in DOMAIN s : \/ \E e \in Visible : s[k] = HistoryItem(e)
                                    \/ \E m \in reserves : s[k] = SnapshotFromReserve(m, clock)
             /\ \A k, l \in DOMAIN s : SameDayKey(s[k], s[l]) => k = l
             /\ \A k \in DOMAIN q : k \in DOMAIN s /\ s[k] = q[k]
             /\ \A m \in reserves : \E k \in DOMAIN s :
                  s[k].market = m /\ Day(s[k].at) = Day(clock)
<1>1. clock \in Ticks
  BY DEF TypeOK
<1> QED BY <1>1, Filled DEF Dataset

Into(s, m, t) == s.market = m /\ s.at = t

LEMMA Values ==
  ASSUME TypeOK, NEW reserves \in SUBSET Markets, NEW k \in DOMAIN Dataset(reserves)
  PROVE  LET s == Dataset(reserves)
         IN  /\ s[k].value \in Ticks
             /\ \/ \E e \in Visible : s[k].at = TruncateToDay(e[2])
                \/ s[k].at = clock
<1> DEFINE s == Dataset(reserves)
<1>1. \/ \E e \in Visible : s[k] = HistoryItem(e)
      \/ \E m \in reserves : s[k] = SnapshotFromReserve(m, clock)
  BY DatasetFilled
<1> HIDE DEF s
<1>2. CASE \E e \in Visible : s[k] = HistoryItem(e)
  <2>1. PICK e \in Visible : s[k] = HistoryItem(e)
    BY <1>2
  <2>2. s[k].value = e[2] /\ s[k].at = TruncateToDay(e[2]) /\ e[2] \in Ticks
    BY <2>1, VisibleEvents DEF HistoryItem, Snapshot
  <2> QED BY <2>2 DEF s
<1>3. CASE \E m \in reserves : s[k] = SnapshotFromReserve(m, clock)
  <2>1. PICK m \in reserves : s[k] = SnapshotFromReserve(m, clock)
    BY <1>3
  <2>2. s[k].value = Present(m) /\ s[k].at = clock
    BY <2>1 DEF SnapshotFromReserve, Snapshot
  <2> QED BY <2>2, PresentIsATick DEF s
<1> QED BY <1>1, <1>2, <1>3

(* No two snapshots of a dataset go into the same row, so each row is what *)
(* it was or what its snapshot says.                                       *)
LEMMA Stores ==
  ASSUME TypeOK, NEW reserves \in SUBSET Markets, NEW m \in Markets, NEW t \in Ticks
  PROVE  LET s == Dataset(reserves)
             row == Synced(rows, reserves, clock)[m][t]
         IN  /\ \/ row = rows[m][t]
                \/ \E k \in DOMAIN s : m \in reserves /\ Into(s[k], m, t) /\ row = s[k].value
             /\ \A k \in DOMAIN s : m \in reserves /\ Into(s[k], m, t) => row = s[k].value
<1> DEFINE s == Dataset(reserves)
           row == Synced(rows, reserves, clock)[m][t]
           writes == { i \in DOMAIN s : m \in reserves /\ s[i].market = m /\ s[i].at = t }
<1>1. row = IF writes = {} THEN rows[m][t] ELSE s[Max(writes)].value
  BY DEF Synced, StoreSnapshots, Dataset
<1>2. ASSUME NEW k \in DOMAIN s, NEW l \in DOMAIN s, Into(s[k], m, t), Into(s[l], m, t)
      PROVE  k = l
  <2>1. SameDayKey(s[k], s[l])
    BY <1>2 DEF SameDayKey, Into
  <2> QED BY <2>1, DatasetFilled
<1>3. \E n \in Nat : DOMAIN s = 1 .. n
  BY DatasetFilled
<1>4. writes = { i \in DOMAIN s : m \in reserves /\ Into(s[i], m, t) }
  BY DEF Into
<1> HIDE DEF s, row, writes
<1>5. ASSUME NEW k \in writes
      PROVE  Max(writes) = k
  <2>1. writes = {k}
    BY <1>2, <1>4, <1>5
  <2>2. k \in Int
    BY <1>3, <1>4, <1>5
  <2> QED BY <2>1, <2>2 DEF Max
<1>6. ASSUME NEW k \in DOMAIN s, m \in reserves, Into(s[k], m, t)
      PROVE  row = s[k].value
  <2>1. k \in writes
    BY <1>4, <1>6
  <2> QED BY <1>1, <1>5, <2>1
<1>7. CASE writes = {}
  BY <1>1, <1>6, <1>7 DEF s, row
<1>8. CASE writes # {}
  <2>1. PICK k \in writes : TRUE
    BY <1>8
  <2>2. k \in DOMAIN s /\ m \in reserves /\ Into(s[k], m, t)
    BY <1>4, <2>1
  <2>3. row = s[k].value
    BY <1>6, <2>2
  <2> QED BY <1>6, <2>2, <2>3 DEF s, row
<1> QED BY <1>7, <1>8

-----------------------------------------------------------------------------
(* The invariant.                                                          *)

(* Nothing is known before it happened, and nothing stored for later.      *)
Past ==
  /\ indexed <= clock
  /\ \A m \in Markets, t \in Ticks : rows[m][t] # NoRow => t <= clock

(* What a sync that found no event of a day has stored for that day: a     *)
(* value The Graph then had, older than every event of that day that The   *)
(* Graph has shown since.                                                  *)
TopUpsOlder ==
  \A m \in Markets, u \in Ticks : rows[m][u] # NoRow /\ TruncateToDay(u) # u =>
     /\ rows[m][u] < indexed \/ rows[m][u] = 0
     /\ \A t \in EventsOf(m) : Day(t) = Day(u) /\ InPage(t) => rows[m][u] < t \/ t = 0

(* A sync leaves every reserve it saw a row of today.                      *)
SyncedToday ==
  \A m \in synced : \E t \in Ticks : rows[m][t] # NoRow /\ Day(t) = Day(clock)

HInv == TypeOK /\ Past /\ TopUpsOlder /\ SyncedToday /\ LatestOfDayStored

LEMMA InitHistory == Init => HInv
<1> SUFFICES ASSUME Init PROVE HInv
  OBVIOUS
<1>1. 0 \in Ticks
  BY Bounds DEF Ticks
<1>2. TypeOK /\ Past /\ TopUpsOlder
  BY <1>1 DEF Init, TypeOK, Past, TopUpsOlder
<1>3. SyncedToday /\ LatestOfDayStored
  BY DEF Init, SyncedToday, LatestOfDayStored
<1> QED BY <1>2, <1>3 DEF HInv

(* The Graph forgets no event, and learns only later ones.                 *)
LEMMA GraphLearns ==
  ASSUME TypeOK, Past, TypeOK', events \subseteq events', indexed <= indexed',
         \A e \in events' \ events : e[2] >= indexed /\ indexed' = indexed
  PROVE  /\ Visible \subseteq Visible'
         /\ \A e \in Visible' \ Visible : e[2] >= indexed
         /\ \A t : InPage(t)' => InPage(t)
<1>1. /\ indexed \in Nat /\ indexed' \in Nat
      /\ \A e \in events' : e[2] \in Nat
  BY Bounds DEF TypeOK
<1>2. Visible \subseteq Visible'
  BY <1>1 DEF Visible
<1>3. ASSUME NEW e \in Visible', e \notin Visible
      PROVE  e[2] >= indexed
  BY <1>1, <1>3 DEF Visible
<1>4. ASSUME NEW t, InPage(t)'
      PROVE  InPage(t)
  <2> DEFINE V == { e \in Visible : e[2] >= t }
             W == { e \in Visible' : e[2] >= t }
  <2>1. Visible' \in SUBSET (Markets \X Ticks)
    BY DEF TypeOK, Visible
  <2>2. IsFiniteSet(Markets \X Ticks)
    BY Bounds, FS_Product
  <2>3. IsFiniteSet(Visible')
    BY <2>1, <2>2, FS_Subset
  <2>4. W \in SUBSET Visible' /\ V \in SUBSET W
    BY <1>2
  <2>5. Cardinality(W) <= PageSize
    BY <1>4 DEF InPage
  <2> HIDE DEF V, W
  <2>6. IsFiniteSet(W) /\ IsFiniteSet(V) /\ Cardinality(V) <= Cardinality(W)
    BY <2>3, <2>4, FS_Subset
  <2>7. Cardinality(V) \in Nat /\ Cardinality(W) \in Nat
    BY <2>6, FS_CardinalityType
  <2>8. Cardinality(V) <= PageSize
    BY <2>5, <2>6, <2>7, Bounds
  <2> QED BY <2>8 DEF InPage, V
<1> QED BY <1>2, <1>3, <1>4

LEMMA LearningKeepsTopUps ==
  ASSUME TypeOK, Past, TopUpsOlder, TypeOK', rows' = rows,
         events \subseteq events', indexed <= indexed',
         \A e \in events' \ events : e[2] >= indexed /\ indexed' = indexed
  PROVE  TopUpsOlder'
<1>1. /\ Visible \subseteq Visible'
      /\ \A e \in Visible' \ Visible : e[2] >= indexed
      /\ \A t : InPage(t)' => InPage(t)
  BY GraphLearns
<1>2. SUFFICES ASSUME NEW m \in Markets, NEW u \in Ticks,
                      rows[m][u] # NoRow, TruncateToDay(u) # u
               PROVE  /\ rows[m][u] < indexed' \/ rows[m][u] = 0
                      /\ \A t \in EventsOf(m)' : Day(t) = Day(u) /\ InPage(t)' =>
                           rows[m][u] < t \/ t = 0
  BY DEF TopUpsOlder, TruncateToDay, Day
<1>3. rows[m][u] \in Nat /\ indexed \in Nat /\ indexed' \in Nat
  <2>1. rows[m][u] \in Ticks
    BY <1>2 DEF TypeOK
  <2>2. indexed \in Ticks /\ indexed' \in Ticks
    BY DEF TypeOK, Ticks
  <2> QED BY <2>1, <2>2, Bounds
<1>4. rows[m][u] < indexed \/ rows[m][u] = 0
  BY <1>2 DEF TopUpsOlder
<1>5. ASSUME NEW t \in EventsOf(m)', Day(t) = Day(u), InPage(t)'
      PROVE  rows[m][u] < t \/ t = 0
  <2>1. PICK e \in Visible' : e[1] = m /\ e[2] = t
    BY <1>5 DEF EventsOf
  <2>2. CASE e \in Visible
    <3>1. t \in EventsOf(m) /\ InPage(t)
      BY <1>1, <1>5, <2>1, <2>2 DEF EventsOf
    <3> QED BY <1>2, <1>5, <3>1 DEF TopUpsOlder
  <2>3. CASE e \notin Visible
    <3>1. t \in Nat /\ t >= indexed
      <4>1. e[2] >= indexed
        BY <1>1, <2>1, <2>3
      <4>2. e[2] \in Nat
        BY <2>1, Bounds DEF Visible, TypeOK
      <4> QED BY <2>1, <4>1, <4>2
    <3> QED BY <1>3, <1>4, <3>1
  <2> QED BY <2>2, <2>3
<1> QED BY <1>3, <1>4, <1>5

(* Steps that store nothing.                                               *)
LEMMA OthersKeep ==
  ASSUME HInv, Tick \/ (\E m \in Markets : Event(m)) \/ Index
  PROVE  HInv'
<1>1. clock \in Nat /\ indexed \in Nat /\ clock <= MaxClock
  BY Bounds DEF HInv, TypeOK, Ticks
<1>2. rows' = rows /\ synced' = {}
  BY DEF Tick, Event, Index
<1>3. SyncedToday' /\ LatestOfDayStored'
  BY <1>2 DEF SyncedToday, LatestOfDayStored
<1>4. /\ clock' \in Ticks /\ clock <= clock' /\ clock' \in Nat
      /\ indexed' \in Ticks /\ indexed' <= clock'
  BY <1>1, Bounds DEF HInv, TypeOK, Past, Ticks, Tick, Event, Index
<1>5. events' \subseteq Markets \X Ticks
  BY DEF HInv, TypeOK, Tick, Event, Index
<1>6. TypeOK'
  BY <1>2, <1>4, <1>5 DEF HInv, TypeOK
<1>7. Past'
  <2>1. ASSUME NEW m \in Markets, NEW t \in Ticks, rows[m][t] # NoRow
        PROVE  t <= clock'
    <3>1. t <= clock /\ t \in Nat
      BY <2>1, Bounds DEF HInv, Past
    <3> QED BY <1>1, <1>4, <3>1
  <2> QED BY <1>2, <1>4, <2>1 DEF Past
<1>8. TopUpsOlder'
  <2>1. events \subseteq events' /\ indexed <= indexed'
    BY <1>1 DEF HInv, Past, Tick, Event, Index
  <2>2. ASSUME NEW e \in events', e \notin events
        PROVE  e[2] >= indexed /\ indexed' = indexed
    <3>1. CASE \E m \in Markets : Event(m)
      <4>1. e[2] = clock /\ indexed' = indexed
        BY <2>2, <3>1 DEF Event
      <4> QED BY <1>1, <4>1 DEF HInv, Past
    <3>2. CASE Tick \/ Index
      BY <2>2, <3>2 DEF Tick, Index
    <3> QED BY <3>1, <3>2
  <2> QED BY <1>2, <1>6, <2>1, <2>2, LearningKeepsTopUps DEF HInv
<1> QED BY <1>3, <1>6, <1>7, <1>8 DEF HInv

LEMMA SyncKeeps ==
  ASSUME HInv, NEW reserves \in SUBSET Markets, Sync(reserves)
  PROVE  HInv'
<1> DEFINE s == Dataset(reserves)
<1>1. TypeOK /\ Past
  BY DEF HInv
<1>2. /\ rows' = Synced(rows, reserves, clock) /\ synced' = reserves
      /\ clock' = clock /\ events' = events /\ indexed' = indexed
  BY DEF Sync
<1>3. /\ clock \in Ticks /\ clock \in Nat /\ indexed \in Nat /\ indexed <= clock /\ clock <= MaxClock
  BY <1>1, Bounds DEF TypeOK, Past, Ticks
<1>4. \A m \in Markets, t \in Ticks :
        /\ \/ rows'[m][t] = rows[m][t]
           \/ \E k \in DOMAIN s : m \in reserves /\ Into(s[k], m, t) /\ rows'[m][t] = s[k].value
        /\ \A k \in DOMAIN s : m \in reserves /\ Into(s[k], m, t) => rows'[m][t] = s[k].value
  BY <1>1, <1>2, Stores
<1>5. rows' = [m \in Markets |-> [t \in Ticks |-> rows'[m][t]]]
  BY <1>2 DEF Synced, StoreSnapshots
<1>6. \A k \in DOMAIN s : s[k].value \in Ticks
  BY <1>1, Values
<1>7. ASSUME NEW k \in DOMAIN s
      PROVE  s[k].at \in Int /\ s[k].at \in Nat /\ s[k].at <= clock /\ s[k].at \in Ticks
  <2>1. CASE s[k].at = clock
    BY <1>3, <2>1
  <2>2. ASSUME NEW e \in Visible, s[k].at = TruncateToDay(e[2])
        PROVE  s[k].at \in Nat /\ s[k].at <= clock
    <3>1. e[2] \in Nat /\ e[2] < indexed
      BY <1>1, VisibleEvents DEF Visible
    <3>2. TruncateToDay(e[2]) \in Nat /\ TruncateToDay(e[2]) <= e[2]
      BY <3>1, DayStarts
    <3> HIDE DEF s
    <3> QED BY <1>3, <2>2, <3>1, <3>2
  <2>3. s[k].at \in Nat /\ s[k].at <= clock
    BY <1>1, <1>3, <2>1, <2>2, Values
  <2> HIDE DEF s
  <2> QED BY <1>3, <2>3, Bounds DEF Ticks
<1>8. DOMAIN s = DOMAIN Dataset(reserves)
  OBVIOUS
<1> HIDE DEF s
<1>9. TypeOK'
  <2>1. \A m \in Markets, t \in Ticks : rows'[m][t] \in Ticks \cup {NoRow}
    BY <1>1, <1>4, <1>6 DEF TypeOK
  <2>2. rows' \in [Markets -> [Ticks -> Ticks \cup {NoRow}]]
    BY <1>5, <2>1
  <2> QED BY <1>1, <1>2, <2>2 DEF TypeOK
<1>10. Past'
  <2>1. ASSUME NEW m \in Markets, NEW t \in Ticks, rows'[m][t] # NoRow
        PROVE  t <= clock
    <3>1. CASE rows'[m][t] = rows[m][t]
      BY <1>1, <2>1, <3>1 DEF Past
    <3>2. CASE \E k \in DOMAIN s : Into(s[k], m, t)
      BY <1>7, <3>2 DEF Into
    <3> QED BY <1>4, <3>1, <3>2
  <2> QED BY <1>2, <1>3, <2>1 DEF Past
<1>11. SyncedToday'
  <2>1. ASSUME NEW m \in reserves
        PROVE  \E t \in Ticks : rows'[m][t] # NoRow /\ Day(t) = Day(clock)
    <3>1. PICK k \in DOMAIN s : s[k].market = m /\ Day(s[k].at) = Day(clock)
      BY <1>1, DatasetFilled DEF s
    <3>2. s[k].at \in Ticks /\ Into(s[k], m, s[k].at)
      BY <1>7, <3>1 DEF Into
    <3>3. rows'[m][s[k].at] = s[k].value
      BY <1>4, <3>2
    <3>4. rows'[m][s[k].at] # NoRow
      BY <1>6, <3>3, Bounds
    <3> QED BY <3>1, <3>2, <3>4
  <2>2. \A t : Day(t)' = Day(t)
    BY DEF Day
  <2> QED BY <1>2, <2>1 DEF SyncedToday, Day
<1>12. \A m \in reserves, u \in Ticks :
         TruncateToDay(u) # u /\ rows'[m][u] # rows[m][u] =>
           /\ rows'[m][u] = Present(m) /\ Day(u) = Day(clock)
           /\ \A t \in EventsOf(m) : Day(t) = Day(u) => ~InPage(t)
  <2> SUFFICES ASSUME NEW m \in reserves, NEW u \in Ticks,
                      TruncateToDay(u) # u, rows'[m][u] # rows[m][u]
               PROVE  /\ rows'[m][u] = Present(m) /\ Day(u) = Day(clock)
                      /\ \A t \in EventsOf(m) : Day(t) = Day(u) => ~InPage(t)
    OBVIOUS
  <2>1. PICK k \in DOMAIN s : Into(s[k], m, u) /\ rows'[m][u] = s[k].value
    BY <1>4
  <2>2. ASSUME NEW e \in Visible, s[k] = HistoryItem(e)
        PROVE  FALSE
    <3>1. u = TruncateToDay(e[2])
      BY <2>1, <2>2 DEF Into, HistoryItem, Snapshot
    <3>2. e[2] \in Int
      BY <1>1, VisibleEvents
    <3>3. Day(u) = Day(e[2])
      BY <3>1, <3>2, DayStarts
    <3>4. TruncateToDay(u) = u
      BY <3>1, <3>3 DEF TruncateToDay
    <3> QED BY <3>4
  <2>3. PICK x \in reserves : s[k] = SnapshotFromReserve(x, clock)
    <3>1. \/ \E e \in Visible : s[k] = HistoryItem(e)
          \/ \E x \in reserves : s[k] = SnapshotFromReserve(x, clock)
      BY <1>1, DatasetFilled DEF s
    <3> QED BY <2>2, <3>1
  <2>4. x = m /\ u = clock /\ s[k].value = Present(m)
    BY <2>1, <2>3 DEF Into, SnapshotFromReserve, Snapshot
  <2>5. ASSUME NEW t \in EventsOf(m), Day(t) = Day(u), InPage(t)
        PROVE  FALSE
    <3>1. PICK w \in EventsOf(m) : LastOfDay(m, w) /\ Day(w) = Day(u) /\ InPage(w)
                                   /\ w \in Ticks /\ w \in Int
      BY <1>1, <2>5, LastIsInPage
    <3>2. PICK l \in DOMAIN MapHistory(HistoryPage) :
            MapHistory(HistoryPage)[l] = Snapshot(m, TruncateToDay(w), w)
      BY <1>1, <3>1, History
    <3>3. l \in DOMAIN s /\ s[l] = Snapshot(m, TruncateToDay(w), w)
      BY <1>1, <3>2, DatasetFilled DEF s
    <3>4. Day(TruncateToDay(w)) = Day(u)
      BY <3>1, DayStarts
    <3>5. SameDayKey(s[k], s[l])
      BY <2>1, <3>3, <3>4 DEF SameDayKey, Into, Snapshot
    <3>6. k = l
      BY <1>1, <3>3, <3>5, DatasetFilled DEF s
    <3>7. u = TruncateToDay(w)
      BY <2>1, <3>3, <3>6 DEF Into, Snapshot
    <3>8. TruncateToDay(u) = u
      BY <3>1, <3>7 DEF TruncateToDay
    <3> QED BY <3>8
  <2> QED BY <2>1, <2>4, <2>5
<1>13. TopUpsOlder'
  <2>0. /\ \A m : EventsOf(m)' = EventsOf(m)
        /\ \A t : InPage(t)' <=> InPage(t)
    BY <1>2 DEF EventsOf, InPage, Visible
  <2> SUFFICES ASSUME NEW m \in Markets, NEW u \in Ticks,
                      rows'[m][u] # NoRow, TruncateToDay(u) # u
               PROVE  /\ rows'[m][u] < indexed \/ rows'[m][u] = 0
                      /\ \A t \in EventsOf(m) : Day(t) = Day(u) /\ InPage(t) =>
                           rows'[m][u] < t \/ t = 0
    BY <1>2, <2>0 DEF TopUpsOlder, TruncateToDay, Day
  <2>1. CASE rows'[m][u] = rows[m][u]
    BY <2>1 DEF HInv, TopUpsOlder
  <2>2. CASE rows'[m][u] # rows[m][u]
    <3>1. m \in reserves
      BY <1>4, <2>2
    <3>2. Present(m) < indexed \/ Present(m) = 0
      BY <1>1, PresentIsATick
    <3> QED BY <1>12, <2>2, <3>1, <3>2
  <2> QED BY <2>1, <2>2
<1>14. LatestOfDayStored'
  <2>1. ASSUME NEW m \in reserves, NEW t \in Ticks, LastOfDay(m, t), InPage(t)
        PROVE  /\ rows'[m][TruncateToDay(t)] = t
               /\ \A u \in Ticks \ {TruncateToDay(t)} :
                    rows'[m][u] # NoRow /\ Day(u) = Day(t) => rows'[m][u] < t \/ t = 0
    <3>1. PICK k \in DOMAIN MapHistory(HistoryPage) :
            MapHistory(HistoryPage)[k] = Snapshot(m, TruncateToDay(t), t)
      BY <1>1, <2>1, History
    <3>2. k \in DOMAIN s /\ s[k] = Snapshot(m, TruncateToDay(t), t)
      BY <1>1, <3>1, DatasetFilled DEF s
    <3>3. /\ s[k].market = m /\ s[k].at = TruncateToDay(t) /\ s[k].value = t
      BY <3>2 DEF Snapshot
    <3>4. TruncateToDay(t) \in Ticks /\ Into(s[k], m, TruncateToDay(t))
      BY <1>7, <3>2, <3>3 DEF Into
    <3>5. ASSUME NEW u \in Ticks, u # TruncateToDay(t), rows'[m][u] # NoRow, Day(u) = Day(t)
          PROVE  rows'[m][u] < t \/ t = 0
      <4>1. TruncateToDay(u) # u
        BY <3>5 DEF TruncateToDay
      <4>2. EventsOf(m)' = EventsOf(m) /\ InPage(t)' = InPage(t)
        BY <1>2 DEF EventsOf, InPage, Visible
      <4>3. t \in EventsOf(m)
        BY <2>1 DEF LastOfDay
      <4> QED BY <1>13, <2>1, <3>5, <4>1, <4>2, <4>3 DEF TopUpsOlder, TruncateToDay, Day
    <3> QED BY <1>4, <3>2, <3>3, <3>4, <3>5
  <2>2. /\ \A m, t : LastOfDay(m, t)' <=> LastOfDay(m, t)
        /\ \A t : InPage(t)' <=> InPage(t)
    BY <1>2 DEF LastOfDay, EventsOf, InPage, Visible, Day
  <2> QED BY <1>2, <2>1, <2>2 DEF LatestOfDayStored, TruncateToDay, Day, LastOfDay, EventsOf, InPage, Visible
<1> QED BY <1>9, <1>10, <1>11, <1>13, <1>14 DEF HInv

LEMMA StepKeeps == HInv /\ [Next]_vars => HInv'
<1> SUFFICES ASSUME HInv, [Next]_vars PROVE HInv'
  OBVIOUS
<1>1. CASE Tick \/ (\E m \in Markets : Event(m)) \/ Index
  BY <1>1, OthersKeep
<1>2. CASE \E reserves \in SUBSET Markets : Sync(reserves)
  BY <1>2, SyncKeeps
<1>3. CASE UNCHANGED vars
  BY <1>3 DEF vars, HInv, TypeOK, Past, TopUpsOlder, SyncedToday, LatestOfDayStored, LastOfDay, EventsOf,
              InPage, Visible, TruncateToDay, Day
<1> QED BY <1>1, <1>2, <1>3 DEF Next

THEOREM HistoryInvariance == Spec => []HInv
<1> QED BY InitHistory, StepKeeps, PTL DEF Spec

(* Rows, events and indexing keep to their types: no snapshot is of a time *)
(* or has a value outside of the clock's.                                  *)
THEOREM HistoryTypes == Spec => []TypeOK
<1>1. HInv => TypeOK
  BY DEF HInv
<1> QED BY <1>1, HistoryInvariance, PTL

(* After a sync, the last value of every day in The Graph's page is stored *)
(* at that day's midnight, and what the top-ups stored for that day is     *)
(* older (MapDataset, client.go:259; Load, 130).                           *)
THEOREM DaysEndRight == Spec => []LatestOfDayStored
<1>1. HInv => LatestOfDayStored
  BY DEF HInv
<1> QED BY <1>1, HistoryInvariance, PTL

-----------------------------------------------------------------------------
(* The range of days asked for.                                            *)

LEMMA FromDay ==
  ASSUME NEW t \in Int, NEW q \in Int
  PROVE  t >= q * TicksPerDay <=> Day(t) >= q
<1>1. PICK d \in Nat : d = TicksPerDay /\ d > 0
  BY Bounds
<1>2. PICK a \in Int : a = Day(t) /\ a * d <= t
  BY <1>1, DayBounds
<1>3. q * d \in Int
  OBVIOUS
<1>4. ASSUME t >= q * d
      PROVE  a >= q
  <2>1. Day(q * d) = q
    BY <1>1, <1>3, DayIs
  <2> QED BY <1>2, <1>3, <1>4, <2>1, DaysGrow
<1>5. ASSUME a >= q
      PROVE  t >= q * d
  <2>1. PICK c \in Nat : a = q + c
    <3>1. a - q \in Nat /\ a = q + (a - q)
      BY <1>2, <1>5
    <3> QED BY <3>1
  <2>2. a * d = q * d + c * d /\ c * d \in Nat
    BY <1>1, <2>1
  <2> QED BY <1>2, <1>3, <2>2
<1> QED BY <1>1, <1>2, <1>4, <1>5

(* The rows of m that WindowExact speaks of, and the query's own set.      *)
Stored(m) == { t \in Ticks : rows[m][t] # NoRow /\ Day(t) \in RangeDays }

LEMMA QueryFindsStored ==
  ASSUME TypeOK, Past, NEW m \in Markets
  PROVE  Listed(m, Since) = Ascending(Stored(m))
<1>1. clock \in Int /\ Day(clock) \in Int
  BY Bounds, DayBounds DEF TypeOK
<1>2. PICK q \in Int : q = Day(clock) - Days + 1 /\ q = Day(clock) - (Days - 1)
  BY <1>1, Bounds
<1>3. Since = q * TicksPerDay
  BY <1>1, <1>2, Bounds DEF Since, TruncateToDay
<1>4. ASSUME NEW t \in Ticks, rows[m][t] # NoRow
      PROVE  t >= Since <=> Day(t) \in RangeDays
  <2>1. t \in Int /\ t <= clock /\ Day(t) \in Int
    BY <1>4, Bounds, DayBounds DEF Past
  <2>2. Day(t) <= Day(clock)
    BY <1>1, <2>1, DaysGrow
  <2>3. t >= Since <=> Day(t) >= q
    BY <1>3, <2>1, FromDay
  <2> QED BY <1>1, <1>2, <2>1, <2>2, <2>3, Bounds DEF RangeDays
<1>5. { t \in Ticks : rows[m][t] # NoRow /\ t >= Since } = Stored(m)
  BY <1>4 DEF Stored
<1> QED BY <1>5 DEF Listed

LEMMA StoredOfDays ==
  ASSUME TypeOK, NEW m \in Markets
  PROVE  /\ Stored(m) \in SUBSET Nat /\ IsFiniteSet(Stored(m))
         /\ (\A t, u \in Stored(m) : Day(t) = Day(u) => t = u)
              => Cardinality(Stored(m)) <= Days
<1>1. Stored(m) \in SUBSET Ticks
  BY DEF Stored
<1>2. Stored(m) \in SUBSET Nat /\ IsFiniteSet(Stored(m))
  BY <1>1, Bounds, FS_Subset
<1>3. ASSUME \A t, u \in Stored(m) : Day(t) = Day(u) => t = u,
             NEW t0 \in Stored(m)
      PROVE  Cardinality(Stored(m)) <= Days
  <2> DEFINE dayOf == [t \in Stored(m) |-> Day(t)]
  <2>1. dayOf \in Injection(Stored(m), RangeDays)
    BY <1>3 DEF Injection, IsInjective, Stored
  <2>2. PICK d \in Int : d = Day(clock) /\ RangeDays = d - Days + 1 .. d
    <3>1. Day(clock) \in Int
      BY Bounds, DayBounds DEF TypeOK
    <3> QED BY <3>1 DEF RangeDays
  <2>3. d - Days + 1 \in Int /\ ~(d - Days + 1 > d) /\ d - (d - Days + 1) + 1 = Days
    BY Bounds
  <2>4. IsFiniteSet(RangeDays) /\ Cardinality(RangeDays) = Days
    BY <2>2, <2>3, FS_Interval
  <2> HIDE DEF dayOf
  <2> QED BY <2>1, <2>4, FS_Injection
<1>4. CASE Stored(m) = {}
  BY <1>2, <1>4, FS_EmptySet, Bounds
<1> QED BY <1>2, <1>3, <1>4

(* The cut to Days points keeps the last ones.                             *)
LEMMA Trimmed ==
  ASSUME NEW a \in Seq(Nat)
  PROVE  /\ DOMAIN Trim(a) = 1 .. Len(Trim(a)) /\ Len(Trim(a)) \in Nat /\ Len(Trim(a)) <= Days
         /\ Len(a) <= Days => Trim(a) = a
         /\ \A i \in DOMAIN Trim(a) : \E j \in 1 .. Len(a) : Trim(a)[i] = a[j]
         /\ Len(a) > 0 => Len(Trim(a)) > 0 /\ Trim(a)[Len(Trim(a))] = a[Len(a)]
<1>1. PICK n \in Nat : n = Len(a) /\ DOMAIN a = 1 .. n
  BY LenProperties
<1>2. CASE n <= Days
  <2>1. Trim(a) = a
    BY <1>1, <1>2, Bounds DEF Trim
  <2> QED BY <1>1, <1>2, <2>1
<1>3. CASE n > Days
  <2>1. Trim(a) = SubSeq(a, n - Days + 1, n)
    BY <1>1, <1>3 DEF Trim
  <2>2. PICK k \in Nat : k = n - Days
    BY <1>3, Bounds
  <2>3. \A i \in k + 1 .. n : a[i] \in Nat
    BY <1>1, ElementOfSeq
  <2>4. k + 1 <= n /\ n - (k + 1) + 1 = Days /\ k + 1 = n - Days + 1
    BY <1>3, <2>2, Bounds
  <2> DEFINE b == SubSeq(a, k + 1, n)
  <2>5. /\ b \in Seq(Nat) /\ Len(b) = Days
        /\ \A i \in 1 .. Days : b[i] = a[k + 1 + i - 1]
    <3>1. /\ b \in Seq(Nat)
          /\ Len(b) = IF k + 1 <= n THEN n - (k + 1) + 1 ELSE 0
          /\ \A i \in 1 .. n - (k + 1) + 1 : b[i] = a[k + 1 + i - 1]
      BY <2>3, SubSeqProperties, Z3
    <3> HIDE DEF b
    <3> QED BY <2>4, <3>1
  <2>6. Trim(a) = b
    BY <2>1, <2>4
  <2> HIDE DEF b
  <2>7. DOMAIN b = 1 .. Days
    BY <2>5, LenProperties
  <2>8. \A i \in 1 .. Days : k + 1 + i - 1 \in 1 .. n
    BY <2>2, <1>3, Bounds
  <2>9. Days \in 1 .. Days /\ k + 1 + Days - 1 = n
    BY <2>2, Bounds
  <2>10. DOMAIN Trim(a) = 1 .. Len(Trim(a)) /\ Len(Trim(a)) = Days
    BY <2>5, <2>6, <2>7
  <2>11. \A i \in 1 .. Days : \E j \in 1 .. Len(a) : Trim(a)[i] = a[j]
    BY <1>1, <2>5, <2>6, <2>8
  <2>12. Trim(a)[Days] = a[n]
    BY <2>5, <2>6, <2>9
  <2>13. Days \in Nat /\ Days <= Days /\ Days > 0 /\ ~(n <= Days)
    BY <1>3, Bounds
  <2> QED BY <1>1, <2>10, <2>11, <2>12, <2>13
<1> QED BY <1>1, <1>2, <1>3, Bounds

LEMMA RangeIsExact == HInv => WindowExact
<1> SUFFICES ASSUME HInv, NEW m \in Markets
             PROVE  LET s      == Snapshots(m)
                        stored == { t \in Ticks : rows[m][t] # NoRow /\ Day(t) \in RangeDays }
                        shown  == { s[i] : i \in DOMAIN s }
                    IN /\ Len(s) <= Days
                       /\ shown \subseteq stored
                       /\ (\A t, u \in stored : Day(t) = Day(u) => t = u) => shown = stored
                       /\ m \in synced => EndsToday(m)
  BY DEF WindowExact
<1> DEFINE a == Ascending(Stored(m))
           n == Cardinality(Stored(m))
           s == Snapshots(m)
<1>1. TypeOK /\ Past /\ SyncedToday
  BY DEF HInv
<1>2. Stored(m) \in SUBSET Nat /\ IsFiniteSet(Stored(m))
  BY <1>1, StoredOfDays
<1>3. s = Trim(a)
  BY <1>1, QueryFindsStored DEF Snapshots
<1>4. /\ n \in Nat /\ Len(a) = n /\ a \in Seq(Stored(m))
      /\ \A i \in 1 .. n : a[i] \in Stored(m)
      /\ \A i, j \in 1 .. n : i < j => a[i] < a[j]
      /\ \A t \in Stored(m) : \E i \in 1 .. n : a[i] = t
      /\ DOMAIN a = 1 .. n
  BY <1>2, AscendingLists
<1> HIDE DEF a, n, s
<1>5. a \in Seq(Nat)
  BY <1>2, <1>4
<1>6. /\ DOMAIN s = 1 .. Len(s) /\ Len(s) \in Nat /\ Len(s) <= Days
      /\ n <= Days => s = a
      /\ \A i \in DOMAIN s : \E j \in 1 .. n : s[i] = a[j]
      /\ n > 0 => Len(s) > 0 /\ s[Len(s)] = a[n]
  BY <1>3, <1>4, <1>5, Trimmed
<1>7. \A i \in DOMAIN s : s[i] \in Stored(m)
  BY <1>4, <1>6
<1>8. ASSUME \A t, u \in Stored(m) : Day(t) = Day(u) => t = u
      PROVE  Stored(m) \subseteq { s[i] : i \in DOMAIN s }
  <2>1. n <= Days
    BY <1>1, <1>8, StoredOfDays DEF n
  <2> QED BY <1>4, <1>6, <2>1
<1>9. ASSUME m \in synced
      PROVE  EndsToday(m)
  <2>1. PICK t \in Ticks : rows[m][t] # NoRow /\ Day(t) = Day(clock)
    BY <1>1, <1>9 DEF SyncedToday
  <2>2. clock \in Int /\ Day(clock) \in Int
    BY <1>1, Bounds, DayBounds DEF TypeOK
  <2>3. t \in Stored(m)
    BY <2>1, <2>2, Bounds DEF Stored, RangeDays
  <2>4. PICK i \in 1 .. n : a[i] = t
    BY <1>4, <2>3
  <2>5. n > 0 /\ n \in 1 .. n /\ a[n] \in Stored(m)
    BY <1>4, <2>4
  <2>6. a[n] \in Int /\ t \in Int /\ a[n] <= clock
    <3>1. a[n] \in Ticks /\ rows[m][a[n]] # NoRow
      BY <2>5 DEF Stored
    <3>2. a[n] <= clock
      BY <1>1, <3>1 DEF Past
    <3>3. a[n] \in Nat /\ t \in Nat
      BY <3>1 DEF Ticks
    <3> QED BY <3>2, <3>3
  <2>7. t <= a[n]
    BY <1>4, <2>4, <2>5, <2>6
  <2>8. Day(t) <= Day(a[n]) /\ Day(a[n]) <= Day(clock) /\ Day(a[n]) \in Int
    BY <2>2, <2>6, <2>7, DaysGrow, DayBounds
  <2>9. Day(a[n]) = Day(clock)
    BY <2>1, <2>2, <2>8
  <2>10. Len(s) > 0 /\ s[Len(s)] = a[n]
    BY <1>6, <2>5
  <2>11. s # <<>>
    BY <2>10
  <2> QED BY <2>9, <2>10, <2>11 DEF EndsToday, Last, s
<1> QED BY <1>6, <1>7, <1>8, <1>9 DEF Stored, s

(* A range of days is at most so many points of those days, all their rows *)
(* when no day has two, and after a sync the last point is of today        *)
(* (Service.Snapshots, service.go:146; ListSnapshots, repository.go:226).  *)
THEOREM RangesAreExact == Spec => []WindowExact
<1> QED BY RangeIsExact, HistoryInvariance, PTL

=============================================================================
