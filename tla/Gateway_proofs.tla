--------------------------- MODULE Gateway_proofs ---------------------------
(***************************************************************************)
(* Proofs about Gateway, for any number of sessions, stores, keys and      *)
(* times.                                                                  *)
(***************************************************************************)
EXTENDS Gateway, NumberLemmas

(* The entry of a destroyed token lasts until the last second of the token *)
(* begins, and only destroyed tokens have one.                             *)
EndedStored == \A tk \in ended : black[tk] >= 2 * ExpiresAt(tk)
OnlyEnded   == \A tk \in Tokens : black[tk] > 0 => tk \in ended

(* A request holds a limiter between Allow's Get and its Set.              *)
Holders == {s \in Sessions : holds[s] # None}
Fresh   == {s \in Sessions : at[s] = "fresh"}

HoldersKnown ==
  \A s \in Sessions : holds[s] # None <=> at[s] \in {"allow", "allowed", "refused"}

(* A request past authentication has a token.                              *)
TokensCarried == \A s \in Sessions : at[s] # "idle" => token[s] # None

(* The k-th mark is what a limiter gets refilled in the time in which the  *)
(* cache forgets k + 1 of them one after the other.                        *)
Turn    == Idle + 1
Mark(k) == k * Turn + Turn
Waited  == Idle - entry.left

Below(lv, n) == {l \in Limiters : lv[l] < n /\ lv[l] < Full}

(* Those that are still below the k-th mark when the cache has forgotten    *)
(* the last are of at most k times; while it knows one, they are, with the *)
(* ones in use and those that requests are about to make, of k + 1 times.  *)
(* Each time had one for every session at most.                            *)
Share(k) == k * Cardinality(Sessions)

Counted ==
  \A k \in Nat :
    IF entry = None
    THEN Cardinality(Below(level, Mark(k)) \ Held) <= Share(k)
    ELSE Cardinality(Used \cup Below(level, Mark(k) + Waited)) + Cardinality(Fresh) <= Share(k + 1)

(* One that nobody holds has filled since the cache was last told.         *)
Rested == entry # None => Below(level, Waited) \subseteq Held

GInv ==
  /\ TypeOK
  /\ EndedStored
  /\ OnlyEnded
  /\ HoldersKnown
  /\ TokensCarried
  /\ Counted
  /\ Rested

-----------------------------------------------------------------------------
(* The constants.                                                          *)

LEMMA Constants ==
  /\ Cost \in Nat /\ Cost > 0 /\ Full \in Nat /\ Cost <= Full
  /\ Full - Cost \in 0..Full
  /\ Idle \in Nat /\ Turn \in Nat /\ Turn > 0
  /\ Cardinality(Sessions) \in Nat
<1>1. Cost \in Nat /\ Cost > 0
  BY GatewayAssumption DEF GatewayAssumption, Cost
<1>2. Full \in Nat /\ Cost <= Full
  BY <1>1, GatewayAssumption, AtLeastOneTimes DEF GatewayAssumption, Full
<1>3. Cardinality(Sessions) \in Nat
  BY GatewayAssumption, FS_CardinalityType DEF GatewayAssumption
<1>4. Idle \in Nat /\ Turn \in Nat /\ Turn > 0
  BY GatewayAssumption DEF GatewayAssumption, Turn
<1> QED
  BY <1>1, <1>2, <1>3, <1>4

LEMMA EmptyIsLeast ==
  ASSUME NEW S, S = {}, NEW n \in Nat
  PROVE  Cardinality(S) <= n
BY FS_EmptySet

LEMMA Marks ==
  ASSUME NEW k \in Nat
  PROVE  /\ Mark(k) \in Nat /\ Mark(k + 1) = Mark(k) + Turn /\ Mark(0) = Turn
         /\ Share(k) \in Nat /\ Share(0) = 0
         /\ Share(k + 1) = Share(k) + Cardinality(Sessions)
<1> DEFINE S == Cardinality(Sessions)
<1>1. S \in Nat /\ Turn \in Nat
  BY Constants
<1> HIDE DEF S
<1>2. k * Turn \in Nat /\ (k + 1) * Turn = k * Turn + Turn /\ 0 * Turn = 0
  BY <1>1
<1>3. k * S \in Nat /\ (k + 1) * S = k * S + S /\ 0 * S = 0
  BY <1>1
<1> QED
  BY <1>1, <1>2, <1>3 DEF Mark, Share, S

(* After the last generation a limiter is full.                            *)
LEMMA LastMark ==
  \E k \in Nat : Generations = k + 1 /\ Full <= Mark(k)
<1> DEFINE G == Generations
<1>1. Full \in Nat /\ Full > 0 /\ Turn \in Nat /\ Turn > 0 /\ Idle \in Nat
  BY Constants
<1>2. G = (Full + Idle) \div Turn
  BY DEF Generations, Turn
<1> HIDE DEF G
<1>3. G \in Nat /\ G * Turn <= Full + Idle /\ Full + Idle < G * Turn + Turn
  BY <1>1, <1>2
<1>4. G # 0
  <2>1. SUFFICES ASSUME G = 0 PROVE FALSE
    OBVIOUS
  <2>2. Full + Idle < Turn
    BY <1>1, <1>3, <2>1
  <2> QED
    BY <1>1, <2>2 DEF Turn
<1>5. G - 1 \in Nat /\ G = (G - 1) + 1
  BY <1>3, <1>4
<1>6. PICK k \in Nat : G = k + 1
  BY <1>5
<1>7. Mark(k) = G * Turn
  BY <1>1, <1>6 DEF Mark
<1>8. G * Turn \in Nat
  BY <1>1, <1>3
<1>9. Full <= G * Turn
  BY <1>1, <1>3, <1>8 DEF Turn
<1> QED
  BY <1>6, <1>7, <1>9 DEF G

LEMMA LimiterSet ==
  /\ Generations \in Nat /\ Generations * Cardinality(Sessions) \in Nat
  /\ IsFiniteSet(Limiters) /\ Limiters \subseteq Nat
  /\ Cardinality(Limiters) = Generations * Cardinality(Sessions) + 1
<1> DEFINE n == Generations * Cardinality(Sessions)
<1>1. Generations \in Nat
  BY LastMark
<1>2. n \in Nat
  BY <1>1, Constants
<1>3. Limiters = 1..(n + 1)
  BY DEF Limiters
<1> HIDE DEF n
<1>4. 1 \in Int /\ n + 1 \in Int /\ ~(1 > n + 1) /\ (n + 1) - 1 + 1 = n + 1
  BY <1>2
<1>5. /\ IsFiniteSet(1..(n + 1)) /\ Cardinality(1..(n + 1)) = n + 1
      /\ 1..(n + 1) \subseteq Nat
  BY <1>2, <1>4, FS_Interval
<1> QED
  BY <1>1, <1>2, <1>3, <1>5 DEF n

LEMMA SecondsGrow ==
  ASSUME NEW t \in Nat, NEW u \in Nat, t <= u
  PROVE  Second(t) \in Nat /\ Second(t) <= Second(u) /\ Second(2 * t) = t
BY DEF Second

LEMMA MinOfTwo ==
  ASSUME NEW a \in Nat, NEW b \in Nat
  PROVE  Min({a, b}) = IF a <= b THEN a ELSE b
<1>1. \A x, y \in {a, b} : x <= y \/ y <= x
  OBVIOUS
<1> DEFINE P(x) == x \in {a, b} /\ \A y \in {a, b} : x <= y
<1>2. P(IF a <= b THEN a ELSE b)
  OBVIOUS
<1>3. P(Min({a, b}))
  BY <1>2 DEF Min
<1> QED
  BY <1>2, <1>3

-----------------------------------------------------------------------------
(* The limiters in use, and the next one.                                  *)

LEMMA Holding ==
  ASSUME TypeOK
  PROVE  /\ Held = {holds[s] : s \in Holders}
         /\ Used \subseteq Limiters
         /\ IsFiniteSet(Holders) /\ IsFiniteSet(Held) /\ IsFiniteSet(Used)
         /\ Cardinality(Held) \in Nat /\ Cardinality(Used) \in Nat
         /\ Cardinality(Holders) \in Nat
         /\ Cardinality(Held) <= Cardinality(Holders)
         /\ Cardinality(Holders) <= Cardinality(Sessions)
         /\ Cardinality(Used) <= Cardinality(Held) + 1
<1>1. Held = {holds[s] : s \in Holders}
  BY DEF Held, Holders
<1>2. IsFiniteSet(Holders) /\ Cardinality(Holders) <= Cardinality(Sessions)
  BY GatewayAssumption, FS_Subset DEF GatewayAssumption, Holders
<1>3. IsFiniteSet(Held) /\ Cardinality(Held) <= Cardinality(Holders)
  <2> DEFINE f == [s \in Holders |-> holds[s]]
  <2>1. f \in Surjection(Holders, Held)
    BY <1>1 DEF Surjection
  <2> HIDE DEF f
  <2> QED
    BY <1>2, <2>1, FS_Surjection
<1>4. IsFiniteSet(Used) /\ Cardinality(Used) <= Cardinality(Held) + 1
  <2>1. CASE entry = None
    BY <1>3, <2>1, FS_CardinalityType DEF Used
  <2>2. CASE entry # None
    <3>1. Used = Held \cup {entry.limiter}
      BY <2>2 DEF Used
    <3> HIDE DEF Used
    <3>2. Cardinality(Held) \in Nat
      BY <1>3, FS_CardinalityType
    <3> QED
      BY <1>3, <3>1, <3>2, FS_AddElement
  <2> QED
    BY <2>1, <2>2
<1>5. Used \subseteq Limiters
  BY DEF Used, Held, Entries, TypeOK
<1> QED
  BY <1>1, <1>2, <1>3, <1>4, <1>5, FS_CardinalityType

LEMMA FreshOrHolding ==
  ASSUME TypeOK, HoldersKnown
  PROVE  /\ IsFiniteSet(Fresh) /\ Cardinality(Fresh) \in Nat
         /\ Cardinality(Fresh) + Cardinality(Holders) <= Cardinality(Sessions)
<1>1. IsFiniteSet(Fresh) /\ Cardinality(Fresh) \in Nat
  BY GatewayAssumption, FS_Subset, FS_CardinalityType DEF GatewayAssumption, Fresh
<1>2. Fresh \cap Holders = {}
  BY DEF Fresh, Holders, HoldersKnown
<1>3. Cardinality(Fresh \cup Holders) = Cardinality(Fresh) + Cardinality(Holders)
  <2>1. Cardinality(Fresh \cap Holders) = 0
    BY <1>2, FS_EmptySet
  <2>2. /\ IsFiniteSet(Holders) /\ Cardinality(Holders) \in Nat
    BY Holding
  <2>3. Cardinality(Fresh \cup Holders) =
          Cardinality(Fresh) + Cardinality(Holders) - Cardinality(Fresh \cap Holders)
    BY <1>1, <2>2, FS_Union
  <2> QED
    BY <1>1, <2>1, <2>2, <2>3
<1>4. Fresh \cup Holders \in SUBSET Sessions
  BY DEF Fresh, Holders
<1>5. Cardinality(Fresh \cup Holders) <= Cardinality(Sessions)
  BY <1>4, GatewayAssumption, FS_Subset DEF GatewayAssumption
<1> QED
  BY <1>1, <1>3, <1>5

(* All limiters that somebody could tell from a new one.                   *)
LEMMA BusyCounted ==
  ASSUME TypeOK, HoldersKnown, Counted
  PROVE  /\ Busy \subseteq Limiters /\ IsFiniteSet(Busy) /\ Cardinality(Busy) \in Nat
         /\ Cardinality(Busy) + Cardinality(Fresh) <= Generations * Cardinality(Sessions)
<1>1. PICK k \in Nat : Generations = k + 1 /\ Full <= Mark(k)
  BY LastMark
<1>2. /\ Share(k) \in Nat /\ Share(k + 1) = Share(k) + Cardinality(Sessions)
      /\ Share(k + 1) = Generations * Cardinality(Sessions)
      /\ Mark(k) \in Nat /\ Full \in Nat
  BY <1>1, Marks, Constants DEF Share
<1>3. /\ Cardinality(Fresh) \in Nat /\ Cardinality(Held) \in Nat
      /\ Cardinality(Held) + Cardinality(Fresh) <= Cardinality(Sessions)
      /\ IsFiniteSet(Held) /\ Used \subseteq Limiters
      /\ Cardinality(Sessions) \in Nat
  BY FreshOrHolding, Holding, Constants
<1>4. Busy \subseteq Limiters
  BY <1>3 DEF Busy
<1>5. IsFiniteSet(Busy) /\ Cardinality(Busy) \in Nat
  BY <1>4, LimiterSet, FS_Subset, FS_CardinalityType
<1>6. \A l \in Limiters : level[l] \in Nat
  BY <1>2 DEF TypeOK
<1>7. CASE entry = None
  <2> DEFINE B == Below(level, Mark(k)) \ Held
  <2>1. B \subseteq Limiters
    BY DEF Below
  <2>2. IsFiniteSet(B) /\ Cardinality(B) \in Nat
    BY <2>1, LimiterSet, FS_Subset, FS_CardinalityType
  <2>3. Cardinality(B) <= Share(k)
    BY <1>7 DEF Counted
  <2>4. Busy \in SUBSET (Held \cup B)
    BY <1>1, <1>2, <1>6, <1>7 DEF Busy, Used, Below
  <2> HIDE DEF B
  <2>5. Cardinality(Busy) <= Cardinality(Held) + Cardinality(B)
    BY <1>3, <2>2, <2>4, UnionBound
  <2>6. Cardinality(Busy) + Cardinality(Fresh) <= Share(k + 1)
    BY <1>2, <1>3, <1>5, <2>2, <2>3, <2>5
  <2> QED
    BY <1>2, <1>4, <1>5, <2>6
<1>8. CASE entry # None
  <2> DEFINE B == Used \cup Below(level, Mark(k) + Waited)
  <2>1. Waited \in Nat
    BY <1>8, Constants DEF Waited, TypeOK, Entries
  <2>2. B \subseteq Limiters
    BY <1>3 DEF Below
  <2>3. IsFiniteSet(B) /\ Cardinality(B) \in Nat
    BY <2>2, LimiterSet, FS_Subset, FS_CardinalityType
  <2>4. Cardinality(B) + Cardinality(Fresh) <= Share(k + 1)
    BY <1>8 DEF Counted
  <2>5. Busy \subseteq B
    BY <1>1, <1>2, <1>6, <2>1 DEF Busy, Below
  <2> HIDE DEF B
  <2>6. Cardinality(Busy) <= Cardinality(B)
    BY <2>3, <2>5, FS_Subset
  <2>7. Cardinality(Busy) + Cardinality(Fresh) <= Share(k + 1)
    <3>1. Share(k + 1) \in Nat
      BY <1>2, <1>3
    <3> QED
      BY <1>3, <1>5, <2>3, <2>4, <2>6, <3>1
  <2> QED
    BY <1>2, <1>4, <1>5, <2>7
<1> QED
  BY <1>7, <1>8

(* One more limiter can always be had.                                     *)
LEMMA NextLimiter ==
  ASSUME TypeOK, HoldersKnown, Counted
  PROVE  FreeLimiter \in Limiters \ Busy
<1>1. Cardinality(Fresh) \in Nat
  BY FreshOrHolding
<1>2. Cardinality(Busy) < Cardinality(Limiters)
  BY <1>1, BusyCounted, LimiterSet
<1>3. Limiters \ Busy # {}
  <2>1. SUFFICES ASSUME Limiters \ Busy = {} PROVE FALSE
    OBVIOUS
  <2>2. Limiters = Busy
    BY <2>1, BusyCounted
  <2> QED
    BY <1>2, <2>2, BusyCounted
<1>4. Limiters \ Busy \in SUBSET Nat
  BY LimiterSet
<1>5. \E l \in Limiters \ Busy : \A k \in Limiters \ Busy : l <= k
  BY <1>3, <1>4, LeastNumber
<1> QED
  BY <1>5 DEF FreeLimiter

-----------------------------------------------------------------------------
(* The types.                                                              *)

LEMMA InitTypes ==
  ASSUME Init
  PROVE  GInv
<1>1. Second(0) = 0 /\ 0 \in 0..MaxNow
  BY GatewayAssumption DEF Second, GatewayAssumption
<1>2. TypeOK
  <2>1. oldKey \in (Keys \cup {None}) \ {key}
    BY GatewayAssumption DEF Init, GatewayAssumption
  <2>2. level \in [Limiters -> 0..Full]
    BY Constants DEF Init
  <2> QED
    BY <1>1, <2>1, <2>2 DEF Init, TypeOK
<1>3. EndedStored /\ OnlyEnded /\ HoldersKnown /\ TokensCarried
  BY DEF Init, EndedStored, OnlyEnded, HoldersKnown, TokensCarried
<1>4. \A n : Below(level, n) = {}
  <2>1. \A l \in Limiters : level[l] = Full
    BY DEF Init
  <2> QED
    BY <2>1, Constants DEF Below
<1>5. Counted /\ Rested
  <2>1. entry = None
    BY DEF Init
  <2>2. ASSUME NEW k \in Nat
        PROVE  Cardinality(Below(level, Mark(k)) \ Held) <= Share(k)
    <3>1. Below(level, Mark(k)) \ Held = {}
      BY <1>4
    <3>2. Share(k) \in Nat
      BY Marks
    <3> QED
      BY <3>1, <3>2, EmptyIsLeast
  <2> QED
    BY <2>1, <2>2 DEF Counted, Rested
<1> QED
  BY <1>2, <1>3, <1>5 DEF GInv

LEMMA NewToken ==
  ASSUME TypeOK
  PROVE  GenerateToken \in Tokens /\ now \in Nat
<1>1. now \in Nat /\ MaxNow \in Nat /\ now <= MaxNow
  BY GatewayAssumption DEF TypeOK, GatewayAssumption
<1>2. Second(now) \in 0..Second(MaxNow)
  BY <1>1, SecondsGrow
<1> QED
  BY <1>1, <1>2 DEF TypeOK, GenerateToken, Tokens

LEMMA Gone ==
  ASSUME TypeOK, NEW t \in Nat
  PROVE  /\ GoneAt(t) \in Nat
         /\ t % 2 = 0 => GoneAt(t) >= t
<1>1. now \in Nat /\ MaxNow \in Nat
  BY GatewayAssumption DEF TypeOK, GatewayAssumption
<1>2. store \in {"memory", "badger", "redis"}
  BY GatewayAssumption DEF TypeOK, GatewayAssumption
<1>3. now <= MaxNow
  BY <1>1 DEF TypeOK
<1>4. CASE store = "memory"
  BY <1>1, <1>3, <1>4 DEF GoneAt, MemoryGoneAt, Never
<1>5. CASE store = "redis"
  BY <1>1, <1>3, <1>5 DEF GoneAt, RedisGoneAt, Never
<1>6. CASE store = "badger"
  <2>1. GoneAt(t) = 2 * Second(t)
    BY <1>6 DEF GoneAt, BadgerGoneAt
  <2> QED
    BY <2>1 DEF Second
<1> QED
  BY <1>2, <1>4, <1>5, <1>6

LEMMA DestroyTypes ==
  ASSUME TypeOK, NEW tk \in Tokens
  PROVE  /\ ExpiresAt(tk) \in Nat
         /\ GoneAt(2 * ExpiresAt(tk)) \in Nat
         /\ GoneAt(2 * ExpiresAt(tk)) >= 2 * ExpiresAt(tk)
<1>1. tk.iat \in Nat /\ Expired \in Nat
  <2>1. tk.iat \in 0..Second(MaxNow)
    BY DEF Tokens
  <2> QED
    BY <2>1, GatewayAssumption DEF GatewayAssumption
<1>2. ExpiresAt(tk) \in Nat
  BY <1>1 DEF ExpiresAt
<1>3. 2 * ExpiresAt(tk) \in Nat /\ (2 * ExpiresAt(tk)) % 2 = 0
  BY <1>2
<1> QED
  BY <1>2, <1>3, Gone

(* The cache and the requests after SetDefault,                            *)
LEMMA SetDefaultTypes ==
  ASSUME TypeOK, NEW s \in Sessions, NEW l \in Limiters, SetDefault(s, l)
  PROVE  /\ entry' \in Entries /\ entry' # None /\ entry'.limiter = l
         /\ holds' \in [Sessions -> Limiters \cup {None}]
<1>1. Idle \in 0..Idle
  BY GatewayAssumption DEF GatewayAssumption
<1>2. entry' \in Entries /\ entry'.limiter = l
  BY <1>1 DEF SetDefault, Entries
<1>3. entry' # None
  BY <1>2, GatewayAssumption DEF GatewayAssumption
<1>4. holds' \in [Sessions -> Limiters \cup {None}]
  BY DEF SetDefault, TypeOK
<1> QED
  BY <1>2, <1>3, <1>4

(* and an entry that has time left after a tick.                           *)
LEMMA TickEntry ==
  ASSUME TypeOK, Tick, entry # None, ~Expires
  PROVE  /\ entry' \in Entries /\ entry' # None
         /\ entry'.limiter = entry.limiter
<1>1. entry \in [limiter : Limiters, left : 0..Idle] /\ entry.left # 0
  BY DEF Expires, TypeOK, Entries
<1>2. entry.left - 1 \in 0..Idle
  BY <1>1, GatewayAssumption DEF GatewayAssumption
<1>3. entry' = [entry EXCEPT !.left = @ - 1]
  BY DEF Tick
<1>4. entry' \in Entries /\ entry'.limiter = entry.limiter
  BY <1>1, <1>2, <1>3 DEF Entries
<1>5. entry' # None
  BY <1>4, GatewayAssumption DEF GatewayAssumption
<1> QED
  BY <1>4, <1>5

LEMMA RefillValue ==
  ASSUME TypeOK, NEW l \in Limiters
  PROVE  /\ level[l] \in Nat
         /\ Refill(l) = IF level[l] + 1 <= Full THEN level[l] + 1 ELSE Full
<1>1. level[l] \in Nat /\ level[l] + 1 \in Nat /\ Full \in Nat
  BY Constants DEF TypeOK
<1> QED
  BY <1>1, MinOfTwo DEF Refill

LEMMA TypesKept ==
  ASSUME GInv, [Next]_vars
  PROVE  TypeOK'
<1> USE DEF GInv
<1>1. CASE UNCHANGED vars
  BY <1>1 DEF TypeOK, vars, configVars, clientVars, limiterVars
<1>2. CASE Tick
  <2>1. now \in Nat /\ now' \in 0..MaxNow
    BY <1>2, GatewayAssumption DEF Tick, TypeOK, GatewayAssumption
  <2>2. entry' \in Entries \cup {None}
    <3>1. CASE entry = None \/ Expires
      BY <1>2, <3>1 DEF Tick
    <3>2. CASE ~(entry = None \/ Expires)
      BY <1>2, <3>2, TickEntry
    <3> QED
      BY <3>1, <3>2
  <2>3. [l \in Limiters |-> Refill(l)] \in [Limiters -> 0..Full]
    <3>1. ASSUME NEW l \in Limiters
          PROVE  Refill(l) \in 0..Full
      BY RefillValue, Constants DEF TypeOK
    <3> QED
      BY <3>1
  <2>4. level' \in [Limiters -> 0..Full]
    BY <1>2, <2>3 DEF Tick
  <2> QED
    BY <1>2, <2>1, <2>2, <2>4 DEF Tick, TypeOK, configVars, clientVars
<1>3. CASE Restart
  <2>1. oldKey' \in (Keys \cup {None}) \ {key'} /\ key' \in Keys
    BY <1>3, GatewayAssumption DEF Restart, TypeOK, GatewayAssumption
  <2>2. level' \in [Limiters -> 0..Full]
    BY <1>3, Constants DEF Restart
  <2>3. black' \in [Tokens -> Nat] /\ ended' \subseteq Tokens
    BY <1>3 DEF Restart, TypeOK
  <2> QED
    BY <1>3, <2>1, <2>2, <2>3 DEF Restart, TypeOK, clientVars
<1>4. ASSUME NEW s \in Sessions, Login(s)
      PROVE  TypeOK'
  BY <1>4, NewToken DEF Login, TypeOK, configVars, limiterVars
<1>5. ASSUME NEW s \in Sessions, Auth(s)
      PROVE  TypeOK'
  BY <1>5 DEF Auth, Goto, TypeOK, configVars, clientVars, limiterVars
<1>6. ASSUME NEW s \in Sessions, GetLimiter(s)
      PROVE  TypeOK'
  <2>1. holds' \in [Sessions -> Limiters \cup {None}]
    BY <1>6 DEF GetLimiter, TypeOK, Entries
  <2>2. at' \in [Sessions ->
          {"idle", "limit", "fresh", "allow", "allowed", "refused", "handle"}]
    BY <1>6 DEF GetLimiter, Goto, TypeOK
  <2> QED
    BY <1>6, <2>1, <2>2 DEF GetLimiter, TypeOK, configVars, clientVars, limiterVars
<1>7. ASSUME NEW s \in Sessions, NewLimiter(s)
      PROVE  TypeOK'
  <2>1. FreeLimiter \in Limiters
    BY NextLimiter
  <2>2. SetDefault(s, FreeLimiter)
    BY <1>7 DEF NewLimiter
  <2>3. /\ entry' \in Entries \cup {None}
        /\ holds' \in [Sessions -> Limiters \cup {None}]
    BY <2>1, <2>2, SetDefaultTypes
  <2>4. level' \in [Limiters -> 0..Full]
    BY <1>7, <2>1, Constants DEF NewLimiter, TypeOK
  <2> QED
    BY <1>7, <2>3, <2>4 DEF NewLimiter, Goto, TypeOK, configVars, clientVars
<1>8. ASSUME NEW s \in Sessions, Allow(s)
      PROVE  TypeOK'
  <2>1. level' \in [Limiters -> 0..Full]
    <3>1. CASE level[holds[s]] >= Cost
      <4>1. holds[s] \in Limiters
        BY <1>8 DEF Allow, TypeOK, HoldersKnown
      <4>2. level[holds[s]] - Cost \in 0..Full
        <5>1. level[holds[s]] \in 0..Full
          BY <4>1 DEF TypeOK
        <5> QED
          BY <3>1, <5>1, Constants
      <4>3. level' = [level EXCEPT ![holds[s]] = level[holds[s]] - Cost]
        BY <1>8, <3>1 DEF Allow
      <4> QED
        BY <4>1, <4>2, <4>3, Constants DEF TypeOK
    <3>2. CASE ~(level[holds[s]] >= Cost)
      BY <1>8, <3>2 DEF Allow, TypeOK
    <3> QED
      BY <3>1, <3>2
  <2>2. at' \in [Sessions ->
          {"idle", "limit", "fresh", "allow", "allowed", "refused", "handle"}]
    BY <1>8 DEF Allow, Goto, TypeOK
  <2> QED
    BY <1>8, <2>1, <2>2 DEF Allow, TypeOK, configVars, clientVars
<1>9. ASSUME NEW s \in Sessions, SetLimiter(s)
      PROVE  TypeOK'
  <2>1. holds[s] \in Limiters
    BY <1>9 DEF SetLimiter, TypeOK, HoldersKnown
  <2>2. /\ entry' \in Entries \cup {None}
        /\ holds' \in [Sessions -> Limiters \cup {None}]
    BY <1>9, <2>1, SetDefaultTypes DEF SetLimiter
  <2>3. level' \in [Limiters -> 0..Full]
    BY <1>9 DEF SetLimiter, TypeOK
  <2>4. at' \in [Sessions ->
          {"idle", "limit", "fresh", "allow", "allowed", "refused", "handle"}]
    BY <1>9 DEF SetLimiter, Goto, TypeOK
  <2> QED
    BY <1>9, <2>2, <2>3, <2>4 DEF SetLimiter, TypeOK, configVars, clientVars
<1>10. ASSUME NEW s \in Sessions, Answer(s)
       PROVE  TypeOK'
  BY <1>10 DEF Answer, Goto, TypeOK, configVars, clientVars, limiterVars
<1>11. ASSUME NEW s \in Sessions, RefreshToken(s)
       PROVE  TypeOK'
  BY <1>11, NewToken DEF RefreshToken, Goto, TypeOK, configVars, limiterVars
<1>12. ASSUME NEW s \in Sessions, Logout(s)
       PROVE  TypeOK'
  <2>1. token[s] \in Tokens
    BY <1>12 DEF Logout, TypeOK, TokensCarried
  <2>2. GoneAt(2 * ExpiresAt(token[s])) \in Nat
    BY <2>1, DestroyTypes
  <2>3. black' \in [Tokens -> Nat] /\ ended' \subseteq Tokens
    BY <1>12, <2>1, <2>2 DEF Logout, DestroyToken, TypeOK
  <2> QED
    BY <1>12, <2>3 DEF Logout, Goto, TypeOK, configVars, limiterVars
<1> QED
  BY <1>1, <1>2, <1>3, <1>4, <1>5, <1>6, <1>7, <1>8, <1>9, <1>10, <1>11, <1>12
     DEF Next, RateLimiter, LoginAPI

-----------------------------------------------------------------------------
(* The destroyed tokens.                                                   *)

LEMMA EndedKept ==
  ASSUME GInv, [Next]_vars
  PROVE  EndedStored' /\ OnlyEnded'
<1> USE DEF GInv
<1>1. CASE UNCHANGED <<black, ended>>
  BY <1>1 DEF EndedStored, OnlyEnded, ExpiresAt
<1>2. CASE Restart
  <2>1. CASE black' = [tk \in Tokens |-> 0] /\ ended' = {}
    BY <2>1 DEF EndedStored, OnlyEnded
  <2> QED
    BY <1>1, <1>2, <2>1 DEF Restart
<1>3. ASSUME NEW s \in Sessions, Logout(s)
      PROVE  EndedStored' /\ OnlyEnded'
  <2> DEFINE tk == token[s]
             t  == GoneAt(2 * ExpiresAt(tk))
  <2>1. tk \in Tokens
    BY <1>3 DEF Logout, TypeOK, TokensCarried
  <2>2. t \in Nat /\ t >= 2 * ExpiresAt(tk)
    BY <2>1, DestroyTypes
  <2>3. black' = [black EXCEPT ![tk] = t] /\ ended' = ended \cup {tk}
    BY <1>3 DEF Logout, DestroyToken
  <2> HIDE DEF tk, t
  <2>4. EndedStored'
    BY <2>1, <2>2, <2>3 DEF EndedStored, ExpiresAt, TypeOK
  <2>5. OnlyEnded'
    BY <2>1, <2>2, <2>3 DEF OnlyEnded, TypeOK
  <2> QED
    BY <2>4, <2>5
<1>4. ASSUME [Next]_vars, ~Restart, \A s \in Sessions : ~Logout(s)
      PROVE  UNCHANGED <<black, ended>>
  BY <1>4 DEF Next, vars, Tick, Login, Auth, RateLimiter, GetLimiter, NewLimiter,
              Allow, SetLimiter, Answer, LoginAPI, RefreshToken
<1> QED
  BY <1>1, <1>2, <1>3, <1>4

-----------------------------------------------------------------------------
(* Who holds a limiter, who has a token.                                   *)

LEMMA HoldersKept ==
  ASSUME GInv, [Next]_vars
  PROVE  HoldersKnown' /\ TokensCarried'
<1> USE DEF GInv
<1>0. None \notin Limiters /\ None \notin Tokens
  BY GatewayAssumption DEF GatewayAssumption
<1>1. CASE UNCHANGED <<at, holds, token>>
  BY <1>1 DEF HoldersKnown, TokensCarried
<1>2. CASE Restart
  BY <1>2 DEF Restart, HoldersKnown, TokensCarried
<1>3. ASSUME NEW s \in Sessions, Login(s) \/ RefreshToken(s)
      PROVE  HoldersKnown' /\ TokensCarried'
  BY <1>0, <1>3, NewToken
     DEF Login, RefreshToken, Goto, HoldersKnown, TokensCarried, TypeOK
<1>4. ASSUME NEW s \in Sessions, Auth(s) \/ Answer(s) \/ Logout(s)
      PROVE  HoldersKnown' /\ TokensCarried'
  BY <1>4 DEF Auth, Answer, Logout, Goto, HoldersKnown, TokensCarried, TypeOK,
              configVars, clientVars
<1>5. ASSUME NEW s \in Sessions, GetLimiter(s)
      PROVE  HoldersKnown' /\ TokensCarried'
  <2>1. entry # None => entry.limiter \in Limiters
    BY DEF TypeOK, Entries
  <2>2. token' = token
    BY <1>5 DEF GetLimiter, clientVars
  <2>3. CASE entry = None
    BY <1>5, <2>2, <2>3 DEF GetLimiter, Goto, HoldersKnown, TokensCarried, TypeOK
  <2>4. CASE entry # None
    <3>1. /\ holds' = [holds EXCEPT ![s] = entry.limiter]
          /\ at' = [at EXCEPT ![s] = "allow"] /\ at[s] = "limit"
      BY <1>5, <2>4 DEF GetLimiter, Goto
    <3> QED
      BY <1>0, <2>1, <2>2, <2>4, <3>1 DEF HoldersKnown, TokensCarried, TypeOK
  <2> QED
    BY <2>3, <2>4
<1>6. ASSUME NEW s \in Sessions, NewLimiter(s) \/ SetLimiter(s)
      PROVE  HoldersKnown' /\ TokensCarried'
  <2>1. /\ holds' = [holds EXCEPT ![s] = None] /\ token' = token
        /\ at[s] # "idle"
    BY <1>6 DEF NewLimiter, SetLimiter, SetDefault, clientVars
  <2>2. \/ at' = [at EXCEPT ![s] = "handle"]
        \/ at' = [at EXCEPT ![s] = "idle"]
    BY <1>6 DEF NewLimiter, SetLimiter, Goto
  <2> QED
    BY <2>1, <2>2 DEF HoldersKnown, TokensCarried, TypeOK
<1>7. ASSUME NEW s \in Sessions, Allow(s)
      PROVE  HoldersKnown' /\ TokensCarried'
  <2>1. holds' = holds /\ token' = token /\ at[s] = "allow"
    BY <1>7 DEF Allow, clientVars
  <2>2. \/ at' = [at EXCEPT ![s] = "allowed"]
        \/ at' = [at EXCEPT ![s] = "refused"]
    BY <1>7 DEF Allow, Goto
  <2> QED
    BY <2>1, <2>2 DEF HoldersKnown, TokensCarried, TypeOK
<1>8. Tick \/ UNCHANGED vars => UNCHANGED <<at, holds, token>>
  BY DEF Tick, clientVars, vars
<1> QED
  BY <1>1, <1>2, <1>3, <1>4, <1>5, <1>6, <1>7, <1>8 DEF Next, RateLimiter, LoginAPI

-----------------------------------------------------------------------------
(* The limiters that can be told from a new one.                           *)

LEMMA NoMore ==
  ASSUME NEW B \in SUBSET Limiters, NEW C \in SUBSET B
  PROVE  /\ Cardinality(B) \in Nat /\ Cardinality(C) \in Nat
         /\ Cardinality(C) <= Cardinality(B)
<1>1. IsFiniteSet(B)
  BY LimiterSet, FS_Subset
<1> QED
  BY <1>1, FS_Subset, FS_CardinalityType

(* Above the last mark it waited for, nothing gets below the next.         *)
LEMMA MoreBelow ==
  ASSUME TypeOK, NEW n \in Nat, NEW m \in Nat, n <= m
  PROVE  Below(level, n) \subseteq Below(level, m)
<1>1. \A l \in Limiters : level[l] \in Nat
  BY Constants DEF TypeOK
<1> QED
  BY <1>1 DEF Below

(* A step that leaves the cache alone, makes no limiter and takes only     *)
(* from those that are held.                                               *)
LEMMA CountStays ==
  ASSUME GInv, entry' = entry, Held \subseteq Held', Used' = Used,
         entry # None => Fresh' = Fresh,
         \A l \in Limiters : level'[l] # level[l] => l \in Held
  PROVE  Counted' /\ Rested'
<1>0. Held \subseteq Used /\ Used \subseteq Limiters /\ Waited' = Waited
  BY Holding DEF GInv, Used, Waited
<1>1. ASSUME NEW n
      PROVE  /\ Below(level', n) \ Held' \subseteq Below(level, n) \ Held
             /\ Used \cup Below(level', n) = Used \cup Below(level, n)
  BY <1>0 DEF Below
<1>2. CASE entry = None
  <2>1. ASSUME NEW k \in Nat
        PROVE  Cardinality(Below(level', Mark(k)) \ Held') <= Share(k)
    <3> DEFINE B == Below(level, Mark(k)) \ Held
               C == Below(level', Mark(k)) \ Held'
    <3>1. B \in SUBSET Limiters /\ C \in SUBSET B /\ Cardinality(B) <= Share(k)
      BY <1>1, <1>2 DEF GInv, Counted, Below
    <3> HIDE DEF B, C
    <3>2. Cardinality(C) <= Cardinality(B) /\ Cardinality(C) \in Nat /\ Cardinality(B) \in Nat
      BY <3>1, NoMore
    <3>3. Share(k) \in Nat
      BY Marks
    <3>4. Cardinality(C) <= Share(k)
      BY <3>1, <3>2, <3>3
    <3> QED
      BY <3>4 DEF C
  <2> QED
    BY <1>2, <2>1 DEF Counted, Rested
<1>3. CASE entry # None
  <2>1. Below(level', Waited') \subseteq Held'
    BY <1>0, <1>1, <1>3 DEF GInv, Rested
  <2>2. ASSUME NEW k \in Nat
        PROVE  Cardinality(Used' \cup Below(level', Mark(k) + Waited')) + Cardinality(Fresh')
                 <= Share(k + 1)
    <3>1. Cardinality(Used \cup Below(level, Mark(k) + Waited)) + Cardinality(Fresh)
            <= Share(k + 1)
      BY <1>3 DEF GInv, Counted
    <3>2. Used' \cup Below(level', Mark(k) + Waited') = Used \cup Below(level, Mark(k) + Waited)
      BY <1>0, <1>1
    <3> QED
      BY <1>3, <3>1, <3>2
  <2> QED
    BY <1>3, <2>1, <2>2 DEF Counted, Rested
<1> QED
  BY <1>2, <1>3

(* SetDefault, which gives back a limiter that was in use, or brings in    *)
(* one that a request was about to make.                                   *)
LEMMA CountStored ==
  ASSUME GInv, NEW X \in SUBSET Limiters, Used' \subseteq Used \cup X,
         Cardinality(Fresh') \in Nat,
         Cardinality(X) + Cardinality(Fresh') <= Cardinality(Fresh),
         \A l \in Limiters \ X : level'[l] = level[l],
         \A l \in Limiters : level'[l] \in Nat,
         entry' # None, Waited' = 0
  PROVE  Counted' /\ Rested'
<1>0. /\ Cardinality(Fresh) \in Nat /\ Cardinality(Held) \in Nat
      /\ Cardinality(Held) + Cardinality(Fresh) <= Cardinality(Sessions)
      /\ Cardinality(Sessions) \in Nat
      /\ Held \in SUBSET Limiters /\ Used \in SUBSET Limiters
      /\ IsFiniteSet(Held) /\ IsFiniteSet(X) /\ Cardinality(X) \in Nat
  BY FreshOrHolding, Holding, Constants, LimiterSet, FS_Subset, FS_CardinalityType
     DEF GInv, Used
<1>1. Rested'
  <2>1. Below(level', 0) = {}
    BY DEF Below
  <2> QED
    BY <2>1 DEF Rested
<1>2. ASSUME NEW k \in Nat
      PROVE  Cardinality(Used' \cup Below(level', Mark(k) + Waited')) + Cardinality(Fresh')
               <= Share(k + 1)
  <2>0. /\ Mark(k) \in Nat /\ Mark(k) + Waited' = Mark(k)
        /\ Share(k) \in Nat /\ Share(k + 1) = Share(k) + Cardinality(Sessions)
    BY Marks
  <2>1. Below(level', Mark(k)) \subseteq Below(level, Mark(k)) \cup X
    BY DEF Below
  <2>2. Below(level, Mark(k)) \in SUBSET Limiters
    BY DEF Below
  <2> DEFINE U == Used' \cup Below(level', Mark(k))
  <2>3. CASE entry = None
    <3> DEFINE B == Below(level, Mark(k)) \ Held
               C == Held \cup B
    <3>1. Used = Held
      BY <2>3 DEF Used
    <3>2. U \in SUBSET (C \cup X)
      BY <2>1, <3>1
    <3>3. Cardinality(B) <= Share(k)
      BY <2>3 DEF GInv, Counted
    <3>4. B \in SUBSET Limiters
      BY <2>2
    <3> HIDE DEF U, B
    <3>5. IsFiniteSet(B) /\ Cardinality(B) \in Nat
      BY <3>4, LimiterSet, FS_Subset, FS_CardinalityType
    <3>6. C \in SUBSET (Held \cup B) /\ C \in SUBSET Limiters
      BY <1>0, <3>4
    <3> HIDE DEF C
    <3>7. Cardinality(C) <= Cardinality(Held) + Cardinality(B)
      BY <1>0, <3>5, <3>6, UnionBound
    <3>8. IsFiniteSet(C) /\ Cardinality(C) \in Nat
      BY <3>6, LimiterSet, FS_Subset, FS_CardinalityType
    <3>9. Cardinality(U) \in Nat /\ Cardinality(U) <= Cardinality(C) + Cardinality(X)
      BY <1>0, <3>2, <3>8, UnionBound
    <3>10. Cardinality(U) + Cardinality(Fresh') <= Share(k + 1)
      BY <1>0, <2>0, <3>3, <3>5, <3>7, <3>8, <3>9
    <3> QED
      BY <2>0, <3>10 DEF U
  <2>4. CASE entry # None
    <3> DEFINE C == Used \cup Below(level, Mark(k) + Waited)
    <3>1. Waited \in Nat
      BY <2>4, Constants DEF GInv, Waited, TypeOK, Entries
    <3>2. Mark(k) + Waited \in Nat /\ Mark(k) <= Mark(k) + Waited
      BY <2>0, <3>1
    <3>3. Below(level, Mark(k)) \subseteq Below(level, Mark(k) + Waited)
      BY <2>0, <3>2, MoreBelow DEF GInv
    <3>4. U \in SUBSET (C \cup X)
      BY <2>1, <3>3
    <3>5. Cardinality(C) + Cardinality(Fresh) <= Share(k + 1)
      BY <2>4 DEF GInv, Counted
    <3>6. C \in SUBSET Limiters
      BY <1>0 DEF Below
    <3> HIDE DEF U, C
    <3>7. IsFiniteSet(C) /\ Cardinality(C) \in Nat
      BY <3>6, LimiterSet, FS_Subset, FS_CardinalityType
    <3>8. Cardinality(U) \in Nat /\ Cardinality(U) <= Cardinality(C) + Cardinality(X)
      BY <1>0, <3>4, <3>7, UnionBound
    <3>9. Share(k + 1) \in Nat
      BY <1>0, <2>0
    <3>10. Cardinality(U) + Cardinality(Fresh') <= Share(k + 1)
      BY <1>0, <3>5, <3>7, <3>8, <3>9
    <3> QED
      BY <2>0, <3>10 DEF U
  <2> QED
    BY <2>3, <2>4
<1> QED
  BY <1>1, <1>2 DEF Counted

(* A tick, in which the cache may forget its limiter.                      *)
LEMMA CountTick ==
  ASSUME GInv, Tick
  PROVE  Counted' /\ Rested'
<1>0. /\ Held' = Held /\ Fresh' = Fresh
      /\ Held \subseteq Limiters /\ Used \subseteq Limiters
  BY Holding DEF GInv, Tick, Held, Fresh, Used
<1>1. ASSUME NEW l \in Limiters
      PROVE  /\ level[l] \in Nat /\ Full \in Nat
             /\ level'[l] = IF level[l] + 1 <= Full THEN level[l] + 1 ELSE Full
  BY RefillValue, Constants DEF GInv, Tick
<1>2. ASSUME NEW n \in Nat
      PROVE  /\ Below(level', n + 1) \in SUBSET Below(level, n)
             /\ Below(level', n) \in SUBSET Below(level, n)
  <2>1. ASSUME NEW l \in Limiters, level'[l] < n + 1, level'[l] < Full
        PROVE  level[l] < n /\ level[l] < Full
    BY <1>1, <2>1
  <2>2. ASSUME NEW l \in Limiters, level'[l] < n, level'[l] < Full
        PROVE  level[l] < n /\ level[l] < Full
    BY <1>1, <2>2
  <2> QED
    BY <2>1, <2>2 DEF Below
<1>3. \A n : Below(level, n) \in SUBSET Limiters
  BY DEF Below
<1>4. CASE entry = None
  <2>1. entry' = None
    BY <1>4 DEF Tick
  <2>2. ASSUME NEW k \in Nat
        PROVE  Cardinality(Below(level', Mark(k)) \ Held') <= Share(k)
    <3> DEFINE B == Below(level, Mark(k)) \ Held
               C == Below(level', Mark(k)) \ Held'
    <3>1. Mark(k) \in Nat /\ Share(k) \in Nat
      BY Marks
    <3>2. B \in SUBSET Limiters /\ C \in SUBSET B
      BY <1>0, <1>2, <1>3, <3>1
    <3>3. Cardinality(B) <= Share(k)
      BY <1>4 DEF GInv, Counted
    <3> HIDE DEF B, C
    <3>4. Cardinality(C) <= Cardinality(B) /\ Cardinality(C) \in Nat /\ Cardinality(B) \in Nat
      BY <3>2, NoMore
    <3>5. Cardinality(C) <= Share(k)
      BY <3>1, <3>3, <3>4
    <3> QED
      BY <3>5 DEF C
  <2> QED
    BY <2>1, <2>2 DEF Counted, Rested
<1>5. CASE entry # None /\ ~Expires
  <2>1. entry' # None /\ Used' = Used
    BY <1>0, <1>5, TickEntry DEF GInv, Used
  <2>2. Waited \in Nat /\ Waited' = Waited + 1
    <3>1. entry \in Entries /\ entry' = [entry EXCEPT !.left = @ - 1]
      BY <1>5 DEF GInv, TypeOK, Tick
    <3>2. entry.left \in 0..Idle /\ entry'.left = entry.left - 1
      BY <3>1 DEF Entries
    <3> QED
      BY <3>2, Constants DEF Waited
  <2>3. Below(level', Waited') \subseteq Held'
    BY <1>0, <1>2, <1>5, <2>2 DEF GInv, Rested
  <2>4. ASSUME NEW k \in Nat
        PROVE  Cardinality(Used' \cup Below(level', Mark(k) + Waited')) + Cardinality(Fresh')
                 <= Share(k + 1)
    <3> DEFINE B == Used \cup Below(level, Mark(k) + Waited)
               C == Used' \cup Below(level', Mark(k) + Waited')
    <3>1. /\ Mark(k) + Waited \in Nat /\ Mark(k) + Waited' = (Mark(k) + Waited) + 1
          /\ Share(k + 1) \in Nat
      BY <2>2, Marks
    <3>2. B \in SUBSET Limiters /\ C \in SUBSET B
      BY <1>0, <1>2, <1>3, <2>1, <3>1
    <3>3. Cardinality(B) + Cardinality(Fresh) <= Share(k + 1)
      BY <1>5 DEF GInv, Counted
    <3> HIDE DEF B, C
    <3>4. Cardinality(C) <= Cardinality(B) /\ Cardinality(C) \in Nat /\ Cardinality(B) \in Nat
      BY <3>2, NoMore
    <3>5. Cardinality(Fresh) \in Nat
      BY FreshOrHolding DEF GInv
    <3>6. Cardinality(C) + Cardinality(Fresh') <= Share(k + 1)
      BY <1>0, <3>1, <3>3, <3>4, <3>5
    <3> QED
      BY <3>6 DEF C
  <2> QED
    BY <2>1, <2>3, <2>4 DEF Counted, Rested
<1>6. CASE entry # None /\ Expires
  <2>1. entry' = None /\ Waited = Idle /\ Idle \in Nat
    BY <1>6, Constants DEF Tick, Expires, Waited
  <2>2. ASSUME NEW k \in Nat
        PROVE  Cardinality(Below(level', Mark(k)) \ Held') <= Share(k)
    <3>1. CASE k = 0
      <4>1. Mark(k) = Idle + 1
        BY <3>1, Marks DEF Turn
      <4>2. Below(level', Mark(k)) \subseteq Held
        BY <1>2, <1>6, <2>1, <4>1 DEF GInv, Rested
      <4>3. Below(level', Mark(k)) \ Held' = {}
        BY <1>0, <4>2
      <4>4. Share(k) \in Nat
        BY Marks
      <4> QED
        BY <4>3, <4>4, EmptyIsLeast
    <3>2. CASE k # 0
      <4>1. k - 1 \in Nat /\ k = (k - 1) + 1
        BY <3>2
      <4>2. PICK j \in Nat : k = j + 1
        BY <4>1
      <4> DEFINE B == Used \cup Below(level, Mark(j) + Waited)
                 C == Below(level', Mark(k)) \ Held'
      <4>3. /\ Mark(j) + Waited \in Nat /\ Mark(k) = (Mark(j) + Waited) + 1
            /\ Share(k) \in Nat
        BY <2>1, <4>2, Marks DEF Turn
      <4>4. B \in SUBSET Limiters /\ C \in SUBSET B
        BY <1>0, <1>2, <1>3, <4>3
      <4>5. Cardinality(B) + Cardinality(Fresh) <= Share(k)
        BY <1>6, <4>2 DEF GInv, Counted
      <4> HIDE DEF B, C
      <4>6. Cardinality(C) <= Cardinality(B) /\ Cardinality(C) \in Nat /\ Cardinality(B) \in Nat
        BY <4>4, NoMore
      <4>7. Cardinality(Fresh) \in Nat
        BY FreshOrHolding DEF GInv
      <4>8. Cardinality(C) <= Share(k)
        BY <4>3, <4>5, <4>6, <4>7
      <4> QED
        BY <4>8 DEF C
    <3> QED
      BY <3>1, <3>2
  <2> QED
    BY <2>1, <2>2 DEF Counted, Rested
<1> QED
  BY <1>4, <1>5, <1>6

LEMMA CountKept ==
  ASSUME GInv, [Next]_vars
  PROVE  Counted' /\ Rested'
<1> USE DEF GInv
<1>0. /\ TypeOK' /\ HoldersKnown' /\ Cardinality(Fresh) \in Nat /\ IsFiniteSet(Fresh)
      /\ \A l \in Limiters : level'[l] \in Nat
  <2>1. TypeOK' /\ HoldersKnown'
    BY TypesKept, HoldersKept
  <2>2. \A l \in Limiters : level'[l] \in 0..Full
    BY <2>1 DEF TypeOK
  <2> QED
    BY <2>1, <2>2, FreshOrHolding, Constants
<1>1. CASE UNCHANGED <<at, holds, entry, level>>
  BY <1>1, CountStays DEF Held, Used, Fresh
<1>2. CASE Tick
  BY <1>2, CountTick
<1>3. CASE Restart
  <2>1. entry' = None /\ \A l \in Limiters : level'[l] = Full
    BY <1>3 DEF Restart
  <2>2. ASSUME NEW k \in Nat
        PROVE  Cardinality(Below(level', Mark(k)) \ Held') <= Share(k)
    <3>1. Below(level', Mark(k)) \ Held' = {}
      BY <2>1, Constants DEF Below
    <3>2. Share(k) \in Nat
      BY Marks
    <3> QED
      BY <3>1, <3>2, EmptyIsLeast
  <2> QED
    BY <2>1, <2>2 DEF Counted, Rested
<1>4. ASSUME NEW s \in Sessions, at[s] # "fresh", at'[s] # "fresh",
             \E label : Goto(s, label)
      PROVE  Fresh' = Fresh
  BY <1>4 DEF Goto, Fresh, TypeOK
<1>5. ASSUME NEW s \in Sessions, GetLimiter(s)
      PROVE  Counted' /\ Rested'
  <2>1. entry' = entry /\ level' = level /\ at[s] = "limit"
    BY <1>5 DEF GetLimiter, limiterVars
  <2>2. CASE entry = None
    <3>1. holds' = holds
      BY <1>5, <2>2 DEF GetLimiter
    <3> QED
      BY <2>1, <2>2, <3>1, CountStays DEF Held, Used
  <2>3. CASE entry # None
    <3>1. Fresh' = Fresh
      BY <1>5, <2>1, <2>3 DEF GetLimiter, Goto, Fresh, TypeOK
    <3>2. holds' = [holds EXCEPT ![s] = entry.limiter]
      BY <1>5, <2>3 DEF GetLimiter
    <3>3. holds[s] = None
      BY <2>1 DEF HoldersKnown
    <3>4. Held' = Held \cup ({entry.limiter} \ {None})
      BY <3>2, <3>3 DEF Held, TypeOK
    <3>5. Used' = Used
      BY <2>1, <2>3, <3>4 DEF Used
    <3> QED
      BY <2>1, <3>1, <3>4, <3>5, CountStays
  <2> QED
    BY <2>2, <2>3
<1>6. ASSUME NEW s \in Sessions, NEW l \in Limiters, SetDefault(s, l)
      PROVE  /\ entry' # None /\ Waited' = 0
             /\ Used' \subseteq Held \cup {l}
  <2>1. entry' # None /\ entry' = [limiter |-> l, left |-> Idle]
    BY <1>6, SetDefaultTypes DEF SetDefault
  <2>2. Waited' = 0
    BY <2>1, Constants DEF Waited
  <2>3. Held' \subseteq Held
    BY <1>6 DEF SetDefault, Held, TypeOK
  <2> QED
    BY <2>1, <2>2, <2>3 DEF Used
<1>7. ASSUME NEW s \in Sessions, NewLimiter(s)
      PROVE  Counted' /\ Rested'
  <2> DEFINE l == FreeLimiter
  <2>1. /\ l \in Limiters /\ SetDefault(s, l)
        /\ level' = [level EXCEPT ![l] = Full - Cost]
    BY <1>7, NextLimiter DEF NewLimiter
  <2> HIDE DEF l
  <2>2. s \in Fresh /\ Fresh' = Fresh \ {s}
    BY <1>7 DEF NewLimiter, Goto, Fresh, TypeOK
  <2>3. IsFiniteSet(Fresh') /\ Cardinality(Fresh') = Cardinality(Fresh) - 1
    BY <1>0, <2>2, FS_RemoveElement
  <2>4. Cardinality(Fresh') \in Nat
    BY <2>3, FS_CardinalityType
  <2>5. Cardinality({l}) = 1
    BY FS_Singleton
  <2>6. Cardinality({l}) + Cardinality(Fresh') <= Cardinality(Fresh)
    BY <1>0, <2>3, <2>4, <2>5
  <2>7. /\ {l} \in SUBSET Limiters /\ Used' \subseteq Used \cup {l}
        /\ entry' # None /\ Waited' = 0
    BY <1>6, <2>1 DEF Used
  <2>8. \A k \in Limiters \ {l} : level'[k] = level[k]
    BY <2>1 DEF TypeOK
  <2> QED
    BY <1>0, <2>4, <2>6, <2>7, <2>8, CountStored
<1>8. ASSUME NEW s \in Sessions, Allow(s)
      PROVE  Counted' /\ Rested'
  <2>1. holds[s] \in Held /\ UNCHANGED <<holds, entry>>
    BY <1>8 DEF Allow, HoldersKnown, Held
  <2>2. Fresh' = Fresh
    <3>1. at[s] # "fresh" /\ (\E label : Goto(s, label))
      BY <1>8 DEF Allow
    <3>2. at'[s] # "fresh"
      BY <1>8 DEF Allow, Goto, TypeOK
    <3> QED
      BY <1>4, <3>1, <3>2
  <2>3. \A l \in Limiters : level'[l] # level[l] => l = holds[s]
    BY <1>8 DEF Allow, TypeOK
  <2>4. Held' = Held /\ Used' = Used
    BY <2>1 DEF Held, Used
  <2> QED
    BY <2>1, <2>2, <2>3, <2>4, CountStays
<1>9. ASSUME NEW s \in Sessions, SetLimiter(s)
      PROVE  Counted' /\ Rested'
  <2>1. /\ holds[s] \in Limiters /\ holds[s] \in Held
        /\ SetDefault(s, holds[s]) /\ level' = level
    BY <1>9 DEF SetLimiter, TypeOK, HoldersKnown, Held
  <2>2. Fresh' = Fresh
    BY <1>9 DEF SetLimiter, Goto, Fresh, TypeOK
  <2>3. /\ {} \in SUBSET Limiters /\ Cardinality({}) = 0
        /\ Cardinality({}) + Cardinality(Fresh') <= Cardinality(Fresh)
    BY <1>0, <2>2, FS_EmptySet
  <2>4. Used' \subseteq Used \cup {} /\ entry' # None /\ Waited' = 0
    BY <1>6, <2>1 DEF Used
  <2> QED
    BY <1>0, <2>1, <2>2, <2>3, <2>4, CountStored
<1>10. ASSUME NEW s \in Sessions,
              Login(s) \/ Auth(s) \/ Answer(s) \/ RefreshToken(s) \/ Logout(s)
       PROVE  Counted' /\ Rested'
  <2>1. UNCHANGED <<holds, entry, level>>
    BY <1>10 DEF Login, Auth, Answer, RefreshToken, Logout, limiterVars
  <2>2. Fresh' = Fresh
    <3>1. CASE Login(s)
      BY <3>1 DEF Login, Fresh
    <3>2. CASE ~Login(s)
      <4>1. at[s] # "fresh" /\ (\E label : Goto(s, label))
        BY <1>10, <3>2 DEF Auth, Answer, RefreshToken, Logout
      <4>2. at'[s] # "fresh"
        BY <1>10, <3>2 DEF Auth, Answer, RefreshToken, Logout, Goto, TypeOK
      <4> QED
        BY <1>4, <4>1, <4>2
    <3> QED
      BY <3>1, <3>2
  <2>3. Held' = Held /\ Used' = Used
    BY <2>1 DEF Held, Used
  <2> QED
    BY <2>1, <2>2, <2>3, CountStays
<1>11. CASE UNCHANGED vars
  BY <1>1, <1>11 DEF vars, limiterVars
<1> QED
  BY <1>2, <1>3, <1>5, <1>7, <1>8, <1>9, <1>10, <1>11 DEF Next, RateLimiter, LoginAPI

-----------------------------------------------------------------------------
(* The theorems.                                                           *)

(* The parts hold together of every state that the gateway reaches.        *)
THEOREM GatewayInvariance == Spec => []GInv
<1>1. Init => GInv
  BY InitTypes
<1>2. GInv /\ [Next]_vars => GInv'
  BY TypesKept, EndedKept, HoldersKept, CountKept DEF GInv
<1> QED
  BY <1>1, <1>2, PTL DEF Spec

(* Every variable holds a value of its kind; no limiter is above its burst. *)
THEOREM GatewayTypes == Spec => []TypeOK
<1>1. GInv => TypeOK
  BY DEF GInv
<1> QED
  BY <1>1, GatewayInvariance, PTL

(* A token that was logged out is refused from then on, up to the last     *)
(* second of its life: the entry of each kind of store lasts as long as    *)
(* jwt.go:149-159 asks, and nothing but a restart of the memory takes it.  *)
THEOREM LogoutRefuses == Spec => []EndedRefused
<1>1. GInv => EndedRefused
  <2>1. SUFFICES ASSUME GInv, NEW tk \in ended, Accepted(tk)
                 PROVE  Second(now) = ExpiresAt(tk)
    BY DEF EndedRefused
  <2>2. tk \in Tokens /\ now \in Nat
    BY <2>1, GatewayAssumption DEF GInv, TypeOK, GatewayAssumption
  <2>3. ExpiresAt(tk) \in Nat /\ black[tk] \in Nat /\ black[tk] >= 2 * ExpiresAt(tk)
    BY <2>1, <2>2, DestroyTypes DEF GInv, EndedStored, TypeOK
  <2>4. black[tk] <= now /\ Second(now) <= ExpiresAt(tk)
    BY <2>1, <2>2, <2>3 DEF Accepted, Parses, Unexpired, Check
  <2> QED
    BY <2>2, <2>3, <2>4 DEF Second
<1> QED
  BY <1>1, GatewayInvariance, PTL

(* An open session whose token is in date and signed with a configured key *)
(* is refused only if that very token was destroyed, by a session that got *)
(* it in the same second (jwt.go:97-118): a logout ends no other session.  *)
THEOREM LogoutEndsOneSession == Spec => []OpenAccepted
<1>1. GInv => OpenAccepted
  <2>1. SUFFICES ASSUME GInv, NEW s \in Sessions \ closed, token[s] # None,
                        Unexpired(token[s]), token[s].key \in {key, oldKey},
                        ~Accepted(token[s])
                 PROVE  Twin(s)
    BY DEF OpenAccepted
  <2>2. token[s] \in Tokens /\ now \in Nat
    BY <2>1, GatewayAssumption DEF GInv, TypeOK, GatewayAssumption
  <2>3. black[token[s]] > now /\ black[token[s]] \in Nat
    BY <2>1, <2>2 DEF Accepted, Parses, Known, Check, GInv, TypeOK
  <2>4. token[s] \in ended
    BY <2>1, <2>2, <2>3, GatewayAssumption DEF GInv, OnlyEnded, TypeOK, GatewayAssumption
  <2> QED
    BY <2>4 DEF Twin
<1> QED
  BY <1>1, GatewayInvariance, PTL

(* However the requests of a user race for a limiter that the cache does   *)
(* not know yet or any more, and however often it forgets one before it is *)
(* full (ratelimiter.go:92-108), the limiters in use or not full are never *)
(* more than the user has requests at a time, times the generations that   *)
(* an expiration shorter than a refill brings about.                       *)
THEOREM RacesAreLimited == Spec => []LimitHolds
<1>1. GInv => LimitHolds
  <2>1. SUFFICES ASSUME GInv PROVE LimitHolds
    OBVIOUS
  <2>2. /\ Cardinality(Fresh) \in Nat /\ Cardinality(Busy) \in Nat
        /\ Cardinality(Busy) + Cardinality(Fresh) <= Generations * Cardinality(Sessions)
        /\ Generations * Cardinality(Sessions) \in Nat
    BY <2>1, FreshOrHolding, BusyCounted, LimiterSet DEF GInv
  <2> QED
    BY <2>2 DEF LimitHolds
<1> QED
  BY <1>1, GatewayInvariance, PTL

=============================================================================
