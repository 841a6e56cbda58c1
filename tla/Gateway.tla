------------------------------- MODULE Gateway -------------------------------
(***************************************************************************)
(* The way of a request of one user through the middlewares that keep      *)
(* state: authentication by token with a store of destroyed tokens         *)
(* (pkg/jwtx over pkg/cachex), the rate limiter (pkg/middleware), and the  *)
(* handlers that make and destroy tokens.  Tokens and limiters of two      *)
(* users never meet.  Restarts, with the same keys or others, may come at  *)
(* any time.  Whether the user's account is in order is Accounts' business,    *)
(* whether its roles permit the path PolicyReload's.                       *)
(*                                                                         *)
(* Time passes in half seconds: tokens count in seconds, caches in         *)
(* nanoseconds.                                                            *)
(***************************************************************************)
EXTENDS Naturals, FiniteSets, FiniteSetsExt

CONSTANTS
  Sessions,   \* clients of the user, each with one request at a time
  Stores,     \* kinds of token store deployed: "memory", "badger", "redis"
  Keys,       \* signing keys
  None,       \* no token, no key, no limiter
  Expired,    \* config Auth.Expired, in seconds
  Period,     \* config RateLimiter.Period, in seconds
  Burst,      \* config RateLimiter.MaxRequestsPerUser
  Idle,       \* config RateLimiter.Store.Memory.Expiration, in half seconds, if not 0
  MaxNow      \* bound on the clock, in half seconds

Second(t) == t \div 2
Never     == MaxNow + 1   \* no expiration: beyond the bound

(* GenerateToken signs the user and the second, and nothing that would     *)
(* tell two tokens of one second apart.                                    *)
Tokens == [iat : 0..Second(MaxNow), key : Keys]

Cost     == 2 * Period   \* of a request, in half seconds of refill
Full     == Burst * Cost

(* How often the cache can forget a limiter, and the user be given another, *)
(* before an empty one is full again.                                      *)
Generations == (Full + Idle) \div (Idle + 1)

Limiters == 1..(Generations * Cardinality(Sessions) + 1)
Entries  == [limiter : Limiters, left : 0..Idle]   \* what is cached, how long

ASSUME GatewayAssumption ==
  /\ Stores \subseteq {"memory", "badger", "redis"}
  /\ {Expired, Period, Burst, Idle} \subseteq Nat \ {0}
  /\ MaxNow \in Nat
  /\ IsFiniteSet(Sessions)
  /\ None \notin Keys \cup Tokens \cup Limiters \cup Entries

VARIABLES
  now, store, key, oldKey,
  token,      \* the token each client uses, or None
  closed,     \* the clients that logged out since they logged in
  black,      \* store of destroyed tokens: token -> when its entry is gone
  at, holds,  \* where the request of a session is; the limiter it got
  entry,      \* the limiter in the cache and the half seconds left, or None
  level,      \* what is in each limiter, in half seconds of refill
  \* no variable of the code
  ended       \* tokens destroyed by a logout whose entry no restart has lost

clientVars  == <<token, closed>>
limiterVars == <<entry, level>>
configVars  == <<store, key, oldKey>>
vars == <<now, configVars, clientVars, black, at, holds, limiterVars, ended>>

Init ==
  /\ now = 0
  /\ store \in Stores /\ key \in Keys /\ oldKey = None
  /\ token = [s \in Sessions |-> None] /\ closed = {}
  /\ black = [tk \in Tokens |-> 0]
  /\ at = [s \in Sessions |-> "idle"] /\ holds = [s \in Sessions |-> None]
  /\ entry = None /\ level = [l \in Limiters |-> Full]
  /\ ended = {}

-----------------------------------------------------------------------------
(* pkg/jwtx.                                                               *)

ExpiresAt(tk) == tk.iat + Expired
Unexpired(tk) == Second(now) <= ExpiresAt(tk)   \* jwt's VerifyExpiresAt

KnownFirstOnly(tk) == tk.key = key   \* mutant: one keyFunc

Known(tk) == tk.key \in {key, oldKey}
Parses(tk) == Known(tk) /\ Unexpired(tk)

Check(tk) == black[tk] > now

(* ParseSubject.                                                           *)
Accepted(tk) == Parses(tk) /\ ~Check(tk)

GenerateToken == [iat |-> Second(now), key |-> key]

(* When an entry that is to last until half second t is gone, in each kind *)
(* of cachex.Cacher: memory keeps it through t, and for ever if t is not   *)
(* in the future; so does redis; badger counts in seconds.                 *)
MemoryGoneAt(t) == IF t > now THEN t + 1 ELSE Never
RedisGoneAt(t)  == IF t > now THEN t + 1 ELSE Never
BadgerGoneAt(t) == 2 * Second(t)

GoneAt(t) ==
  CASE store = "memory" -> MemoryGoneAt(t)
    [] store = "redis"  -> RedisGoneAt(t)
    [] store = "badger" -> BadgerGoneAt(t)

(* DestroyToken keeps the entry until the token's ExpiresAt.               *)
DestroyFromIssue(tk) ==   \* mutant: IssuedAt in the place of ExpiresAt
  black' = [black EXCEPT ![tk] = GoneAt(2 * tk.iat)]

DestroyToken(tk) ==
  black' = [black EXCEPT ![tk] = GoneAt(2 * ExpiresAt(tk))]

-----------------------------------------------------------------------------
(* The limiters.  One that nobody refers to any more goes on to fill, as   *)
(* if it were still there: until it is full it counts as one that the user *)
(* has had besides.  Full, it is as good as a new one.                     *)

Held == { holds[s] : s \in Sessions } \ {None}
Used == Held \cup (IF entry = None THEN {} ELSE {entry.limiter})
Busy == Used \cup { l \in Limiters : level[l] < Full }

FreeLimiter == CHOOSE l \in Limiters \ Busy : \A k \in Limiters \ Busy : l <= k

(* SetDefault(identifier, limiter) by s, which lets go of it.              *)
SetDefault(s, l) ==
  /\ entry' = [limiter |-> l, left |-> Idle]
  /\ holds' = [holds EXCEPT ![s] = None]

RefillUncapped(l) == level[l] + 1   \* mutant: no burst

Refill(l) == Min({level[l] + 1, Full})

Goto(s, label) == at' = [at EXCEPT ![s] = label]

-----------------------------------------------------------------------------

(* Half a second passes.                                                   *)
Expires == entry # None /\ entry.left = 0

Tick ==
  /\ now < MaxNow
  /\ now' = now + 1
  /\ UNCHANGED <<configVars, clientVars, black, at, holds, ended>>
  /\ entry' = IF entry = None \/ Expires THEN None ELSE [entry EXCEPT !.left = @ - 1]
  /\ level' = [l \in Limiters |-> Refill(l)]

(* The process starts anew, with the keys that the configuration says now; *)
(* what was in memory is gone.                                             *)
Restart ==
  /\ key' \in Keys /\ oldKey' \in (Keys \cup {None}) \ {key'}
  /\ at' = [s \in Sessions |-> "idle"] /\ holds' = [s \in Sessions |-> None]
  /\ entry' = None /\ level' = [l \in Limiters |-> Full]
  /\ IF store = "memory"
     THEN black' = [tk \in Tokens |-> 0] /\ ended' = {}
     ELSE UNCHANGED <<black, ended>>
  /\ UNCHANGED <<now, store, clientVars>>

(* Login.Login, which authentication skips.                                *)
Login(s) ==
  /\ at[s] = "idle"
  /\ token' = [token EXCEPT ![s] = GenerateToken]
  /\ closed' = closed \ {s}
  /\ UNCHANGED <<now, configVars, black, at, holds, limiterVars, ended>>

-----------------------------------------------------------------------------
(* A request with a token: AuthWithConfig, RateLimiterWithConfig, a        *)
(* handler.  A refusal before the limiter changes nothing and is no step.  *)

Auth(s) ==
  /\ at[s] = "idle" /\ token[s] # None /\ s \notin closed
  /\ Accepted(token[s])
  /\ Goto(s, "limit")
  /\ UNCHANGED <<now, configVars, clientVars, black, holds, limiterVars, ended>>

(* Allow looks for the user's limiter.                                     *)
GetLimiter(s) ==
  /\ at[s] = "limit"
  /\ IF entry = None THEN Goto(s, "fresh") /\ UNCHANGED holds
     ELSE Goto(s, "allow") /\ holds' = [holds EXCEPT ![s] = entry.limiter]
  /\ UNCHANGED <<now, configVars, clientVars, black, limiterVars, ended>>

(* It found none: a limiter of its own, whatever others stored meanwhile.  *)
NewLimiterNotStored(s) ==   \* mutant: SetDefault forgotten
  /\ at[s] = "fresh"
  /\ level' = [level EXCEPT ![FreeLimiter] = Full - Cost]
  /\ Goto(s, "handle")
  /\ UNCHANGED <<now, configVars, clientVars, black, holds, entry, ended>>

NewLimiter(s) ==
  /\ at[s] = "fresh"
  /\ level' = [level EXCEPT ![FreeLimiter] = Full - Cost]
  /\ SetDefault(s, FreeLimiter)
  /\ Goto(s, "handle")
  /\ UNCHANGED <<now, configVars, clientVars, black, ended>>

(* It found one: limiter.Allow, then SetDefault of that limiter.           *)
Allow(s) ==
  /\ at[s] = "allow"
  /\ IF level[holds[s]] >= Cost
     THEN /\ level' = [level EXCEPT ![holds[s]] = @ - Cost]
          /\ Goto(s, "allowed")
     ELSE /\ Goto(s, "refused")
          /\ UNCHANGED level
  /\ UNCHANGED <<now, configVars, clientVars, black, holds, entry, ended>>

SetLimiter(s) ==
  /\ at[s] \in {"allowed", "refused"}
  /\ SetDefault(s, holds[s])
  /\ Goto(s, IF at[s] = "allowed" THEN "handle" ELSE "idle")
  /\ UNCHANGED <<now, configVars, clientVars, black, level, ended>>

(* Any other handler, or none because casbin denies.                       *)
Answer(s) ==
  /\ at[s] = "handle"
  /\ Goto(s, "idle")
  /\ UNCHANGED <<now, configVars, clientVars, black, holds, limiterVars, ended>>

(* Login.RefreshToken leaves the old token as it is.                       *)
RefreshToken(s) ==
  /\ at[s] = "handle"
  /\ token' = [token EXCEPT ![s] = GenerateToken]
  /\ Goto(s, "idle")
  /\ UNCHANGED <<now, configVars, closed, black, holds, limiterVars, ended>>

(* Login.Logout: the token is parsed again before it is destroyed.         *)
Logout(s) ==
  /\ at[s] = "handle" /\ Parses(token[s])
  /\ DestroyToken(token[s])
  /\ ended' = ended \cup {token[s]}
  /\ closed' = closed \cup {s}
  /\ Goto(s, "idle")
  /\ UNCHANGED <<now, configVars, token, holds, limiterVars>>

-----------------------------------------------------------------------------

RateLimiter(s) == GetLimiter(s) \/ NewLimiter(s) \/ Allow(s) \/ SetLimiter(s)
LoginAPI(s)    == Login(s) \/ RefreshToken(s) \/ Logout(s)

Next ==
  \/ Tick
  \/ Restart
  \/ \E s \in Sessions : Auth(s) \/ RateLimiter(s) \/ Answer(s) \/ LoginAPI(s)

Spec == Init /\ [][Next]_vars

-----------------------------------------------------------------------------
(* Properties.                                                             *)

(* Every variable holds a value of its kind; no limiter is above its burst. *)
TypeOK ==
  /\ now \in 0..MaxNow /\ store \in Stores
  /\ key \in Keys /\ oldKey \in (Keys \cup {None}) \ {key}
  /\ token \in [Sessions -> Tokens \cup {None}] /\ closed \subseteq Sessions
  /\ black \in [Tokens -> Nat]
  /\ at \in [Sessions -> {"idle", "limit", "fresh", "allow", "allowed", "refused", "handle"}]
  /\ holds \in [Sessions -> Limiters \cup {None}]
  /\ entry \in Entries \cup {None}
  /\ level \in [Limiters -> 0..Full]
  /\ ended \subseteq Tokens

(* A token that was logged out is refused, unless the store was in the     *)
(* memory of a process that ended, or in the last second of the token's    *)
(* life: the token is valid through the second ExpiresAt, the entry until  *)
(* the second begins (jwt.go:149-159).                                     *)
EndedRefused == \A tk \in ended : Accepted(tk) => Second(now) = ExpiresAt(tk)

(* A logout ends that session and no other: an open session whose token    *)
(* has not expired, signed with one of the two configured keys, is refused *)
(* only if its token was destroyed - which takes another session of the    *)
(* user, or an earlier one of this client, that began, or was refreshed,   *)
(* in the same second (jwt.go:97-118, login.biz.go:229).                  *)
Twin(s) == token[s] \in ended

OpenAccepted ==
  \A s \in Sessions \ closed :
    token[s] # None /\ Unexpired(token[s]) /\ token[s].key \in {key, oldKey}
      => Accepted(token[s]) \/ Twin(s)

(* Requests race for the first limiter and with the expiry of the last, and *)
(* the cache may forget a limiter before it is full again: configs/dev says *)
(* after 3600 s, and it takes 500 times 10 s.  Yet since the process began, *)
(* those in use or not yet full are never more than one for each request at *)
(* a time, as often as one can be forgotten before it is full.  The user    *)
(* gets no more than so many buckets of Burst let pass, each filling by one *)
(* per Period (ratelimiter.go:92-108): one bucket, if the requests come one *)
(* after the other and Full <= Idle + 1.                                    *)
LimitHolds == Cardinality(Busy) <= Generations * Cardinality(Sessions)

=============================================================================
