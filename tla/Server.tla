------------------------------- MODULE Server -------------------------------
(***************************************************************************)
(* The process from start to exit (internal/bootstrap, pkg/util/command.go, *)
(* internal/wirex), with every goroutine that writes log entries: the main *)
(* one, the two listeners, the reload of the policy, and the requests.     *)
(* The entries go through the hook of pkg/logging, a channel that workers  *)
(* drain into a database and that the shutdown closes.                     *)
(*                                                                         *)
(* What requests do is the business of the other modules: here they use    *)
(* the resources the injector opened, write entries, panic and recover.    *)
(***************************************************************************)
EXTENDS Naturals, FiniteSets

CONSTANTS
  Requests,    \* HTTP requests
  MaxBuffer,   \* the hook's configuration: room in its channel,
  MaxThread    \* and its workers

Background == {"autoLoad", "http", "pprof"}   \* goroutines nothing recovers
Goroutines == {"main"} \cup Background \cup Requests

ASSUME ServerAssumption ==
  /\ MaxBuffer \in Nat /\ MaxThread \in Nat \ {0}
  /\ Requests \cap ({"main"} \cup Background) = {}

Storage == {"db", "cache", "auth"}   \* what BuildInjector opens

VARIABLES
  at,         \* where each goroutine is
  write,      \* how far its call of Write is: "no", "open", "room"
  queued,     \* entries in the hook's channel q
  busy,       \* workers that write an entry
  gone,       \* workers that ended
  closed,     \* the hook's flag, and whether its channel is closed
  qClosed,
  opened,     \* databases and caches that are open; "log" is the hook's
  ticker,     \* Casbinx.ticker: "nil", "on", "stopped"
  tick,       \* a tick waits in its channel
  sc,         \* the channel of signals, of one place: "none", "HUP", "TERM"
  \* no variables of the code
  overdue,    \* the time for the shutdown ran out with requests in progress
  stray,      \* autoLoad had something left to do at Release
  culprit,    \* the goroutine whose panic ended the process
  harmed      \* requests that found storage closed or got no answer

hookVars  == <<queued, busy, gone, closed, qClosed>>
timerVars == <<ticker, tick>>
histVars  == <<overdue, stray, culprit, harmed>>
vars == <<at, write, hookVars, opened, timerVars, sc, histVars>>

Ends  == {"exited", "failed", "killed", "crashed"}
Alive == at["main"] \notin Ends

Goto(g, place) == at' = [at EXCEPT ![g] = place]

Init ==
  /\ at = [g \in Goroutines |-> IF g = "main" THEN "logger" ELSE "none"]
  /\ write = [g \in Goroutines |-> "no"]
  /\ queued = 0 /\ busy = 0 /\ gone = 0 /\ closed = FALSE /\ qClosed = FALSE
  /\ opened = {} /\ ticker = "nil" /\ tick = FALSE /\ sc = "none"
  /\ overdue = FALSE /\ stray = FALSE /\ culprit = "none" /\ harmed = {}

-----------------------------------------------------------------------------
(* pkg/logging/hook.go.  Write looks twice and then sends: three steps.    *)
(* Its caller is at `from` and goes on at one of `to`.                     *)

Full == queued = MaxBuffer

(* Returns without an entry: the hook is closed, or too many jobs.         *)
Drop(g, from, to) ==
  /\ at[g] = from
  /\ \/ write[g] = "no" /\ closed
     \/ write[g] = "open" /\ Full
  /\ write' = [write EXCEPT ![g] = "no"]
  /\ \E place \in to : Goto(g, place)
  /\ UNCHANGED <<hookVars, opened, timerVars, sc, histVars>>

Look(g, from) ==
  /\ at[g] = from
  /\ \/ write[g] = "no" /\ ~closed /\ write' = [write EXCEPT ![g] = "open"]
     \/ write[g] = "open" /\ ~Full /\ write' = [write EXCEPT ![g] = "room"]
  /\ UNCHANGED <<at, hookVars, opened, timerVars, sc, histVars>>

(* Blocks while the channel is full.                                       *)
Send(g, from, to) ==
  /\ at[g] = from /\ write[g] = "room" /\ ~qClosed /\ ~Full
  /\ queued' = queued + 1
  /\ write' = [write EXCEPT ![g] = "no"]
  /\ \E place \in to : Goto(g, place)
  /\ UNCHANGED <<busy, gone, closed, qClosed, opened, timerVars, sc, histVars>>

Write(g, from, to) == Drop(g, from, to) \/ Look(g, from) \/ Send(g, from, to)

(* A send on the closed channel, a blocked one too, panics.                *)
SendPanics(g) == write[g] = "room" /\ qClosed

(* Nothing recovers the panic of a background goroutine.                   *)
Crash(g) ==
  /\ SendPanics(g)
  /\ Goto("main", "crashed") /\ culprit' = g
  /\ UNCHANGED <<write, hookVars, opened, timerVars, sc, overdue, stray, harmed>>

(* dispatch: the workers.  Exec inserts the entry or prints why it could   *)
(* not; the entries of this program never make it panic.                   *)
DequeueAnyway ==   \* mutant: a goroutine for each entry
  /\ queued > 0 /\ queued' = queued - 1 /\ busy' = busy + 1
  /\ UNCHANGED <<at, write, gone, closed, qClosed, opened, timerVars, sc, histVars>>

Dequeue ==
  /\ queued > 0 /\ busy + gone < MaxThread
  /\ queued' = queued - 1 /\ busy' = busy + 1
  /\ UNCHANGED <<at, write, gone, closed, qClosed, opened, timerVars, sc, histVars>>

Exec ==
  /\ busy > 0 /\ busy' = busy - 1
  /\ UNCHANGED <<at, write, queued, gone, closed, qClosed, opened, timerVars, sc, histVars>>

EndWorker ==
  /\ qClosed /\ queued = 0 /\ busy + gone < MaxThread
  /\ gone' = gone + 1
  /\ UNCHANGED <<at, write, queued, busy, closed, qClosed, opened, timerVars, sc, histVars>>

WorkerStep == Dequeue \/ Exec \/ EndWorker

(* Flush, in three steps of the main goroutine.                            *)
SetClosed ==
  /\ at["main"] = "flush" /\ closed' = TRUE /\ Goto("main", "close")
  /\ UNCHANGED <<write, queued, busy, gone, qClosed, opened, timerVars, sc, histVars>>

CloseQueue ==
  /\ at["main"] = "close" /\ qClosed' = TRUE /\ Goto("main", "join")
  /\ UNCHANGED <<write, queued, busy, gone, closed, opened, timerVars, sc, histVars>>

JoinNothing ==   \* mutant: no wg.Wait
  /\ at["main"] = "join"
  /\ opened' = opened \ {"log"} /\ Goto("main", "bye")
  /\ UNCHANGED <<write, hookVars, timerVars, sc, histVars>>

Join ==
  /\ at["main"] = "join" /\ gone = MaxThread
  /\ opened' = opened \ {"log"} /\ Goto("main", "bye")
  /\ UNCHANGED <<write, hookVars, timerVars, sc, histVars>>

-----------------------------------------------------------------------------
(* Start: bootstrap.Run up to the signals.  A step that returns an error   *)
(* ends the process, by the panic of cmd/start.go, with no cleanup.        *)

MainStays == UNCHANGED <<write, hookVars, timerVars, sc, histVars>>

(* The hook's own database is opened, and migrated, and its workers start. *)
InitLoggerHook ==
  \/ Goto("main", "starting") /\ opened' = {"log"}
  \/ Goto("main", "failed") /\ UNCHANGED opened

InitLogger == at["main"] = "logger" /\ InitLoggerHook /\ MainStays

LogStarting == Write("main", "starting", {"pprof", "build"})
LogPprof    == Write("main", "pprof", {"pprof go"})

StartPprof ==
  /\ at["main"] = "pprof go"
  /\ at' = [at EXCEPT !["main"] = "build", !["pprof"] = "serving"]
  /\ MainStays /\ UNCHANGED opened

(* A storage that cannot be opened: the ones before it are closed again.   *)
Open(s, from, to) ==
  /\ at["main"] = from /\ MainStays
  /\ \/ Goto("main", to) /\ opened' = opened \cup {s}
     \/ Goto("main", "failed") /\ opened' = opened \ Storage

InitDB     == Open("db", "build", "build cache")
InitCacher == Open("cache", "build cache", "build auth")
InitAuth   == Open("auth", "build auth", "init")

BuildInjector == InitDB \/ InitCacher \/ InitAuth

(* The migration may fail; the policy, unless it is disabled, is loaded,   *)
(* which writes an entry if there are roles, and then loaded again by      *)
(* autoLoad; a file of menus that cannot be used is an entry.              *)
InitRBAC ==
  \/ /\ at["main"] = "init"
     /\ \E place \in {"failed", "load", "load go", "menus"} : Goto("main", place)
     /\ MainStays /\ UNCHANGED opened
  \/ Write("main", "load", {"load go", "failed"})
  \/ /\ at["main"] = "load go"
     /\ at' = [at EXCEPT !["main"] = "menus", !["autoLoad"] = "start"]
     /\ MainStays /\ UNCHANGED opened
  \/ /\ at["main"] = "menus"
     /\ \E place \in {"menus failed", "defi"} : Goto("main", place)
     /\ MainStays /\ UNCHANGED opened
  \/ Write("main", "menus failed", {"defi"})

(* The migration, the overview or the first sync may fail.                 *)
InitDEFI ==
  /\ at["main"] = "defi"
  /\ \E place \in {"failed", "notify"} : Goto("main", place)
  /\ MainStays /\ UNCHANGED opened

InitModules == InitRBAC \/ InitDEFI

Notify ==
  /\ at["main"] = "notify" /\ Goto("main", "listen")
  /\ MainStays /\ UNCHANGED opened

LogListening == Write("main", "listen", {"listen go"})

StartHTTPServer ==
  /\ at["main"] = "listen go"
  /\ at' = [at EXCEPT !["main"] = "wait", !["http"] = "serving"]
  /\ MainStays /\ UNCHANGED opened

Start == InitLogger \/ LogStarting \/ LogPprof \/ StartPprof \/ BuildInjector
           \/ InitModules \/ Notify \/ LogListening \/ StartHTTPServer

Booting == at["main"] \in {"logger", "starting", "pprof", "pprof go", "build",
                           "build cache", "build auth", "init",
                           "load", "load go", "menus", "menus failed", "defi", "notify"}

-----------------------------------------------------------------------------
(* util.Run and the cleanup it calls.                                      *)

(* Until Notify a signal ends the process.  Later ones go into a channel   *)
(* of one place, and one that finds it taken is lost.                      *)
Signal(s) ==
  /\ \/ Booting /\ Goto("main", "killed") /\ UNCHANGED sc
     \/ ~Booting /\ sc = "none" /\ sc' = s /\ UNCHANGED at
  /\ UNCHANGED <<write, hookVars, opened, timerVars, histVars>>

Receive ==
  /\ at["main"] = "wait" /\ sc # "none"
  /\ Goto("main", sc) /\ sc' = "none"
  /\ UNCHANGED <<write, hookVars, opened, timerVars, histVars>>

LogSignal == Write("main", "HUP", {"wait"}) \/ Write("main", "TERM", {"release"})

Resting == at["autoLoad"] = "none" \/ (at["autoLoad"] = "tick" /\ ~tick /\ ticker = "on")

ReleaseKeepsTicking ==   \* mutant: no ticker.Stop
  /\ at["main"] = "release" /\ Goto("main", "shutdown")
  /\ UNCHANGED ticker
  /\ stray' = ~Resting
  /\ UNCHANGED <<write, hookVars, opened, tick, sc, overdue, culprit, harmed>>

Release ==
  /\ at["main"] = "release" /\ Goto("main", "shutdown")
  /\ ticker' = IF ticker = "on" THEN "stopped" ELSE ticker
  /\ stray' = ~Resting
  /\ UNCHANGED <<write, hookVars, opened, tick, sc, overdue, culprit, harmed>>

(* http.Server.Shutdown: first no more connections, then wait for those    *)
(* in progress, but not longer than ShutdownTimeout.                       *)
StopListening ==
  /\ at["main"] = "shutdown"
  /\ at' = [at EXCEPT !["main"] = "drain",
                      !["http"] = IF @ = "serving" THEN "none" ELSE @]
  /\ MainStays /\ UNCHANGED opened

Idle(r) == at[r] \in {"none", "done"}

DrainForever ==   \* mutant: no timeout
  /\ at["main"] = "drain" /\ \A r \in Requests : Idle(r)
  /\ Goto("main", "auth") /\ UNCHANGED overdue
  /\ UNCHANGED <<write, hookVars, opened, timerVars, sc, stray, culprit, harmed>>

DrainAtOnce ==   \* mutant: the server's Close
  /\ at["main"] = "drain"
  /\ Goto("main", "auth") /\ UNCHANGED overdue
  /\ UNCHANGED <<write, hookVars, opened, timerVars, sc, stray, culprit, harmed>>

Drain ==
  /\ at["main"] = "drain"
  /\ IF \A r \in Requests : Idle(r)
       THEN Goto("main", "auth") /\ UNCHANGED overdue
       ELSE Goto("main", "overdue") /\ overdue' = TRUE
  /\ UNCHANGED <<write, hookVars, opened, timerVars, sc, stray, culprit, harmed>>

LogOverdue == Write("main", "overdue", {"auth"})

(* The injector's cleanup, then the logger's.                              *)
Cleanup == <<"auth", "cache", "db", "flush">>

CloseStorage ==
  /\ \E i \in 1..3 : /\ at["main"] = Cleanup[i] /\ Goto("main", Cleanup[i + 1])
                     /\ opened' = opened \ {Cleanup[i]}
  /\ MainStays

LogBye == Drop("main", "bye", {"sleep"})   \* the hook is closed by now

Exit == at["main"] = "sleep" /\ Goto("main", "exited") /\ MainStays /\ UNCHANGED opened

Stop == Receive \/ LogSignal \/ Release \/ StopListening \/ Drain \/ LogOverdue
          \/ CloseStorage \/ SetClosed \/ CloseQueue \/ Join \/ LogBye \/ Exit

MainStep == Start \/ Stop

-----------------------------------------------------------------------------
(* A listener that fails, at once or after it has served, writes an entry  *)
(* at any later time, and the process stays.  Nothing depends on that of   *)
(* pprof before it writes.  One that was shut down is gone.                *)
ListenFails ==
  \/ /\ at["http"] = "serving" /\ Goto("http", "listen failed")
     /\ MainStays /\ UNCHANGED opened
  \/ Write("http", "listen failed", {"none"})
  \/ Write("pprof", "serving", {"none"})

(* Casbinx.autoLoad: the ticker, the key of the last change, the load.     *)
(* Closed storage is one of the reasons for its entries.                   *)
AutoLoad ==
  \/ /\ at["autoLoad"] = "start" /\ Goto("autoLoad", "tick") /\ ticker' = "on"
     /\ UNCHANGED <<write, hookVars, opened, tick, sc, histVars>>
  \/ /\ at["autoLoad"] = "tick" /\ tick /\ Goto("autoLoad", "load") /\ tick' = FALSE
     /\ UNCHANGED <<write, hookVars, opened, ticker, sc, histVars>>
  \/ /\ at["autoLoad"] = "load"
     /\ \E place \in {"tick", "log"} : Goto("autoLoad", place)
     /\ MainStays /\ UNCHANGED opened
  \/ Write("autoLoad", "log", {"tick", "log"})

Tick ==
  /\ ticker = "on" /\ tick' = TRUE
  /\ UNCHANGED <<at, write, hookVars, opened, ticker, sc, histVars>>

-----------------------------------------------------------------------------
(* A request: Recovery around Logger around the handler.                   *)

Accept(r) ==
  /\ at[r] = "none" /\ at["http"] = "serving" /\ Goto(r, "handle")
  /\ MainStays /\ UNCHANGED opened

(* The handler, and the middlewares inside Logger, use the storage.        *)
Use(r) ==
  /\ at[r] = "handle" /\ write[r] = "no"
  /\ harmed' = IF Storage \subseteq opened THEN harmed ELSE harmed \cup {r}
  /\ UNCHANGED <<at, write, hookVars, opened, timerVars, sc, overdue, stray, culprit>>

(* Entries of the handler, of ResError for an internal error and, at last, *)
(* of Logger.                                                              *)
LogRequest(r) == Write(r, "handle", {"handle", "done"})

HandlerPanics(r) ==
  /\ at[r] = "handle" /\ write[r] = "no" /\ Goto(r, "recover")
  /\ MainStays /\ UNCHANGED opened

(* Recovery writes an entry and answers with an error, which is another.   *)
LogPanic(r) == Write(r, "recover", {"answer"})
ResError(r) == Write(r, "answer", {"done"})

(* Recovery recovers the panics inside it, not its own: net/http does, and *)
(* drops the connection.                                                   *)
WritePanics(r) ==
  /\ SendPanics(r)
  /\ write' = [write EXCEPT ![r] = "no"]
  /\ Goto(r, IF at[r] = "handle" THEN "recover" ELSE "done")
  /\ harmed' = harmed \cup {r}
  /\ UNCHANGED <<hookVars, opened, timerVars, sc, overdue, stray, culprit>>

Request(r) == Accept(r) \/ Use(r) \/ LogRequest(r) \/ HandlerPanics(r)
                \/ LogPanic(r) \/ ResError(r) \/ WritePanics(r)

Next ==
  /\ Alive
  /\ \/ MainStep \/ WorkerStep \/ AutoLoad \/ Tick
     \/ \E s \in {"HUP", "TERM"} : Signal(s)
     \/ ListenFails
     \/ \E g \in Background : Crash(g)
     \/ \E r \in Requests : Request(r)

(* The main goroutine goes on; where it blocks in a send it waits in line, *)
(* so that room in the channel is its own in the end.  The workers go on:  *)
(* the log database answers.  Requests may hang.                           *)
Fairness == SF_vars(Alive /\ MainStep) /\ WF_vars(Alive /\ WorkerStep)

Spec     == Init /\ [][Next]_vars
FairSpec == Spec /\ Fairness

-----------------------------------------------------------------------------
Places ==
  Ends \cup {"none", "done"} \cup
  {"logger", "starting", "pprof", "pprof go", "build", "build cache", "build auth",
   "init", "load", "load go", "menus", "menus failed", "defi", "notify", "listen",
   "listen go", "wait", "HUP", "TERM", "release", "shutdown", "drain", "overdue",
   "auth", "cache", "db", "flush", "close", "join", "bye", "sleep"} \cup
  {"serving", "listen failed", "start", "tick", "log", "handle", "recover", "answer"}

TypeOK ==
  /\ at \in [Goroutines -> Places] /\ write \in [Goroutines -> {"no", "open", "room"}]
  /\ queued \in 0..MaxBuffer /\ {busy, gone, busy + gone} \subseteq 0..MaxThread
  /\ {closed, qClosed, tick, overdue} \subseteq BOOLEAN
  /\ opened \subseteq Storage \cup {"log"}
  /\ ticker \in {"nil", "on", "stopped"} /\ sc \in {"none", "HUP", "TERM"}
  /\ stray \in BOOLEAN /\ culprit \in Background \cup {"none"}
  /\ harmed \subseteq Requests

(* No entry the hook took is lost by an exit after a signal, and none is   *)
(* given to a closed database: whoever still writes while the hook is      *)
(* flushed (hook.go:97-125).                                               *)
EntriesKept ==
  /\ at["main"] = "exited" => queued = 0 /\ busy = 0
  /\ busy > 0 => "log" \in opened

(* A request finds its storage closed, or panics in the hook and answers   *)
(* twice or not at all, only after the time for the shutdown ran out while *)
(* it was in progress (bootstrap.go:90-104, http.go:96-103).               *)
HarmedWereOverdue == harmed # {} => overdue

(* The process ends in the middle of its cleanup, by a send on the channel *)
(* it has closed in a goroutine that nothing recovers and nothing waits    *)
(* for, only in two ways.  The reload of the policy had something left to  *)
(* do when the modules were released: a tick that had fired, a load in     *)
(* progress, or a ticker not yet made, which Release cannot stop           *)
(* (casbin.go:189-222).  Or a listener that failed was about to write that *)
(* (http.go:90, bootstrap.go:66), the one that is shut down before that.   *)
CrashesWereStray ==
  /\ culprit # "none" => qClosed
  /\ culprit = "autoLoad" => stray
  /\ culprit = "http" => at["http"] = "listen failed"

(* A TERM that reached the channel ends the process, however requests      *)
(* hang and whoever competes for the hook (command.go:27-43).              *)
SignalEnds == sc = "TERM" ~> ~Alive

=============================================================================
