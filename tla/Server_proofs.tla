--------------------------- MODULE Server_proofs ---------------------------
(***************************************************************************)
(* Proofs about Server, for any requests, any size of the hook's channel   *)
(* and any number of its workers: however the start, the signals, the      *)
(* shutdown and Release interleave with the requests, the reload of the    *)
(* policy and the hook.                                                    *)
(***************************************************************************)
EXTENDS Server, TLAPS

-----------------------------------------------------------------------------
(* The inductive invariant.                                                *)

(* Where the main goroutine is while requests may be accepted, while all   *)
(* storage is open, and after Release.                                     *)
Serving  == {"wait", "HUP", "TERM", "release", "shutdown"}
Stored   == {"init", "load", "load go", "menus", "menus failed", "defi",
             "notify", "listen", "listen go", "drain", "overdue", "auth"} \cup Serving
Released == {"shutdown", "drain", "overdue", "auth", "cache", "db", "flush",
             "close", "join", "bye", "sleep", "exited"}

InWrite(g) == CASE g = "autoLoad" -> {"log"}
                [] g = "http"     -> {"listen failed"}
                [] g = "pprof"    -> {"serving"}
                [] OTHER          -> {"handle", "recover", "answer"}

(* Who has begun a call of Write is at one of its calls.                   *)
WritersWrite ==
  \A g \in Background \cup Requests : write[g] # "no" => at[g] \in InWrite(g)

(* Nobody is anywhere before it is started.                                *)
BeforePprof  == {"logger", "starting", "pprof", "pprof go"}
BeforeReload == {"build", "build cache", "build auth", "init", "load", "load go"}
                  \cup BeforePprof
BeforeListen == {"menus", "menus failed", "defi", "notify", "listen", "listen go"}
                  \cup BeforeReload

StartsOnce ==
  /\ at["main"] \in BeforePprof  => at["pprof"] = "none"
  /\ at["main"] \in BeforeReload => at["autoLoad"] = "none"
  /\ at["main"] \in BeforeListen =>
       at["http"] = "none" /\ \A r \in Requests : at[r] = "none"

(* The hook: closed by the main goroutine only, a worker ends only when    *)
(* the closed channel is empty, and its database outlives the workers.     *)
HookSound ==
  /\ qClosed => at["main"] \in {"join", "bye", "sleep", "exited", "crashed"}
  /\ gone > 0 => qClosed /\ queued = 0
  /\ at["main"] \in {"bye", "sleep", "exited"} => gone = MaxThread
  /\ at["main"] = "logger" \/ "log" \notin opened => queued = 0 /\ busy = 0
  /\ "log" \notin opened => gone = MaxThread \/ at["main"] = "logger" \/ ~Alive

StorageSound ==
  /\ at["main"] \in {"build cache", "build auth"} => "db" \in opened
  /\ at["main"] = "build auth" => "cache" \in opened
  /\ at["main"] \in Stored => Storage \subseteq opened
  /\ at["http"] = "serving" => at["main"] \in Serving \cup {"crashed"}
  /\ \A r \in Requests :
       ~Idle(r) /\ ~overdue => at["main"] \in Serving \cup {"drain", "crashed"}

ReloadSound ==
  /\ at["main"] \in Released /\ ~stray =>
       /\ ticker # "on"
       /\ at["autoLoad"] = "none" \/ (at["autoLoad"] = "tick" /\ ~tick)
  /\ culprit # "none" => at["main"] = "crashed"
  /\ CrashesWereStray

-----------------------------------------------------------------------------
(* What the pieces of an action do.                                        *)

LEMMA GotoPlace ==
  ASSUME TypeOK, NEW g \in Goroutines, NEW place \in Places, Goto(g, place)
  PROVE  /\ at' \in [Goroutines -> Places] /\ at'[g] = place
         /\ \A h \in Goroutines : h # g => at'[h] = at[h]
BY DEF Goto, TypeOK

(* A step of Write: its caller goes on, or stays for the next step.        *)
LEMMA WriteStep ==
  ASSUME TypeOK, NEW g \in Goroutines, NEW from, NEW to \in SUBSET Places,
         Write(g, from, to)
  PROVE  /\ at[g] = from
         /\ at' \in [Goroutines -> Places]
         /\ write' \in [Goroutines -> {"no", "open", "room"}]
         /\ at'[g] \in to \/ at'[g] = from
         /\ write'[g] # "no" => at'[g] = from
         /\ \A h \in Goroutines : h # g => at'[h] = at[h] /\ write'[h] = write[h]
         /\ queued' \in 0..MaxBuffer
         /\ queued' = queued \/ ~qClosed
         /\ UNCHANGED <<busy, gone, closed, qClosed, opened, timerVars, sc, histVars>>
<1>1. CASE Drop(g, from, to)
  BY <1>1 DEF Drop, Goto, TypeOK, hookVars
<1>2. CASE Look(g, from)
  BY <1>2 DEF Look, TypeOK, hookVars
<1>3. CASE Send(g, from, to)
  <2>1. queued' \in 0..MaxBuffer /\ ~qClosed
    BY <1>3, ServerAssumption DEF Send, Full, TypeOK
  <2> QED BY <1>3, <2>1 DEF Send, Goto, TypeOK
<1> QED BY <1>1, <1>2, <1>3 DEF Write

-----------------------------------------------------------------------------
(* Type correctness.                                                       *)

LEMMA WriteType ==
  ASSUME TypeOK, NEW g \in Goroutines, NEW from, NEW to \in SUBSET Places,
         Write(g, from, to)
  PROVE  TypeOK'
BY WriteStep DEF TypeOK, timerVars, histVars

(* A goroutine goes to a place, and nothing but the storage changes.       *)
LEMMA GotoType ==
  ASSUME TypeOK, NEW g \in Goroutines, NEW place \in Places, Goto(g, place),
         UNCHANGED <<write, hookVars, timerVars, sc, histVars>>,
         opened' \subseteq Storage \cup {"log"}
  PROVE  TypeOK'
BY GotoPlace DEF TypeOK, hookVars, timerVars, histVars

LEMMA WorkerType ==
  ASSUME TypeOK, WorkerStep
  PROVE  TypeOK'
BY ServerAssumption
   DEF TypeOK, WorkerStep, Dequeue, Exec, EndWorker, timerVars, histVars

LEMMA StartType ==
  ASSUME TypeOK, Start
  PROVE  TypeOK'
<1>0. {"main", "pprof", "http", "autoLoad"} \subseteq Goroutines
  BY DEF Goroutines, Background
<1>1. CASE InitLogger
  BY <1>0, <1>1, GotoType DEF InitLogger, InitLoggerHook, MainStays, TypeOK, Places, Ends
<1>2. CASE LogStarting \/ LogPprof \/ LogListening
  BY <1>0, <1>2, WriteType DEF LogStarting, LogPprof, LogListening, Places
<1>3. CASE StartPprof \/ StartHTTPServer
  <2>1. at' \in [Goroutines -> Places]
    BY <1>0, <1>3 DEF StartPprof, StartHTTPServer, Places, TypeOK
  <2> QED BY <1>3, <2>1 DEF StartPprof, StartHTTPServer, MainStays, TypeOK, hookVars,
                            timerVars, histVars
<1>4. CASE BuildInjector
  BY <1>0, <1>4, GotoType DEF BuildInjector, InitDB, InitCacher, InitAuth, Open,
     Storage, MainStays, TypeOK, Places, Ends
<1>5. CASE InitRBAC
  <2>1. CASE /\ at' = [at EXCEPT !["main"] = "menus", !["autoLoad"] = "start"]
             /\ MainStays /\ UNCHANGED opened
    <3>1. at' \in [Goroutines -> Places]
      BY <1>0, <2>1 DEF Places, TypeOK
    <3> QED BY <2>1, <3>1 DEF MainStays, TypeOK, hookVars, timerVars, histVars
  <2>2. CASE \E place \in {"failed", "load", "load go", "menus", "menus failed", "defi"} :
               Goto("main", place) /\ MainStays /\ UNCHANGED opened
    BY <1>0, <2>2, GotoType DEF MainStays, TypeOK, Places, Ends
  <2>3. CASE \/ Write("main", "load", {"load go", "failed"})
             \/ Write("main", "menus failed", {"defi"})
    BY <1>0, <2>3, WriteType DEF Places, Ends
  <2> QED BY <1>5, <2>1, <2>2, <2>3 DEF InitRBAC
<1>6. CASE InitDEFI \/ Notify
  BY <1>0, <1>6, GotoType DEF InitDEFI, Notify, MainStays, TypeOK, Places, Ends
<1> QED BY <1>1, <1>2, <1>3, <1>4, <1>5, <1>6 DEF Start, InitModules

LEMMA StopType ==
  ASSUME TypeOK, Stop
  PROVE  TypeOK'
<1>0. "main" \in Goroutines
  BY DEF Goroutines
<1>1. CASE Receive \/ Release \/ Drain
  <2>1. PICK place \in Places : Goto("main", place)
    <3>1. sc # "none" => sc \in Places
      BY DEF TypeOK, Places
    <3> QED BY <1>1, <3>1 DEF Receive, Release, Drain, Places
  <2>2. at' \in [Goroutines -> Places]
    BY <1>0, <2>1, GotoPlace
  <2> QED BY <1>1, <2>2
          DEF Receive, Release, Drain, Resting, TypeOK, hookVars, timerVars, histVars
<1>2. CASE LogSignal \/ LogOverdue \/ LogBye
  BY <1>0, <1>2, WriteType DEF LogSignal, LogOverdue, LogBye, Write, Places
<1>3. CASE StopListening
  <2>1. at' \in [Goroutines -> Places]
    BY <1>3 DEF StopListening, TypeOK, Places
  <2> QED BY <1>3, <2>1
          DEF StopListening, MainStays, TypeOK, hookVars, timerVars, histVars
<1>4. CASE CloseStorage
  <2>1. PICK i \in 1..3 : /\ Goto("main", Cleanup[i + 1])
                          /\ opened' = opened \ {Cleanup[i]}
    BY <1>4 DEF CloseStorage
  <2>2. Cleanup[i + 1] \in Places
    <3>1. i + 1 = 2 \/ i + 1 = 3 \/ i + 1 = 4
      OBVIOUS
    <3>2. Cleanup[2] \in Places /\ Cleanup[3] \in Places /\ Cleanup[4] \in Places
      BY DEF Cleanup, Places
    <3> QED BY <3>1, <3>2
  <2> QED BY <1>0, <1>4, <2>1, <2>2, GotoType DEF CloseStorage, MainStays, TypeOK
<1>5. CASE SetClosed \/ CloseQueue \/ Join \/ Exit
  <2>1. PICK place \in Places : Goto("main", place)
    BY <1>5 DEF SetClosed, CloseQueue, Join, Exit, Places, Ends
  <2>2. at' \in [Goroutines -> Places]
    BY <1>0, <2>1, GotoPlace
  <2> QED BY <1>5, <2>2
          DEF SetClosed, CloseQueue, Join, Exit, MainStays, TypeOK, hookVars,
              timerVars, histVars
<1> QED BY <1>1, <1>2, <1>3, <1>4, <1>5 DEF Stop

LEMMA BackgroundType ==
  ASSUME TypeOK,
         \/ AutoLoad \/ Tick
         \/ \E s \in {"HUP", "TERM"} : Signal(s)
         \/ ListenFails
         \/ \E g \in Background : Crash(g)
  PROVE  TypeOK'
<1>0. {"main", "pprof", "http", "autoLoad"} \subseteq Goroutines
  BY DEF Goroutines, Background
<1>1. CASE AutoLoad
  <2>1. CASE Write("autoLoad", "log", {"tick", "log"})
    BY <1>0, <2>1, WriteType DEF Places
  <2>2. ASSUME NEW place \in {"tick", "load", "log"}, Goto("autoLoad", place),
               UNCHANGED <<write, hookVars, opened, sc, histVars>>,
               ticker' \in {ticker, "on"}, tick' \in {tick, FALSE}
        PROVE  TypeOK'
    <3>1. at' \in [Goroutines -> Places]
      BY <1>0, <2>2, GotoPlace DEF Places
    <3> QED BY <2>2, <3>1 DEF TypeOK, hookVars, histVars
  <2> QED BY <1>1, <2>1, <2>2 DEF AutoLoad, MainStays, timerVars
<1>2. CASE Tick
  BY <1>2 DEF Tick, TypeOK, hookVars, histVars
<1>3. ASSUME NEW s \in {"HUP", "TERM"}, Signal(s)
      PROVE  TypeOK'
  <2>1. at' \in [Goroutines -> Places]
    BY <1>0, <1>3, GotoPlace DEF Signal, Places, Ends, TypeOK
  <2> QED BY <1>3, <2>1 DEF Signal, TypeOK, hookVars, timerVars, histVars
<1>4. CASE ListenFails
  <2>1. CASE Goto("http", "listen failed") /\ MainStays /\ UNCHANGED opened
    BY <1>0, <2>1, GotoType DEF MainStays, TypeOK, Places
  <2>2. CASE \E g \in {"http", "pprof"}, from \in {"serving", "listen failed"} :
               Write(g, from, {"none"})
    BY <1>0, <2>2, WriteType DEF Places
  <2> QED BY <1>4, <2>1, <2>2 DEF ListenFails
<1>5. ASSUME NEW g \in Background, Crash(g)
      PROVE  TypeOK'
  <2>1. at' \in [Goroutines -> Places]
    BY <1>0, <1>5, GotoPlace DEF Crash, Places, Ends
  <2> QED BY <1>5, <2>1 DEF Crash, TypeOK, hookVars, timerVars
<1> QED BY <1>1, <1>2, <1>3, <1>4, <1>5

LEMMA RequestType ==
  ASSUME TypeOK, NEW r \in Requests, Request(r)
  PROVE  TypeOK'
<1>0. r \in Goroutines
  BY DEF Goroutines
<1>1. CASE Accept(r) \/ HandlerPanics(r)
  BY <1>0, <1>1, GotoType DEF Accept, HandlerPanics, MainStays, TypeOK, Places
<1>2. CASE Use(r)
  BY <1>2 DEF Use, TypeOK, hookVars, timerVars
<1>3. CASE LogRequest(r) \/ LogPanic(r) \/ ResError(r)
  BY <1>0, <1>3, WriteType DEF LogRequest, LogPanic, ResError, Places
<1>4. CASE WritePanics(r)
  <2>1. at' \in [Goroutines -> Places]
    BY <1>0, <1>4, GotoPlace DEF WritePanics, Places
  <2> QED BY <1>4, <2>1 DEF WritePanics, TypeOK, hookVars, timerVars
<1> QED BY <1>1, <1>2, <1>3, <1>4 DEF Request

LEMMA InitType == Init => TypeOK
<1> SUFFICES ASSUME Init PROVE TypeOK
  OBVIOUS
<1>1. at \in [Goroutines -> Places]
  BY DEF Init, Places
<1>2. write \in [Goroutines -> {"no", "open", "room"}]
  BY DEF Init
<1>3. queued \in 0..MaxBuffer /\ {busy, gone, busy + gone} \subseteq 0..MaxThread
  BY ServerAssumption DEF Init
<1> QED BY <1>1, <1>2, <1>3 DEF Init, TypeOK

LEMMA StepType ==
  ASSUME TypeOK, [Next]_vars
  PROVE  TypeOK'
<1>1. CASE UNCHANGED vars
  BY <1>1 DEF vars, hookVars, timerVars, histVars, TypeOK
<1> QED BY <1>1, WorkerType, StartType, StopType, BackgroundType, RequestType
        DEF Next, MainStep

-----------------------------------------------------------------------------
(* The steps.                                                              *)

LEMMA Members ==
  /\ "main" \in Goroutines /\ Background \subseteq Goroutines
  /\ Requests \subseteq Goroutines /\ "main" \notin Background \cup Requests
  /\ Requests \cap Background = {}
  /\ {"autoLoad", "http", "pprof"} \subseteq Background
BY ServerAssumption DEF Goroutines, Background

LEMMA Counts ==
  ASSUME TypeOK
  PROVE  /\ queued \in Nat /\ busy \in Nat /\ gone \in Nat
         /\ busy + gone <= MaxThread /\ MaxThread \in Nat /\ MaxThread > 0
         /\ gone = 0 \/ gone > 0
<1>1. busy \in 0..MaxThread /\ gone \in 0..MaxThread /\ busy + gone \in 0..MaxThread
  BY DEF TypeOK
<1>2. queued \in 0..MaxBuffer
  BY DEF TypeOK
<1> QED BY <1>1, <1>2, ServerAssumption

(* The main goroutine goes on to another place.                            *)
MainGoes(place) ==
  /\ at'["main"] = place
  /\ \A g \in Background \cup Requests : at'[g] = at[g] /\ write'[g] = write[g]

LEMMA MainGoto ==
  ASSUME TypeOK, NEW place \in Places, Goto("main", place), UNCHANGED write
  PROVE  MainGoes(place)
BY Members, GotoPlace DEF MainGoes

LEMMA MainWrites ==
  ASSUME TypeOK, NEW from, NEW to \in SUBSET Places, Write("main", from, to)
  PROVE  /\ at["main"] = from
         /\ MainGoes(from) \/ \E place \in to : MainGoes(place)
         /\ queued' = queued \/ ~qClosed
         /\ UNCHANGED <<busy, gone, closed, qClosed, opened, timerVars, sc, histVars>>
<1>1. /\ at["main"] = from /\ (at'["main"] \in to \/ at'["main"] = from)
      /\ \A g \in Background \cup Requests : at'[g] = at[g] /\ write'[g] = write[g]
      /\ queued' = queued \/ ~qClosed
      /\ UNCHANGED <<busy, gone, closed, qClosed, opened, timerVars, sc, histVars>>
  BY Members, WriteStep
<1> QED BY <1>1 DEF MainGoes

(* The invariant beside the types.                                         *)
Sound == /\ WritersWrite /\ StartsOnce /\ HookSound
         /\ StorageSound /\ HarmedWereOverdue /\ ReloadSound

SInv == TypeOK /\ Sound

(* Before the server listens.                                              *)
LEMMA StartGoes ==
  ASSUME SInv, NEW place \in BeforeListen \cup {"failed", "wait"}, 
         at["main"] \in BeforeListen, MainGoes(place),
         place \in BeforePprof => at["main"] \in BeforePprof,
         place \in BeforeReload => at["main"] \in BeforeReload,
         "log" \in opened' \/ (at["main"] = "logger" /\ place = "failed"),
         place \in Stored => Storage \subseteq opened',
         place \in {"build cache", "build auth"} => "db" \in opened',
         place = "build auth" => "cache" \in opened',
         place # "logger", at["main"] = "logger" => UNCHANGED queued,
         queued' = queued \/ ~qClosed,
         UNCHANGED <<busy, gone, closed, qClosed, timerVars, histVars>>
  PROVE  Sound'
<1> USE Members DEF SInv, Sound, MainGoes
<1>1. WritersWrite'
  BY DEF WritersWrite
<1>2. StartsOnce'
  BY DEF StartsOnce, BeforePprof, BeforeReload, BeforeListen
<1>3. HookSound'
  <2>0. ~qClosed
    BY DEF HookSound, BeforeListen, BeforeReload, BeforePprof
  <2>1. gone = 0
    BY <2>0, Counts DEF HookSound
  <2> QED BY <2>0, <2>1 DEF HookSound, Alive, Ends, BeforeListen, BeforeReload, BeforePprof
<1>4. StorageSound'
  BY DEF StorageSound, StartsOnce, Idle, histVars, Serving
<1>5. ReloadSound'
  BY DEF ReloadSound, Released, BeforeListen, BeforeReload, BeforePprof, timerVars, histVars,
     CrashesWereStray
<1> QED BY <1>1, <1>2, <1>3, <1>4, <1>5 DEF HarmedWereOverdue, histVars

LEMMA LogOpen ==
  ASSUME SInv, at["main"] \in BeforeListen, at["main"] # "logger"
  PROVE  "log" \in opened
<1>1. gone # MaxThread
  <2>1. ~(gone > 0)
    BY DEF SInv, Sound, HookSound, BeforeListen, BeforeReload, BeforePprof
  <2> QED BY <2>1, Counts DEF SInv
<1> QED BY <1>1 DEF SInv, Sound, HookSound, Alive, Ends, BeforeListen, BeforeReload,
                    BeforePprof

(* An entry before the server listens changes the place, and the queue.    *)
EntryTaken ==
  /\ queued' = queued \/ ~qClosed
  /\ UNCHANGED <<busy, gone, closed, qClosed, opened, timerVars, sc, histVars>>

LEMMA StartWrites ==
  ASSUME SInv, NEW from \in BeforeListen, from # "logger",
         NEW to \in SUBSET Places, Write("main", from, to)
  PROVE  /\ at["main"] = from /\ EntryTaken
         /\ \E place \in to \cup {from} : MainGoes(place)
         /\ "log" \in opened' /\ (from \in Stored => Storage \subseteq opened')
<1>1. /\ at["main"] = from /\ EntryTaken
      /\ MainGoes(from) \/ \E place \in to : MainGoes(place)
  BY MainWrites DEF SInv, EntryTaken
<1> QED BY <1>1, LogOpen DEF SInv, Sound, StorageSound, EntryTaken

(* A goroutine is started.                                                 *)
LEMMA StartsAnother ==
  ASSUME SInv, NEW from, NEW place, NEW g \in Background, NEW there,
         at["main"] = from,
         \/ g = "pprof" /\ from = "pprof go" /\ place = "build" /\ there = "serving"
         \/ g = "autoLoad" /\ from = "load go" /\ place = "menus" /\ there = "start"
         \/ g = "http" /\ from = "listen go" /\ place = "wait" /\ there = "serving",
         at' = [at EXCEPT !["main"] = place, ![g] = there],
         MainStays, UNCHANGED opened
  PROVE  Sound'
<1> USE Members DEF MainStays, SInv, Sound
<1>1. /\ at'["main"] = place /\ at'[g] = there
      /\ \A h \in Background \cup Requests : h # g => at'[h] = at[h]
  BY DEF TypeOK
<1>2. at[g] = "none"
  BY DEF StartsOnce, BeforePprof, BeforeReload, BeforeListen
<1>3. WritersWrite'
  BY <1>1, <1>2 DEF WritersWrite, InWrite
<1>4. StartsOnce'
  BY <1>1 DEF StartsOnce, BeforePprof, BeforeReload, BeforeListen
<1>5. HookSound'
  BY <1>1 DEF HookSound, hookVars, Alive, Ends
<1>6. StorageSound'
  BY <1>1 DEF StorageSound, Stored, Serving, Idle, histVars
<1>7. ReloadSound'
  BY <1>1 DEF ReloadSound, Released, timerVars, histVars, CrashesWereStray
<1> QED BY <1>3, <1>4, <1>5, <1>6, <1>7 DEF HarmedWereOverdue, histVars

LEMMA StartSound ==
  ASSUME SInv, Start
  PROVE  Sound'
<1> USE DEF MainStays, BeforePprof, BeforeReload, BeforeListen, Stored, Serving
<1>0. BeforeListen \cup {"failed", "wait"} \subseteq Places
  BY DEF Places, Ends
<1>1. CASE InitLogger
  <2>1. PICK place \in {"starting", "failed"} :
          /\ Goto("main", place)
          /\ opened' = {"log"} \/ (place = "failed" /\ UNCHANGED opened)
    BY <1>1 DEF InitLogger, InitLoggerHook
  <2>2. MainGoes(place)
    BY <1>0, <1>1, <2>1, MainGoto DEF SInv, InitLogger
  <2> QED BY <1>1, <2>1, <2>2, StartGoes DEF InitLogger, hookVars
<1>2. CASE LogStarting
  <2>1. /\ at["main"] = "starting" /\ EntryTaken /\ "log" \in opened'
        /\ \E place \in {"pprof", "build"} \cup {"starting"} : MainGoes(place)
    <3>1. {"pprof", "build"} \in SUBSET Places
      BY <1>0
    <3> QED BY <1>2, <3>1, StartWrites DEF LogStarting
  <2>2. PICK place \in {"starting", "pprof", "build"} : MainGoes(place)
    BY <2>1
  <2> QED BY <2>1, <2>2, StartGoes DEF EntryTaken
<1>3. CASE LogPprof
  <2>1. /\ at["main"] = "pprof" /\ EntryTaken /\ "log" \in opened'
        /\ \E place \in {"pprof go"} \cup {"pprof"} : MainGoes(place)
    <3>1. {"pprof go"} \in SUBSET Places
      BY <1>0
    <3> QED BY <1>3, <3>1, StartWrites DEF LogPprof
  <2>2. PICK place \in {"pprof", "pprof go"} : MainGoes(place)
    BY <2>1
  <2> QED BY <2>1, <2>2, StartGoes DEF EntryTaken
<1>4. CASE LogListening
  <2>1. /\ at["main"] = "listen" /\ EntryTaken
        /\ "log" \in opened' /\ Storage \subseteq opened'
        /\ \E place \in {"listen go"} \cup {"listen"} : MainGoes(place)
    <3>1. {"listen go"} \in SUBSET Places
      BY <1>0
    <3> QED BY <1>4, <3>1, StartWrites DEF LogListening
  <2>2. PICK place \in {"listen", "listen go"} : MainGoes(place)
    BY <2>1
  <2> QED BY <2>1, <2>2, StartGoes DEF EntryTaken
<1>5. CASE Write("main", "load", {"load go", "failed"})
  <2>1. /\ at["main"] = "load" /\ EntryTaken
        /\ "log" \in opened' /\ Storage \subseteq opened'
        /\ \E place \in {"load go", "failed"} \cup {"load"} : MainGoes(place)
    <3>1. {"load go", "failed"} \in SUBSET Places
      BY <1>0
    <3> QED BY <1>5, <3>1, StartWrites
  <2>2. PICK place \in {"load", "load go", "failed"} : MainGoes(place)
    BY <2>1
  <2> QED BY <2>1, <2>2, StartGoes DEF EntryTaken
<1>6. CASE Write("main", "menus failed", {"defi"})
  <2>1. /\ at["main"] = "menus failed" /\ EntryTaken
        /\ "log" \in opened' /\ Storage \subseteq opened'
        /\ \E place \in {"defi"} \cup {"menus failed"} : MainGoes(place)
    <3>1. {"defi"} \in SUBSET Places
      BY <1>0
    <3> QED BY <1>6, <3>1, StartWrites
  <2>2. PICK place \in {"menus failed", "defi"} : MainGoes(place)
    BY <2>1
  <2> QED BY <2>1, <2>2, StartGoes DEF EntryTaken
<1>7. CASE BuildInjector
  <2>1. CASE InitDB
    <3>1. PICK place \in {"build cache", "failed"} :
            /\ at["main"] = "build" /\ Goto("main", place)
            /\ UNCHANGED <<write, hookVars, timerVars, sc, histVars>>
            /\ IF place = "failed" THEN opened' = opened \ Storage
                                   ELSE opened' = opened \cup {"db"}
      BY <2>1 DEF InitDB, Open
    <3>2. MainGoes(place)
      BY <1>0, <3>1, MainGoto DEF SInv
    <3> QED BY <3>1, <3>2, StartGoes, LogOpen
            DEF SInv, Sound, StorageSound, hookVars, Storage
  <2>2. CASE InitCacher
    <3>1. PICK place \in {"build auth", "failed"} :
            /\ at["main"] = "build cache" /\ Goto("main", place)
            /\ UNCHANGED <<write, hookVars, timerVars, sc, histVars>>
            /\ IF place = "failed" THEN opened' = opened \ Storage
                                   ELSE opened' = opened \cup {"cache"}
      BY <2>2 DEF InitCacher, Open
    <3>2. MainGoes(place)
      BY <1>0, <3>1, MainGoto DEF SInv
    <3> QED BY <3>1, <3>2, StartGoes, LogOpen
            DEF SInv, Sound, StorageSound, hookVars, Storage
  <2>3. CASE InitAuth
    <3>1. PICK place \in {"init", "failed"} :
            /\ at["main"] = "build auth" /\ Goto("main", place)
            /\ UNCHANGED <<write, hookVars, timerVars, sc, histVars>>
            /\ IF place = "failed" THEN opened' = opened \ Storage
                                   ELSE opened' = opened \cup {"auth"}
      BY <2>3 DEF InitAuth, Open
    <3>2. MainGoes(place)
      BY <1>0, <3>1, MainGoto DEF SInv
    <3> QED BY <3>1, <3>2, StartGoes, LogOpen
            DEF SInv, Sound, StorageSound, hookVars, Storage
  <2> QED BY <1>7, <2>1, <2>2, <2>3 DEF BuildInjector
<1>8. ASSUME NEW from \in Stored \cap BeforeListen, at["main"] = from,
             NEW place \in (Stored \cap BeforeListen) \cup {"failed"},
             Goto("main", place), place \in BeforeReload => from \in BeforeReload,
             MainStays, UNCHANGED opened
      PROVE  Sound'
  <2>1. MainGoes(place)
    BY <1>0, <1>8, MainGoto DEF SInv
  <2>2. "log" \in opened /\ Storage \subseteq opened
    BY <1>8, LogOpen DEF SInv, Sound, StorageSound
  <2> QED BY <1>8, <2>1, <2>2, StartGoes DEF hookVars
<1>9. CASE InitDEFI \/ Notify
  <2>1. CASE InitDEFI
    BY <1>8, <2>1 DEF InitDEFI
  <2>2. CASE Notify
    BY <1>8, <2>2 DEF Notify
  <2> QED BY <1>9, <2>1, <2>2
<1>10. CASE InitRBAC
  <2>1. CASE \E from \in {"init", "menus"}, place \in {"failed", "load", "load go", "menus", "menus failed", "defi"} :
              /\ at["main"] = from /\ Goto("main", place) /\ MainStays /\ UNCHANGED opened
              /\ place \in BeforeReload => from \in BeforeReload
    BY <1>8, <2>1
  <2>2. CASE /\ at["main"] = "load go"
             /\ at' = [at EXCEPT !["main"] = "menus", !["autoLoad"] = "start"]
             /\ MainStays /\ UNCHANGED opened
    BY <2>2, StartsAnother, Members
  <2> QED BY <1>5, <1>6, <1>10, <2>1, <2>2 DEF InitRBAC
<1>11. CASE StartPprof
  BY <1>11, StartsAnother, Members DEF StartPprof
<1>12. CASE StartHTTPServer
  BY <1>12, StartsAnother, Members DEF StartHTTPServer
<1> QED BY <1>1, <1>2, <1>3, <1>4, <1>7, <1>9, <1>10, <1>11, <1>12 DEF Start, InitModules

(* While the server runs, and through the shutdown until the hook: the     *)
(* main goroutine goes from one place to another, with its entries.        *)
LEMMA StopGoes ==
  ASSUME SInv, NEW place,
         at["main"] \in Serving \cup Released, MainGoes(place),
         \/ place = at["main"]
         \/ place \in {"wait", "HUP", "TERM", "release"} /\ at["main"] \in Serving \ Released
         \/ at["main"] = "overdue" /\ place = "auth"
         \/ at["main"] \in {"bye", "sleep"} /\ place \in {"sleep", "exited"},
         queued' = queued \/ ~qClosed,
         UNCHANGED <<busy, gone, closed, qClosed, opened, timerVars, histVars>>
  PROVE  Sound'
<1> USE Members DEF SInv, Sound, MainGoes
<1>1. WritersWrite' /\ StartsOnce'
  BY DEF WritersWrite, StartsOnce, BeforePprof, BeforeReload, BeforeListen, Serving, Released
<1>2. HookSound'
  <2>1. gone = MaxThread => qClosed
    BY Counts DEF HookSound
  <2>2. gone > 0 => queued' = 0
    BY DEF HookSound
  <2>3. "log" \notin opened => gone = MaxThread /\ queued' = 0
    BY <2>1 DEF HookSound, Serving, Released, Alive, Ends
  <2> QED BY <2>2, <2>3 DEF HookSound, Serving, Released, Alive, Ends
<1>3. StorageSound'
  BY DEF StorageSound, Stored, Serving, Released, Idle, histVars
<1>4. ReloadSound'
  BY DEF ReloadSound, Serving, Released, timerVars, histVars, CrashesWereStray
<1> QED BY <1>1, <1>2, <1>3, <1>4 DEF HarmedWereOverdue, histVars

LEMMA StopSound ==
  ASSUME SInv, Stop
  PROVE  Sound'
<1> USE DEF MainStays, Serving, Released
<1>0. Serving \cup Released \subseteq Places
  BY DEF Places, Ends
<1>1. CASE Receive
  <2>1. sc \in {"HUP", "TERM"} /\ Goto("main", sc) /\ at["main"] = "wait"
        /\ UNCHANGED <<write, hookVars, opened, timerVars, histVars>>
    BY <1>1 DEF Receive, SInv, TypeOK
  <2>2. MainGoes(sc)
    BY <1>0, <2>1, MainGoto DEF SInv
  <2> QED BY <2>1, <2>2, StopGoes DEF hookVars
<1>2. CASE LogSignal
  <2>1. CASE Write("main", "HUP", {"wait"})
    <3>1. /\ at["main"] = "HUP" /\ EntryTaken
          /\ MainGoes("HUP") \/ \E place \in {"wait"} : MainGoes(place)
      BY <1>0, <2>1, MainWrites DEF SInv, EntryTaken
    <3> QED BY <3>1, StopGoes DEF EntryTaken
  <2>2. CASE Write("main", "TERM", {"release"})
    <3>1. /\ at["main"] = "TERM" /\ EntryTaken
          /\ MainGoes("TERM") \/ \E place \in {"release"} : MainGoes(place)
      BY <1>0, <2>2, MainWrites DEF SInv, EntryTaken
    <3> QED BY <3>1, StopGoes DEF EntryTaken
  <2> QED BY <1>2, <2>1, <2>2 DEF LogSignal
<1>3. CASE LogOverdue
  <2>1. /\ at["main"] = "overdue" /\ EntryTaken
        /\ MainGoes("overdue") \/ \E place \in {"auth"} : MainGoes(place)
    BY <1>0, <1>3, MainWrites DEF LogOverdue, SInv, EntryTaken
  <2> QED BY <2>1, StopGoes DEF EntryTaken
<1>4. CASE LogBye
  <2>1. Write("main", "bye", {"sleep"})
    BY <1>4 DEF LogBye, Write
  <2>2. /\ at["main"] = "bye" /\ EntryTaken
        /\ MainGoes("bye") \/ \E place \in {"sleep"} : MainGoes(place)
    BY <1>0, <2>1, MainWrites DEF SInv, EntryTaken
  <2> QED BY <2>2, StopGoes DEF EntryTaken
<1>5. CASE Exit
  <2>1. at["main"] = "sleep" /\ MainGoes("exited")
    BY <1>0, <1>5, MainGoto DEF Exit, SInv
  <2> QED BY <1>5, <2>1, StopGoes DEF Exit, hookVars
<1>6. ASSUME NEW place \in Places, Goto("main", place), UNCHANGED write
      PROVE  MainGoes(place) /\ WritersWrite' /\ (place \notin BeforeListen => StartsOnce')
  <2>1. MainGoes(place)
    BY <1>6, MainGoto DEF SInv
  <2> QED BY <2>1, Members DEF MainGoes, SInv, Sound, WritersWrite, StartsOnce,
                BeforePprof, BeforeReload, BeforeListen
<1>7. CASE Release
  <2>1. MainGoes("shutdown") /\ WritersWrite' /\ StartsOnce'
    BY <1>0, <1>6, <1>7 DEF Release, BeforePprof, BeforeReload, BeforeListen
  <2>2. HookSound' /\ StorageSound'
    BY <1>7, <2>1, Members
       DEF Release, MainGoes, SInv, Sound, HookSound, hookVars, Alive, Ends,
           StorageSound, Stored, Idle
  <2>3. ReloadSound'
    BY <1>7, <2>1, Members
       DEF Release, Resting, MainGoes, SInv, Sound, ReloadSound, CrashesWereStray
  <2> QED BY <1>7, <2>1, <2>2, <2>3 DEF Release, SInv, Sound, HarmedWereOverdue
<1>8. CASE StopListening
  <2>1. /\ at["main"] = "shutdown" /\ at'["main"] = "drain" /\ at'["http"] # "serving"
        /\ \A g \in Background \cup Requests : g # "http" => at'[g] = at[g]
        /\ at["http"] # "serving" => at'["http"] = at["http"]
        /\ UNCHANGED <<write, hookVars, opened, timerVars, sc, histVars>>
    BY <1>8, Members DEF StopListening, SInv, TypeOK
  <2>2. WritersWrite' /\ StartsOnce'
    BY <2>1, Members DEF SInv, Sound, WritersWrite, StartsOnce,
                BeforePprof, BeforeReload, BeforeListen, InWrite
  <2>3. HookSound'
    BY <2>1 DEF SInv, Sound, HookSound, hookVars, Alive, Ends
  <2>4. StorageSound'
    BY <2>1, Members DEF SInv, Sound, StorageSound, Stored, Idle, histVars
  <2>5. ReloadSound'
    BY <2>1, Members DEF SInv, Sound, ReloadSound, timerVars, histVars, CrashesWereStray
  <2> QED BY <2>1, <2>2, <2>3, <2>4, <2>5 DEF SInv, Sound, HarmedWereOverdue, histVars
<1>9. CASE Drain
  <2>1. PICK place \in {"auth", "overdue"} :
          /\ Goto("main", place)
          /\ IF place = "auth" THEN (\A r \in Requests : Idle(r)) /\ UNCHANGED overdue
                               ELSE overdue' = TRUE
    BY <1>9 DEF Drain
  <2>2. /\ at["main"] = "drain" /\ MainGoes(place) /\ WritersWrite' /\ StartsOnce'
        /\ UNCHANGED <<write, hookVars, opened, timerVars, sc, stray, culprit, harmed>>
    BY <1>0, <1>6, <1>9, <2>1 DEF Drain, BeforePprof, BeforeReload, BeforeListen
  <2>3. HookSound'
    BY <2>1, <2>2 DEF MainGoes, SInv, Sound, HookSound, hookVars, Alive, Ends
  <2>4. StorageSound'
    BY <2>1, <2>2, Members DEF MainGoes, SInv, Sound, StorageSound, Stored, Idle
  <2>5. ReloadSound'
    BY <2>1, <2>2, Members
       DEF MainGoes, SInv, Sound, ReloadSound, timerVars, CrashesWereStray
  <2> QED BY <2>1, <2>2, <2>3, <2>4, <2>5 DEF SInv, Sound, HarmedWereOverdue
<1>10. ASSUME at["main"] \in {"auth", "cache", "db", "flush", "close", "join"},
              NEW place \in {"cache", "db", "flush", "close", "join", "bye"},
              Goto("main", place), UNCHANGED <<write, queued, busy, gone, timerVars, histVars>>,
              qClosed' <=> (qClosed \/ place = "join"),
              qClosed => place \in {"join", "bye"},
              IF place = "bye" THEN gone = MaxThread
                               ELSE "log" \in opened => "log" \in opened'
       PROVE  Sound'
  <2>1. MainGoes(place) /\ WritersWrite' /\ StartsOnce'
    BY <1>0, <1>6, <1>10 DEF BeforePprof, BeforeReload, BeforeListen
  <2>2. HookSound'
    <3>1. gone = MaxThread => gone > 0
      BY Counts DEF SInv
    <3>2. gone = MaxThread => queued = 0 /\ busy = 0
      BY <3>1, Counts DEF SInv, Sound, HookSound
    <3> QED BY <1>10, <2>1, <3>1, <3>2
            DEF MainGoes, SInv, Sound, HookSound, Alive, Ends
  <2>3. StorageSound'
    BY <1>10, <2>1, Members DEF MainGoes, SInv, Sound, StorageSound, Stored, Idle, histVars
  <2>4. ReloadSound'
    BY <1>10, <2>1, Members
       DEF MainGoes, SInv, Sound, ReloadSound, timerVars, histVars, CrashesWereStray
  <2> QED BY <1>10, <2>1, <2>2, <2>3, <2>4 DEF SInv, Sound, HarmedWereOverdue, histVars
<1>11. CASE CloseStorage
  <2>1. PICK i \in 1..3 : /\ at["main"] = Cleanup[i] /\ Goto("main", Cleanup[i + 1])
                          /\ opened' = opened \ {Cleanup[i]}
    BY <1>11 DEF CloseStorage
  <2>2. i = 1 \/ i = 2 \/ i = 3
    OBVIOUS
  <2>3. /\ Cleanup[i] \in {"auth", "cache", "db"}
        /\ Cleanup[i + 1] \in {"cache", "db", "flush"}
    <3>1. /\ Cleanup[1] = "auth" /\ Cleanup[2] = "cache" /\ Cleanup[3] = "db"
          /\ Cleanup[4] = "flush"
      BY DEF Cleanup
    <3>2. i + 1 = 2 \/ i + 1 = 3 \/ i + 1 = 4
      BY <2>2
    <3> QED BY <2>2, <3>1, <3>2
  <2>4. ~qClosed
    BY <2>1, <2>3 DEF SInv, Sound, HookSound
  <2> QED BY <1>10, <1>11, <2>1, <2>3, <2>4 DEF CloseStorage, hookVars
<1>12. CASE SetClosed \/ CloseQueue
  <2>1. at["main"] \in {"flush", "close"} /\ ~qClosed
    BY <1>12 DEF SetClosed, CloseQueue, SInv, Sound, HookSound
  <2> QED BY <1>10, <1>12, <2>1 DEF SetClosed, CloseQueue
<1>13. CASE Join
  BY <1>10, <1>13 DEF Join, hookVars
<1> QED BY <1>1, <1>2, <1>3, <1>4, <1>5, <1>7, <1>8, <1>9, <1>11, <1>12, <1>13 DEF Stop

(* The workers take and write entries only while their database is open.   *)
LEMMA WorkerSound ==
  ASSUME SInv, Alive, WorkerStep
  PROVE  Sound'
<1>1. UNCHANGED <<at, write, closed, qClosed, opened, timerVars, sc, histVars>>
  BY DEF WorkerStep, Dequeue, Exec, EndWorker
<1>2. WritersWrite' /\ StartsOnce' /\ StorageSound' /\ HarmedWereOverdue' /\ ReloadSound'
  BY <1>1 DEF SInv, Sound, WritersWrite, StartsOnce, StorageSound, Idle, HarmedWereOverdue,
              ReloadSound, CrashesWereStray, timerVars, histVars
<1>3. HookSound'
  <2> USE Counts DEF SInv, Sound
  <2>1. CASE Dequeue
    BY <1>1, <2>1 DEF Dequeue, HookSound, Alive
  <2>2. CASE Exec
    BY <1>1, <2>2 DEF Exec, HookSound, Alive
  <2>3. CASE EndWorker
    BY <1>1, <2>3 DEF EndWorker, HookSound, Alive
  <2> QED BY <2>1, <2>2, <2>3 DEF WorkerStep
<1> QED BY <1>2, <1>3 DEF Sound

(* A step of a goroutine other than the main one, which leaves the storage *)
(* and the channel of the hook as they are.                                *)
OtherGoes(g, place) ==
  /\ at'["main"] = at["main"] /\ at'[g] = place
  /\ \A h \in Background \cup Requests : h # g => at'[h] = at[h] /\ write'[h] = write[h]
  /\ write'[g] # "no" => place \in InWrite(g)

LEMMA OtherSound ==
  ASSUME SInv, Alive, NEW g \in Background \cup Requests, NEW place,
         OtherGoes(g, place), at[g] # "none" \/ UNCHANGED queued,
         queued' = queued \/ ~qClosed,
         UNCHANGED <<busy, gone, closed, qClosed, opened>>
  PROVE  WritersWrite' /\ HookSound'
<1> USE Members DEF SInv, Sound, OtherGoes
<1>1. WritersWrite'
  BY DEF WritersWrite
<1>2. HookSound'
  <2>1. at["main"] = "logger" => at[g] = "none"
    BY DEF StartsOnce, BeforePprof, BeforeReload, BeforeListen, Background
  <2>2. gone = MaxThread => gone > 0
    BY Counts
  <2>3. gone > 0 => queued' = 0
    BY DEF HookSound
  <2>4. at["main"] = "logger" => queued' = 0
    BY <2>1 DEF HookSound
  <2> QED BY <2>2, <2>3, <2>4 DEF HookSound, Alive
<1> QED BY <1>1, <1>2

LEMMA OtherWrites ==
  ASSUME TypeOK, NEW g \in Background \cup Requests, NEW from \in InWrite(g),
         NEW to \in SUBSET Places, Write(g, from, to)
  PROVE  /\ at[g] = from /\ EntryTaken
         /\ \E place \in to \cup {from} : OtherGoes(g, place)
<1>1. /\ at[g] = from /\ (at'[g] \in to \/ at'[g] = from)
      /\ write'[g] # "no" => at'[g] = from
      /\ \A h \in Goroutines : h # g => at'[h] = at[h] /\ write'[h] = write[h]
      /\ EntryTaken
  BY Members, WriteStep DEF EntryTaken
<1> QED BY <1>1, Members DEF OtherGoes

LEMMA OtherGoto ==
  ASSUME TypeOK, NEW g \in Background \cup Requests, NEW place \in Places,
         Goto(g, place), UNCHANGED write, write[g] # "no" => place \in InWrite(g)
  PROVE  OtherGoes(g, place)
BY Members, GotoPlace DEF OtherGoes

LEMMA AutoLoadSound ==
  ASSUME SInv, Alive, AutoLoad
  PROVE  Sound'
<1> USE Members
<1>1. PICK place : /\ OtherGoes("autoLoad", place)
                   /\ at["autoLoad"] \in {"start", "tick", "load", "log"}
                   /\ at["autoLoad"] = "tick" => tick
                   /\ ticker' = ticker \/ at["autoLoad"] = "start"
                   /\ queued' = queued \/ ~qClosed
                   /\ UNCHANGED <<busy, gone, closed, qClosed, opened, histVars>>
  <2>1. CASE Write("autoLoad", "log", {"tick", "log"})
    <3>1. /\ at["autoLoad"] = "log" /\ EntryTaken
          /\ \E place \in {"tick", "log"} \cup {"log"} : OtherGoes("autoLoad", place)
      <4>1. {"tick", "log"} \in SUBSET Places /\ "log" \in InWrite("autoLoad")
        BY DEF Places, InWrite
      <4> QED BY <2>1, <4>1, OtherWrites DEF SInv
    <3> QED BY <3>1 DEF EntryTaken, timerVars
  <2>2. ASSUME at["autoLoad"] \in {"start", "tick", "load"}, 
               NEW place \in {"tick", "load", "log"}, Goto("autoLoad", place),
               UNCHANGED write
        PROVE  OtherGoes("autoLoad", place)
    <3>1. write["autoLoad"] = "no"
      BY <2>2 DEF SInv, Sound, WritersWrite, InWrite
    <3> QED BY <2>2, <3>1, OtherGoto DEF SInv, Places
  <2> QED BY <2>1, <2>2 DEF AutoLoad, MainStays, hookVars, timerVars
<1>2. WritersWrite' /\ HookSound'
  BY <1>1, OtherSound
<1>3. StartsOnce' /\ StorageSound'
  BY <1>1 DEF OtherGoes, SInv, Sound, StartsOnce, StorageSound, Idle, histVars
<1>4. ReloadSound'
  BY <1>1 DEF OtherGoes, SInv, Sound, ReloadSound, CrashesWereStray, histVars
<1> QED BY <1>1, <1>2, <1>3, <1>4 DEF SInv, Sound, HarmedWereOverdue, histVars

(* What the invariant does not speak of may change.                        *)
LEMMA SameSound ==
  ASSUME Sound, UNCHANGED <<at, write, hookVars, opened, histVars>>,
         ticker' = ticker, tick' = tick \/ ticker = "on"
  PROVE  Sound'
<1> USE DEF Sound, hookVars, histVars
<1>1. WritersWrite' /\ StartsOnce'
  BY DEF WritersWrite, StartsOnce
<1>2. HookSound'
  BY DEF HookSound, Alive
<1>3. StorageSound' /\ HarmedWereOverdue'
  BY DEF StorageSound, Idle, HarmedWereOverdue
<1>4. ReloadSound'
  <2>1. CrashesWereStray'
    <3>1. (culprit' # "none" <=> culprit # "none") /\ (qClosed' <=> qClosed)
          /\ (stray' <=> stray)
      OBVIOUS
    <3> QED BY <3>1 DEF ReloadSound, CrashesWereStray
  <2> QED BY <2>1 DEF ReloadSound
<1> QED BY <1>1, <1>2, <1>3, <1>4

(* While the process runs nothing has ended it.                            *)
LEMMA NobodyCrashed ==
  ASSUME Sound, Alive, UNCHANGED culprit
  PROVE  culprit' = "none" /\ CrashesWereStray'
BY DEF Sound, ReloadSound, Alive, Ends, CrashesWereStray

LEMMA BackgroundSound ==
  ASSUME SInv, Alive,
         \/ Tick
         \/ \E s \in {"HUP", "TERM"} : Signal(s)
         \/ ListenFails
         \/ \E g \in Background : Crash(g)
  PROVE  Sound'
<1> USE Members
<1>1. CASE Tick
  BY <1>1, SameSound DEF Tick, SInv
<1>2. ASSUME NEW s \in {"HUP", "TERM"}, Signal(s)
      PROVE  Sound'
  <2>1. CASE UNCHANGED <<at, write, hookVars, opened, timerVars, histVars>>
    BY <2>1, SameSound DEF SInv, timerVars
  <2>2. CASE /\ Booting /\ Goto("main", "killed")
             /\ UNCHANGED <<write, hookVars, opened, timerVars, histVars>>
    <3>1. MainGoes("killed") /\ at["main"] \in BeforeListen
      BY <2>2, MainGoto
         DEF Booting, SInv, Places, Ends, BeforeListen, BeforeReload, BeforePprof
    <3>2. WritersWrite' /\ StartsOnce'
      BY <3>1 DEF MainGoes, SInv, Sound, WritersWrite, StartsOnce, BeforeListen,
                  BeforeReload, BeforePprof
    <3>3. HookSound'
      BY <2>2, <3>1
         DEF MainGoes, SInv, Sound, HookSound, Alive, Ends, hookVars, BeforeListen,
             BeforeReload, BeforePprof
    <3>4. StorageSound'
      BY <2>2, <3>1
         DEF MainGoes, SInv, Sound, StorageSound, StartsOnce, Idle, Stored, Serving, histVars
    <3>5. ReloadSound' /\ HarmedWereOverdue'
      BY <2>2, <3>1
         DEF MainGoes, SInv, Sound, ReloadSound, Released, CrashesWereStray, timerVars,
             HarmedWereOverdue, histVars, BeforeListen, BeforeReload, BeforePprof
    <3> QED BY <3>2, <3>3, <3>4, <3>5 DEF Sound
  <2> QED BY <1>2, <2>1, <2>2 DEF Signal
<1>3. CASE ListenFails
  <2>1. ASSUME NEW g \in {"http", "pprof"}, NEW place \in {"serving", "listen failed", "none"},
               OtherGoes(g, place), at[g] \in {"serving", "listen failed"},
               place = "serving" => g = "pprof", EntryTaken
        PROVE  Sound'
    <3>1. WritersWrite' /\ HookSound'
      BY <2>1, OtherSound DEF EntryTaken
    <3>2. StartsOnce' /\ StorageSound'
      BY <2>1 DEF OtherGoes, EntryTaken, SInv, Sound, StartsOnce, StorageSound, Idle, histVars
    <3>3. ReloadSound' /\ HarmedWereOverdue'
      BY <2>1, NobodyCrashed DEF OtherGoes, EntryTaken, SInv, Sound, ReloadSound,
                  HarmedWereOverdue, histVars, timerVars
    <3> QED BY <3>1, <3>2, <3>3 DEF Sound
  <2>2. CASE at["http"] = "serving" /\ Goto("http", "listen failed")
               /\ MainStays /\ UNCHANGED opened
    <3>1. OtherGoes("http", "listen failed")
      BY <2>2, OtherGoto DEF MainStays, SInv, Places, InWrite
    <3> QED BY <2>1, <2>2, <3>1 DEF MainStays, EntryTaken, hookVars
  <2>3. ASSUME NEW g \in {"http", "pprof"}, NEW from \in InWrite(g), Write(g, from, {"none"})
        PROVE  Sound'
    <3>1. at[g] = from /\ EntryTaken /\ \E place \in {"none"} \cup {from} : OtherGoes(g, place)
      <4>1. {"none"} \in SUBSET Places
        BY DEF Places
      <4> QED BY <2>3, <4>1, OtherWrites DEF SInv
    <3>2. from = IF g = "pprof" THEN "serving" ELSE "listen failed"
      BY <2>3 DEF InWrite
    <3> QED BY <2>1, <3>1, <3>2
  <2> QED BY <1>3, <2>2, <2>3 DEF ListenFails, InWrite
<1>4. ASSUME NEW g \in Background, Crash(g)
      PROVE  Sound'
  <2>1. /\ MainGoes("crashed") /\ write[g] = "room" /\ qClosed /\ culprit' = g
        /\ UNCHANGED <<write, hookVars, opened, timerVars, sc, overdue, stray, harmed>>
    BY <1>4, MainGoto DEF Crash, SendPanics, SInv, Places, Ends
  <2>2. at[g] \in InWrite(g) /\ at["main"] \in Released
    BY <2>1 DEF SInv, Sound, WritersWrite, HookSound, Alive, Ends, Released
  <2>3. WritersWrite' /\ StartsOnce'
    BY <2>1 DEF MainGoes, SInv, Sound, WritersWrite, StartsOnce, BeforeListen,
                BeforeReload, BeforePprof
  <2>4. HookSound'
    BY <2>1 DEF MainGoes, SInv, Sound, HookSound, Alive, Ends, hookVars
  <2>5. StorageSound' /\ HarmedWereOverdue'
    BY <2>1 DEF MainGoes, SInv, Sound, StorageSound, Idle, Stored, Serving, HarmedWereOverdue
  <2>6. ReloadSound'
    <3>1. at' = [at EXCEPT !["main"] = "crashed"] /\ (qClosed' <=> qClosed) /\ stray' = stray
      BY <1>4, <2>1 DEF Crash, Goto, hookVars
    <3>2. g = "http" => at["http"] = "listen failed"
      BY <2>2 DEF InWrite
    <3>3. g = "autoLoad" => at["autoLoad"] = "log"
      BY <2>2 DEF InWrite
    <3>4. g = "autoLoad" => stray
      BY <2>2, <3>3 DEF SInv, Sound, ReloadSound
    <3>5. at'["main"] = "crashed" /\ at'["http"] = at["http"] /\ g # "none"
      BY <2>1, Members DEF MainGoes, Background
    <3>6. CrashesWereStray'
      <4>1. qClosed' /\ culprit' = g
        BY <2>1, <3>1
      <4>2. g = "autoLoad" => stray'
        BY <3>1, <3>4
      <4>3. g = "http" => at'["http"] = "listen failed"
        BY <3>2, <3>5
      <4> QED BY <4>1, <4>2, <4>3 DEF CrashesWereStray
    <3> QED BY <3>5, <3>6 DEF ReloadSound, Released
  <2> QED BY <2>3, <2>4, <2>5, <2>6 DEF Sound
<1> QED BY <1>1, <1>2, <1>3, <1>4

LEMMA RequestSound ==
  ASSUME SInv, Alive, NEW r \in Requests, Request(r)
  PROVE  Sound'
<1> USE Members
<1>1. ASSUME NEW place, OtherGoes(r, place),
             ~Idle(r) \/ (at["http"] = "serving" /\ UNCHANGED queued),
             queued' = queued \/ ~qClosed, at[r] = "none" => at["http"] = "serving",
             UNCHANGED <<busy, gone, closed, qClosed, opened, timerVars>>,
             UNCHANGED <<overdue, stray, culprit>>,
             harmed' = harmed \/ overdue
      PROVE  Sound'
  <2>1. WritersWrite' /\ HookSound'
    BY <1>1, OtherSound DEF Idle
  <2>2. StartsOnce'
    BY <1>1 DEF OtherGoes, SInv, Sound, StartsOnce
  <2>3. StorageSound'
    BY <1>1 DEF OtherGoes, SInv, Sound, StorageSound, Idle
  <2>4. ReloadSound'
    BY <1>1 DEF OtherGoes, SInv, Sound, ReloadSound, CrashesWereStray, timerVars
  <2> QED BY <1>1, <2>1, <2>2, <2>3, <2>4 DEF SInv, Sound, HarmedWereOverdue
<1>2. CASE Accept(r)
  <2>1. write[r] = "no"
    BY <1>2 DEF Accept, SInv, Sound, WritersWrite, InWrite
  <2>2. OtherGoes(r, "handle")
    BY <1>2, <2>1, OtherGoto DEF Accept, MainStays, SInv, Places
  <2> QED BY <1>1, <1>2, <2>2 DEF Accept, MainStays, hookVars, histVars
<1>3. CASE Use(r)
  <2>1. ~overdue => Storage \subseteq opened
    BY <1>3 DEF Use, SInv, Sound, StorageSound, Stored, Serving, Idle, Alive, Ends
  <2>2. OtherGoes(r, "handle")
    BY <1>3 DEF Use, OtherGoes
  <2> QED BY <1>1, <1>3, <2>1, <2>2 DEF Use, hookVars, Idle
<1>4. CASE HandlerPanics(r)
  <2>1. OtherGoes(r, "recover")
    BY <1>4, OtherGoto DEF HandlerPanics, MainStays, SInv, Places
  <2> QED BY <1>1, <1>4, <2>1 DEF HandlerPanics, MainStays, hookVars, histVars, Idle
<1>5. ASSUME NEW from \in {"handle", "recover", "answer"},
             NEW to \in SUBSET Places, Write(r, from, to)
      PROVE  Sound'
  <2>0. from \in InWrite(r)
    BY DEF InWrite
  <2>1. at[r] = from /\ EntryTaken /\ \E place \in to \cup {from} : OtherGoes(r, place)
    BY <1>5, <2>0, OtherWrites DEF SInv
  <2> QED BY <1>1, <1>5, <2>1 DEF EntryTaken, histVars, Idle
<1>6. CASE LogRequest(r) \/ LogPanic(r) \/ ResError(r)
  BY <1>5, <1>6 DEF LogRequest, LogPanic, ResError, Places
<1>7. CASE WritePanics(r)
  <2>1. /\ write[r] = "room" /\ qClosed /\ write'[r] = "no"
        /\ \A h \in Goroutines : h # r => write'[h] = write[h]
    BY <1>7 DEF WritePanics, SendPanics, SInv, TypeOK
  <2>2. ~Idle(r) /\ overdue
    BY <2>1 DEF SInv, Sound, WritersWrite, InWrite, StorageSound, HookSound, Idle, Serving,
                Alive, Ends
  <2>3. PICK place \in {"recover", "done"} : Goto(r, place)
    BY <1>7 DEF WritePanics
  <2>4. OtherGoes(r, place)
    BY <2>1, <2>3, GotoPlace DEF OtherGoes, SInv, Places
  <2> QED BY <1>1, <1>7, <2>2, <2>4 DEF WritePanics, hookVars, Idle
<1> QED BY <1>2, <1>3, <1>4, <1>6, <1>7 DEF Request

LEMMA StepSound ==
  ASSUME SInv, [Next]_vars
  PROVE  Sound'
<1>1. CASE UNCHANGED vars
  BY <1>1, SameSound DEF vars, timerVars, SInv
<1>2. ASSUME Alive, NEW r \in Requests, Request(r)
      PROVE  Sound'
  BY <1>2, RequestSound
<1> QED BY <1>1, <1>2, StartSound, StopSound, WorkerSound, AutoLoadSound, BackgroundSound
        DEF Next, MainStep

LEMMA InitSound == Init => Sound
<1> SUFFICES ASSUME Init PROVE Sound
  OBVIOUS
<1>1. /\ at["main"] = "logger"
      /\ \A g \in Background \cup Requests : at[g] = "none" /\ write[g] = "no"
  BY Members DEF Init
<1>2. WritersWrite /\ StartsOnce
  BY <1>1, Members DEF WritersWrite, StartsOnce
<1>3. HookSound
  <2>1. queued = 0 /\ busy = 0 /\ gone = 0 /\ ~qClosed
    BY DEF Init
  <2> QED BY <1>1, <2>1 DEF HookSound
<1>4. StorageSound /\ HarmedWereOverdue
  BY <1>1, Members DEF Init, StorageSound, HarmedWereOverdue, Stored, Serving, Idle
<1>5. ReloadSound
  BY <1>1 DEF Init, ReloadSound, CrashesWereStray, Released
<1> QED BY <1>2, <1>3, <1>4, <1>5 DEF Sound

-----------------------------------------------------------------------------
(* The theorems.                                                           *)

(* Where each goroutine can be, what is open and what the hook holds, from *)
(* the first statement of start.go to the exit.                            *)
THEOREM ServerInvariance == Spec => []SInv
<1>1. Init => SInv
  BY InitType, InitSound DEF SInv
<1>2. SInv /\ [Next]_vars => SInv'
  BY StepType, StepSound DEF SInv
<1> QED BY <1>1, <1>2, PTL DEF Spec

(* Every goroutine is at one of its places, and the counts of the hook     *)
(* keep to its configuration.                                              *)
THEOREM ServerTypes == Spec => []TypeOK
<1>1. SInv => TypeOK
  BY DEF SInv
<1> QED BY <1>1, ServerInvariance, PTL

(* No entry that the hook took is lost by an exit after a signal, and none *)
(* is written to a closed database.                                        *)
THEOREM NoEntryLost == Spec => []EntriesKept
<1>1. SInv => EntriesKept
  <2> SUFFICES ASSUME SInv PROVE EntriesKept
    OBVIOUS
  <2>1. at["main"] = "exited" => queued = 0 /\ busy = 0
    BY Counts DEF SInv, Sound, HookSound
  <2>2. busy > 0 => "log" \in opened
    <3>1. "log" \notin opened => busy = 0
      BY DEF SInv, Sound, HookSound
    <3>2. busy = 0 => ~(busy > 0)
      BY Counts DEF SInv
    <3> QED BY <3>1, <3>2
  <2> QED BY <2>1, <2>2 DEF EntriesKept
<1> QED BY <1>1, ServerInvariance, PTL

(* Only a shutdown whose time ran out harms a request.                     *)
THEOREM OnlyOverdueHarms == Spec => []HarmedWereOverdue
<1>1. SInv => HarmedWereOverdue
  BY DEF SInv, Sound
<1> QED BY <1>1, ServerInvariance, PTL

(* A goroutine whose panic nothing recovers ends the process only after    *)
(* the hook's channel was closed; the reload of the policy only if Release *)
(* left it something to do, the server's listener only if it had failed.   *)
THEOREM OnlyStrayWritersCrash == Spec => []CrashesWereStray
<1>1. SInv => CrashesWereStray
  BY DEF SInv, Sound, ReloadSound
<1> QED BY <1>1, ServerInvariance, PTL

=============================================================================
