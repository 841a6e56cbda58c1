---------------------------- MODULE SyncOverGraph ----------------------------
(***************************************************************************)
(* SyncService with the Graph client of internal/mods/defi/graph put in    *)
(* the place of the one step Load: the requests to The Graph, how they     *)
(* fail, the retries and the timer between them, all under the context of  *)
(* the caller of Sync.  Sync's lock lets one caller at a time in, so there *)
(* is one such conversation.                                               *)
(***************************************************************************)
EXTENDS SyncService, Integers

CONSTANT
  ConfigAttempts   \* config DeFi.Graph.MaxAttempts

ASSUME ClientAssumption == ConfigAttempts \in Int

VARIABLES
  attempt,   \* the loop variable of fetchDataset
  stage      \* "request", "timer" (RetryDelay runs) or "fired" (it is over)

clientVars == <<attempt, stage>>
allVars == <<vars, clientVars>>

(* NewClient replaces every number of attempts that is not positive, so    *)
(* fetchDataset's loop makes at least one.                                 *)
MaxAttempts == IF ConfigAttempts <= 0 THEN 3 ELSE ConfigAttempts

(* How an attempt can fail: no endpoint is configured; Do returns an error, *)
(* its own timeout included; the body cannot be read, whatever the status;  *)
(* the status is 5xx, or neither 2xx nor 5xx; the body is no answer.        *)
Failures  == {"endpoint", "transport", "body", "server", "status", "answer"}
Transient == {"transport", "body", "server"}

(* A cancelled context fails Do at once, or the reading of the body.       *)
Fails(c) == IF cancelled[c] THEN {"endpoint", "transport", "body"} ELSE Failures

Fetching(c)   == pc[c] = "load" /\ mode = "graph"
Requesting(c) == Fetching(c) /\ stage = "request" /\ attempt <= MaxAttempts

ClientReset == attempt' = 1 /\ stage' = "request"

-----------------------------------------------------------------------------
(* fetchDataset returns, and Sync goes on.                                 *)

Deliver(c, result) ==
  /\ loaded' = [loaded EXCEPT ![c] = result]
  /\ Goto(c, "ensure")
  /\ ClientReset
  /\ UNCHANGED <<mode, faults, run, upserts, tables>>

(* The status is 2xx and the body is read and mapped.  From here on nobody *)
(* looks at the context before the database does: a cancellation that came *)
(* while the body was read counts as one that comes later.                 *)
SucceedWhenGone(c) ==   \* mutant: the request does not carry the context
  /\ Requesting(c)
  /\ clock' = clock + 1
  /\ \E d \in GraphDatasets(clock') : Deliver(c, d)

Succeed(c) ==
  /\ Requesting(c) /\ ~cancelled[c]
  /\ clock' = clock + 1
  /\ \E d \in GraphDatasets(clock') : Deliver(c, d)

GiveUp(c) ==
  /\ Requesting(c)
  /\ \E f \in Fails(c) : f \notin Transient \/ attempt = MaxAttempts
  /\ Deliver(c, None)
  /\ UNCHANGED clock

RetryForEver(c) ==   \* mutant: the loop variable is not counted up
  /\ Requesting(c)
  /\ \E f \in Fails(c) : f \in Transient /\ attempt # MaxAttempts
  /\ stage' = "timer"
  /\ UNCHANGED <<vars, attempt>>

Retry(c) ==
  /\ Requesting(c)
  /\ \E f \in Fails(c) : f \in Transient /\ attempt # MaxAttempts
  /\ stage' = "timer"
  /\ attempt' = attempt + 1
  /\ UNCHANGED vars

TimerFires(c) ==
  /\ Fetching(c) /\ stage = "timer"
  /\ stage' = "fired"
  /\ UNCHANGED <<vars, attempt>>

(* The select: once both have happened, either case may be taken.          *)
SelectTimer(c) ==
  /\ Fetching(c) /\ stage = "fired"
  /\ stage' = "request"
  /\ UNCHANGED <<vars, attempt>>

SelectDone(c) ==
  /\ Fetching(c) /\ stage \in {"timer", "fired"} /\ cancelled[c]
  /\ Deliver(c, None)
  /\ UNCHANGED clock

-----------------------------------------------------------------------------

LoadDemo(c) == mode = "demo" /\ Load(c) /\ UNCHANGED clientVars

ClientStep(c) ==
  \/ Succeed(c) \/ GiveUp(c) \/ Retry(c)
  \/ TimerFires(c) \/ SelectTimer(c) \/ SelectDone(c)

(* Everything else is as in SyncService; a process that ends takes the     *)
(* conversation with it.                                                   *)
ElsewhereStep(c) ==
  /\ \/ EnsureProtocol(c) \/ CreateSyncRun(c)
     \/ \E m \in Markets : UpsertReserve(c, m)
     \/ CommitDataset(c) \/ RollBack(c) \/ FinishRun(c) \/ FinishFailedRun(c)
  /\ ClientReset

ProcessStep ==
  /\ BootStep \/ Crash \/ Stop
  /\ ClientReset

RequestStep(r) ==
  \/ Request(r) /\ ClientReset
  \/ (Conflict(r) \/ Cancel(r)) /\ UNCHANGED clientVars

SyncStepOverGraph(c) == LoadDemo(c) \/ ClientStep(c) \/ ElsewhereStep(c)

InitOverGraph == Init /\ attempt = 1 /\ stage = "request"

NextOverGraph ==
  \/ ProcessStep
  \/ \E r \in Requests : RequestStep(r)
  \/ \E c \in Callers : SyncStepOverGraph(c)

SpecOverGraph == InitOverGraph /\ [][NextOverGraph]_allVars

(* As in SyncService; timers fire, and a request ends by its own timeout.  *)
FairOverGraph == SpecOverGraph /\ \A c \in Callers : WF_allVars(SyncStepOverGraph(c))

-----------------------------------------------------------------------------
(* Properties.                                                             *)

(* The whole conversation is, for Sync, the one step Load of SyncService:  *)
(* an error, or one dataset, observed now, for a caller who is still there *)
(* (client.go:98-128); and it always ends, as FairSpec asks of Load.  So   *)
(* what holds of SyncService holds with the client in it.                  *)
LoadImplemented == FairSpec

=============================================================================
