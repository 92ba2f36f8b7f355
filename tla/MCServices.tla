------------------------------ MODULE MCServices ------------------------------
(***************************************************************************)
(* Instances for TLC of the services beside the main worker: a sidecar     *)
(* under its supervisor, and the feed of the realtime worker.  They share  *)
(* no variable, so that a property of one holds beside the other if it     *)
(* holds alone: scene says which one moves.                                *)
(***************************************************************************)
EXTENDS Sidecar, RealtimeFeed

VARIABLE scene

servicesVars == <<scene, sidecarVars, feedVars>>

(* A first heartbeat before the first check, after it, or, of the direction *)
(* worker, at the end of its grace                                         *)
FirstBeats == [k \in Kinds |-> IF k = "direction" THEN 2 ELSE 1]

ServicesInit ==
  /\ scene \in {"sidecar", "feed"}
  /\ SidecarInit /\ FeedInit
  /\ scene = "feed" => sidecar = "tca" /\ tick.symbol = "valid"

OfSidecar(A) == scene = "sidecar" /\ A /\ UNCHANGED <<scene, feedVars>>
OfFeed(A) == scene = "feed" /\ A /\ UNCHANGED <<scene, sidecarVars>>

(* The actions of both, one by one, so that TLC counts each of them *)
ServicesNext ==
  \/ OfSidecar(WriteBeat)
  \/ OfSidecar(TurnCycle)
  \/ OfSidecar(QuoteArrives)
  \/ \E how \in {"gone", "hung", "stuck"} : OfSidecar(ChildFails(how))
  \/ OfSidecar(StreamSilent)
  \/ OfSidecar(RestDown)
  \/ OfSidecar(RestUp)
  \/ OfSidecar(SleepToCheck)
  \/ OfSidecar(CheckTca)
  \/ OfSidecar(CheckRealtime)
  \/ OfSidecar(CheckDirection)
  \/ OfSidecar(LaunchSidecar)
  \/ \E s \in Assets : OfFeed(BarWorkerBuys(s))
  \/ \E s \in Assets : OfFeed(BarWorkerSells(s))
  \/ \E rows \in SUBSET Assets : OfFeed(ReadPositions(rows))
  \/ OfFeed(SetWatchlist)
  \/ OfFeed(Connect)
  \/ OfFeed(CheckSubscription)
  \/ OfFeed(NoMessage)
  \/ OfFeed(ProtectPosition)
  \/ \E action \in {"ENTER", "WAIT"} : OfFeed(EvaluateSignal(action))
  \/ OfFeed(StreamFails)
  \/ \E s \in Assets, p \in Prices : OfFeed(Message(s, p))
  \/ \E s \in Assets : OfFeed(RestRefresh(s))

(* SidecarFairness and FeedFairness, each in its scene *)
ServicesFairness ==
  /\ WF_servicesVars(OfSidecar(WriteBeat)) /\ WF_servicesVars(OfSidecar(TurnCycle))
  /\ WF_servicesVars(OfSidecar(QuoteArrives)) /\ WF_servicesVars(OfSidecar(RestUp))
  /\ WF_servicesVars(OfSidecar(SleepToCheck)) /\ WF_servicesVars(OfSidecar(LaunchSidecar))
  /\ WF_servicesVars(OfSidecar(CheckTca \/ CheckRealtime \/ CheckDirection))
  /\ WF_servicesVars(OfFeed(\E rows \in SUBSET Assets : ReadPositions(rows)))
  /\ WF_servicesVars(OfFeed(SetWatchlist))
  /\ WF_servicesVars(OfFeed(StreamStep))

ServicesSpec == ServicesInit /\ [][ServicesNext]_servicesVars /\ ServicesFairness

(* A process that writes before its supervisor could stop it for the want  *)
(* of a heartbeat: the direction supervisor gives it a grace, the other    *)
(* two look at the file before it from the first check on                  *)
Prompt == IF sidecar = "direction" THEN child.start < StartupGrace ELSE child.start = 0
CutShort == watcher = "stop" /\ child.is = "starting"

(* Once nothing fails any more, each service comes to run and is left      *)
(* running: what hangs or stalls is found out and replaced, and neither    *)
(* the predecessor's file, once the new process writes promptly, nor a     *)
(* delisted symbol (realtime_supervisor.main, "do not cause an endless     *)
(* reconnect loop") makes the supervisor restart it again and again.       *)
(* There is one exception: processes that from some time on never start    *)
(* promptly may be stopped before their first heartbeat for ever, which    *)
(* tca_supervisor and realtime_supervisor do over a file older than        *)
(* STALE_SECONDS, and direction_shadow_supervisor after its grace.         *)
SidecarsSettle ==
  scene = "sidecar" =>
    \/ <>[](child.is = "well" /\ watcher # "stop")
    \/ <>[]~Prompt /\ []<>CutShort
=============================================================================
