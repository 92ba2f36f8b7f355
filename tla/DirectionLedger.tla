----------------------------- MODULE DirectionLedger -----------------------------
(***************************************************************************)
(* The direction shadow of one pair (direction_shadow_worker.py,           *)
(* src/src/direction_forward.py).  Each cycle reads the bars the main      *)
(* worker has cached, evaluates the pending prediction if its bars are     *)
(* there, and registers a new one on the last bar.  Evaluation, the look   *)
(* for a pending row and the insert are three transactions over one copy   *)
(* of the bars; the worker may stop between any two, and a lost container  *)
(* brings back the ledger of an earlier snapshot and an empty cache.       *)
(***************************************************************************)
EXTENDS MarketCache, Sequences

CONSTANTS
  Window,       \* EVALUATION_BARS of the horizon
  MinBars,      \* bars without which a pair is left out
  Decisions,    \* LONG, SHORT, NO_TRADE
  Touches,      \* what a bar of the window reaches: quiet, stop, target, both
  MaxLosses     \* bound: containers lost

DirectionAssumption ==
  /\ Window \in Nat \ {0} /\ MinBars \in Nat \ {0} /\ MaxLosses \in Nat
  /\ Decisions \subseteq {"LONG", "SHORT", "NO_TRADE"}
  /\ Touches \subseteq {"quiet", "stop", "target", "both"}
ASSUME DirectionAssumption

VARIABLES
  predictions,  \* direction_predictions, in the order of their insertion
  saved,        \* the ledger of the last snapshot
  direction,    \* the worker: where it is, the last bar it has read
  losses

directionVars == <<cacheVars, predictions, saved, direction, losses>>

DirectionInit ==
  /\ CacheInit
  /\ predictions = <<>> /\ saved = <<>>
  /\ direction = [at |-> "idle", last |-> 0]
  /\ losses = 0

(* the database the worker reads: the cache goes on under it *)
CacheStep ==
  /\ ClockTicks \/ (\E f \in BOOLEAN : EnsureFetches(f)) \/ (\E f \in BOOLEAN : EnsureFails(f))
  /\ UNCHANGED <<predictions, saved, direction, losses>>

Latest(rows) == CHOOSE b \in rows : \A c \in rows : c <= b

(* build_snapshot of the pair: one copy of the closed rows *)
ReadBars ==
  /\ direction.at = "idle"
  /\ Cardinality(ClosedOnly) >= MinBars
  /\ direction' = [at |-> "evaluate", last |-> Latest(ClosedOnly)]
  /\ UNCHANGED <<cacheVars, predictions, saved, losses>>

Pendings == {i \in DOMAIN predictions : predictions[i].status = "PENDING"}

(* _trade_path over the window: the first bar that reaches a level, the    *)
(* stop before the target within a bar; none, and the time runs out        *)
ExitAt(touch) ==
  IF \E k \in 1..Window : touch[k] # "quiet"
  THEN CHOOSE k \in 1..Window : touch[k] # "quiet" /\ \A j \in 1..(k - 1) : touch[j] = "quiet"
  ELSE Window

ExitReason(side, touch) ==
  IF side = "NO_TRADE" THEN "WAIT_WINDOW"
  ELSE CASE touch[ExitAt(touch)] = "quiet" -> "TIME"
         [] touch[ExitAt(touch)] = "target" -> "TARGET"
         [] OTHER -> "STOP"

Outcome(p, touch) ==
  [asOf |-> p.asOf, decision |-> p.decision, status |-> "EVALUATED",
   entry |-> p.asOf + 1,
   exit |-> IF p.decision = "NO_TRADE" THEN p.asOf + Window ELSE p.asOf + ExitAt(touch),
   reason |-> ExitReason(p.decision, touch)]

(* evaluate_pair; a prediction whose window is not over waits *)
EvaluatePair(i, touch) ==
  /\ direction.at = "evaluate"
  /\ i \in Pendings /\ direction.last - predictions[i].asOf >= Window
  /\ predictions' = [predictions EXCEPT ![i] = Outcome(@, touch)]
  /\ UNCHANGED <<cacheVars, saved, direction, losses>>

AllEvaluated ==
  /\ direction.at = "evaluate"
  /\ \A i \in Pendings : direction.last - predictions[i].asOf < Window
  /\ direction' = [direction EXCEPT !.at = "look"]
  /\ UNCHANGED <<cacheVars, predictions, saved, losses>>

(* mutant: nobody looks *)
LookForNothing ==
  /\ direction.at = "look"
  /\ direction' = [direction EXCEPT !.at = "register"]
  /\ UNCHANGED <<cacheVars, predictions, saved, losses>>

(* has_pending *)
LookForPending ==
  /\ direction.at = "look"
  /\ direction' = IF Pendings = {} THEN [direction EXCEPT !.at = "register"]
                  ELSE [at |-> "idle", last |-> 0]
  /\ UNCHANGED <<cacheVars, predictions, saved, losses>>

(* INSERT OR IGNORE on the key of the pair and the bar *)
Register(side) ==
  /\ direction.at = "register"
  /\ predictions' = IF \E i \in DOMAIN predictions : predictions[i].asOf = direction.last
                    THEN predictions
                    ELSE Append(predictions,
                           [asOf |-> direction.last, decision |-> side, status |-> "PENDING",
                            entry |-> 0, exit |-> 0, reason |-> "NONE"])
  /\ direction' = [at |-> "idle", last |-> 0]
  /\ UNCHANGED <<cacheVars, saved, losses>>

(* an exception skips the rest of the pair; the supervisor stops a worker *)
DirectionStops ==
  /\ direction.at # "idle"
  /\ direction' = [at |-> "idle", last |-> 0]
  /\ UNCHANGED <<cacheVars, predictions, saved, losses>>

(* storage_rescue copies the ledger to the volume *)
SaveLedger ==
  /\ saved # predictions
  /\ saved' = predictions
  /\ UNCHANGED <<cacheVars, predictions, direction, losses>>

ContainerLost ==
  /\ losses < MaxLosses /\ losses' = losses + 1
  /\ CacheLost
  /\ predictions' = saved
  /\ direction' = [at |-> "idle", last |-> 0]
  /\ UNCHANGED saved

DirectionNext ==
  \/ CacheStep
  \/ ReadBars
  \/ \E i \in DOMAIN predictions, touch \in [1..Window -> Touches] : EvaluatePair(i, touch)
  \/ AllEvaluated
  \/ LookForPending
  \/ \E d \in Decisions : Register(d)
  \/ DirectionStops
  \/ SaveLedger
  \/ ContainerLost

DirectionSpec == DirectionInit /\ [][DirectionNext]_directionVars

-----------------------------------------------------------------------------
PredictionRows ==
  [asOf : Nat, decision : Decisions, status : {"PENDING", "EVALUATED"}, entry : Nat, exit : Nat,
   reason : {"NONE", "WAIT_WINDOW", "TIME", "TARGET", "STOP"}]

DirectionTypeOK ==
  /\ CacheTypeOK
  /\ predictions \in Seq(PredictionRows) /\ saved \in Seq(PredictionRows)
  /\ direction \in [at : {"idle", "evaluate", "look", "register"}, last : Nat]
  /\ losses \in 0..MaxLosses

(* The samples of a pair do not overlap: a prediction is made on a bar     *)
(* that ends the window of the one before or comes after it, whatever was  *)
(* cut short, lost or restored, and a result lies within its own window    *)
(* ("Isolated, non-overlapping Forward ledger").                           *)
SamplesDoNotOverlap ==
  \A i, j \in DOMAIN predictions :
    /\ i < j => /\ predictions[i].status = "EVALUATED"
                /\ predictions[i].asOf + Window <= predictions[j].asOf
    /\ predictions[i].status = "EVALUATED" =>
         /\ predictions[i].entry = predictions[i].asOf + 1
         /\ predictions[i].exit \in predictions[i].entry..(predictions[i].asOf + Window)
=============================================================================
