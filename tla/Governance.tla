----------------------------- MODULE Governance -----------------------------
(***************************************************************************)
(* How a production model changes: the bar worker's cycle calibrates the   *)
(* pairs (symbol and horizon) that are due, within a budget of attempts    *)
(* (AutoOrchestratorV8.calibrate_due), and lets a frozen challenger        *)
(* compete with the frozen champion on bars after their registration       *)
(* (champion_challenger.py).  Models are in simulation_lab, arenas and     *)
(* research times in model_governance: two databases without a common      *)
(* transaction, so a step here is one transaction on one of them, and the  *)
(* worker may be stopped, or an exception caught, between any two.         *)
(*                                                                         *)
(* A model is its signature: strategy and frozen parameters.  Backtests    *)
(* are abstracted to their outcome: any signature may be the candidate,    *)
(* and the gate may answer anything its limits on forward days allow.      *)
(***************************************************************************)
EXTENDS Integers, Sequences, FiniteSets

CONSTANTS
  N,           \* the pairs are 1..N, in the order calibrate_due visits them
  Failing,     \* the pairs without enough closed bars: every attempt raises
  Signatures,
  NoModel,
  Budget,      \* V6_CALIBRATIONS_PER_CYCLE
  Recalibrate, \* RECALIBRATE_HOURS
  MinForward,  \* time after a registration that V6_CC_MIN_FORWARD_DAYS takes
  MaxForward,  \* the same for V6_CC_MAX_FORWARD_DAYS
  MaxTime,     \* bound: the last instant of the clock
  MaxArenas,   \* bound: arenas registered
  MaxStops     \* bound: stopped workers and caught exceptions

Pairs == 1..N
Positions == 1..(N + 1)  \* of a cycle's loop over the pairs

ASSUME GovernanceAssumption ==
  /\ N \in Nat /\ Failing \subseteq Pairs /\ NoModel \notin Signatures
  /\ Budget \in Nat \ {0} /\ Recalibrate \in Nat
  /\ MinForward \in Nat /\ MaxForward \in Nat /\ MinForward <= MaxForward
  /\ MaxTime \in Nat /\ MaxArenas \in Nat /\ MaxStops \in Nat

VARIABLES
  model,      \* pair -> signature of the model in use, NoModel if none
  updated,    \* pair -> models.updated_at
  arenas,     \* rows of arenas, in the order they were inserted
  research,   \* pair -> research_state.last_research_at, Never if no row
  now,
  worker,     \* the program counter and the locals of the cycle
  stops       \* how often something was cut short

vars == <<model, updated, arenas, research, now, worker, stops>>

Never == -1
Kinds == {"scheduled", "force_calibration"}
ArenaRow ==
  [pair : Pairs, champion : Signatures, challenger : Signatures,
   status : {"ACTIVE", "PROMOTED", "REJECTED"}, registered : Nat, kind : Kinds]

(* kind: of the request the cycle serves (in a row of arenas it is kept    *)
(* for the properties only).                                               *)
(* pair, attempts: of calibrate_due.  start: the `now` of the phase.       *)
(* candidate: the model calibrated.  todo: arenas process_active has read  *)
(* and not looked at yet; arena: the one it is deciding.                   *)
WorkerState ==
  [at : {"idle", "pair", "initial", "register", "insert", "refresh", "simulate",
         "arena", "promote", "mark"},
   kind : Kinds, pair : Positions, attempts : Nat, start : Nat,
   candidate : Signatures \cup {NoModel}, todo : SUBSET Nat, arena : Nat]
Idle ==
  [at |-> "idle", kind |-> "scheduled", pair |-> 1, attempts |-> 0, start |-> 0,
   candidate |-> NoModel, todo |-> {}, arena |-> 0]

TypeOK ==
  /\ model \in [Pairs -> Signatures \cup {NoModel}]
  /\ updated \in [Pairs -> Nat]
  /\ arenas \in Seq(ArenaRow)
  /\ research \in [Pairs -> Nat \cup {Never}]
  /\ now \in Nat
  /\ worker \in WorkerState
  /\ stops \in Nat

Init ==
  /\ model = [p \in Pairs |-> NoModel]
  /\ updated = [p \in Pairs |-> 0]
  /\ arenas = <<>>
  /\ research = [p \in Pairs |-> Never]
  /\ now = 0
  /\ worker = Idle
  /\ stops = 0

-----------------------------------------------------------------------------
ActiveArenas(p) ==
  {a \in DOMAIN arenas : arenas[a].pair = p /\ arenas[a].status = "ACTIVE"}

(* Mutant: the symbol is not normalised, and no row matches. *)
ActiveArenaMissed(p) == FALSE
ActiveArena(p) == ActiveArenas(p) # {}

(* _model_due *)
Due(p) ==
  LET since == IF research[p] = Never THEN updated[p] ELSE research[p] IN
  model[p] = NoModel \/ (~ActiveArena(p) /\ worker.start - since >= Recalibrate)

At(label) == worker.at = label
Goto(label) == worker' = [worker EXCEPT !.at = label]

(* mark_research, on its own a transaction *)
MarkResearch(p, time) == research' = [research EXCEPT ![p] = time]

SaveModel(p, signature, time) ==
  /\ model' = [model EXCEPT ![p] = signature]
  /\ updated' = [updated EXCEPT ![p] = time]

-----------------------------------------------------------------------------
(* full_cycle, calibration: pair after pair. *)

OnlyWorker == UNCHANGED <<model, updated, arenas, research, now, stops>>

(* a scheduled cycle, or one a manual request forces to recalibrate *)
StartCycle(kind) ==
  /\ At("idle")
  /\ worker' = [Idle EXCEPT !.at = "pair", !.kind = kind, !.start = now]
  /\ OnlyWorker

NextPair == [worker EXCEPT !.at = "pair", !.pair = @ + 1, !.candidate = NoModel]

Skipped(p) == ActiveArena(p) \/ (worker.kind = "scheduled" /\ ~Due(p))

SkipPair ==
  /\ At("pair") /\ worker.pair <= N /\ Skipped(worker.pair)
  /\ worker' = NextPair
  /\ OnlyWorker

(* Mutant: one attempt short of the budget. *)
ExhaustedEarly ==
  worker.pair <= N /\ ~Skipped(worker.pair) /\ worker.attempts + 1 >= Budget

(* the budget is looked at for a pair that is due *)
Exhausted == worker.pair <= N /\ ~Skipped(worker.pair) /\ worker.attempts >= Budget

EndCalibration ==
  /\ At("pair") /\ (worker.pair > N \/ Exhausted)
  /\ Goto("simulate")
  /\ OnlyWorker

Attempting(p) == At("pair") /\ p = worker.pair /\ p <= N /\ ~Skipped(p) /\ ~Exhausted

(* too few closed bars: WAITING_FOR_HISTORY *)
AttemptFails ==
  /\ \E p \in Failing : Attempting(p)
  /\ worker' = [NextPair EXCEPT !.attempts = @ + 1]
  /\ OnlyWorker

(* the first valid model becomes the initial champion *)
CalibrateInitial(signature) ==
  /\ \E p \in Pairs \ Failing :
       Attempting(p) /\ model[p] = NoModel /\ SaveModel(p, signature, now)
  /\ worker' = [worker EXCEPT !.at = "initial", !.attempts = @ + 1]
  /\ UNCHANGED <<arenas, research, now, stops>>

MarkInitial ==
  /\ At("initial")
  /\ MarkResearch(worker.pair, worker.start)
  /\ worker' = NextPair
  /\ UNCHANGED <<model, updated, arenas, now, stops>>

(* _candidate_model.  `current` was read before; only this worker writes   *)
(* models, so the later steps read model[pair] for it.                     *)
CalibrateCandidate(signature) ==
  /\ \E p \in Pairs \ Failing :
       /\ Attempting(p) /\ model[p] # NoModel
       /\ signature # model[p] => Len(arenas) < MaxArenas
  /\ worker' = [worker EXCEPT !.at = "register", !.attempts = @ + 1, !.candidate = signature]
  /\ OnlyWorker

(* Mutant: the research is not noted. *)
RegisterUnmarked ==
  /\ At("register")
  /\ IF ActiveArena(worker.pair)
     THEN worker' = NextPair
     ELSE Goto(IF worker.candidate = model[worker.pair] THEN "refresh" ELSE "insert")
  /\ UNCHANGED <<model, updated, arenas, research, now, stops>>

(* register_challenge: an active arena ends it; otherwise the research is  *)
(* noted, and the same model needs no arena                                *)
RegisterChallenge ==
  /\ At("register")
  /\ IF ActiveArena(worker.pair)
     THEN worker' = NextPair /\ UNCHANGED research
     ELSE /\ MarkResearch(worker.pair, worker.start)
          /\ Goto(IF worker.candidate = model[worker.pair] THEN "refresh" ELSE "insert")
  /\ UNCHANGED <<model, updated, arenas, now, stops>>

InsertActive ==
  arenas' = Append(arenas,
    [pair |-> worker.pair, champion |-> model[worker.pair], challenger |-> worker.candidate,
     status |-> "ACTIVE", registered |-> worker.start, kind |-> worker.kind])

(* Mutant: the candidate is saved whatever register_challenge answers. *)
InsertAndSave ==
  /\ At("insert")
  /\ InsertActive
  /\ Goto("refresh")
  /\ UNCHANGED <<model, updated, research, now, stops>>

InsertArena ==
  /\ At("insert")
  /\ InsertActive
  /\ worker' = NextPair
  /\ UNCHANGED <<model, updated, research, now, stops>>

(* SAME_MODEL: the candidate's evidence is saved *)
RefreshModel ==
  /\ At("refresh")
  /\ SaveModel(worker.pair, worker.candidate, worker.start)
  /\ worker' = NextPair
  /\ UNCHANGED <<arenas, research, now, stops>>

-----------------------------------------------------------------------------
(* full_cycle, governance: arena after arena. *)

(* process_active reads the active arenas once *)
StartGovernance ==
  /\ At("simulate")
  /\ worker' = [Idle EXCEPT !.at = "arena", !.start = now,
                  !.todo = {a \in DOMAIN arenas : arenas[a].status = "ACTIVE"}]
  /\ OnlyWorker

NextArena == [worker EXCEPT !.at = "arena", !.arena = 0]
ForwardTime(a) == worker.start - arenas[a].registered  \* bounds forward_days

(* Below, a is an arena of worker.todo. *)

(* LEARNING, CONTINUE, no data, an exception: the arena stays as it is *)
ContinueArena(a) ==
  /\ At("arena")
  /\ worker' = [worker EXCEPT !.todo = @ \ {a}]
  /\ OnlyWorker

(* PROMOTE_READY: the model is saved in simulation_lab first *)
SavePromoted(a) ==
  /\ At("arena")
  /\ ForwardTime(a) >= MinForward
  /\ SaveModel(arenas[a].pair, arenas[a].challenger, worker.start)
  /\ worker' = [worker EXCEPT !.at = "promote", !.todo = @ \ {a}, !.arena = a]
  /\ UNCHANGED <<arenas, research, now, stops>>

(* _set_arena_result *)
CloseArena(a, status) == arenas' = [arenas EXCEPT ![a].status = status]

PromoteArena ==
  /\ At("promote")
  /\ CloseArena(worker.arena, "PROMOTED")
  /\ Goto("mark")
  /\ UNCHANGED <<model, updated, research, now, stops>>

RejectArena(a) ==
  /\ At("arena")
  /\ ForwardTime(a) >= MaxForward
  /\ CloseArena(a, "REJECTED")
  /\ worker' = [worker EXCEPT !.at = "mark", !.todo = @ \ {a}, !.arena = a]
  /\ UNCHANGED <<model, updated, research, now, stops>>

MarkDecided ==
  /\ At("mark")
  /\ MarkResearch(arenas[worker.arena].pair, worker.start)
  /\ worker' = NextArena
  /\ UNCHANGED <<model, updated, arenas, now, stops>>

EndCycle ==
  /\ At("arena") /\ worker.todo = {}
  /\ worker' = Idle
  /\ OnlyWorker

-----------------------------------------------------------------------------
Stop == stops < MaxStops /\ stops' = stops + 1
Kept == UNCHANGED <<model, updated, arenas, research, now>>

(* the supervisor or a crash: the locals are lost *)
KillWorker == ~At("idle") /\ Stop /\ worker' = Idle /\ Kept

(* a caught exception: the next pair, or the next arena *)
CatchCalibration ==
  /\ worker.at \in {"initial", "register", "insert", "refresh"} /\ Stop
  /\ worker' = NextPair
  /\ Kept

CatchAttempt ==
  /\ At("pair") /\ (\E p \in Pairs : Attempting(p)) /\ Stop
  /\ worker' = [NextPair EXCEPT !.attempts = @ + 1]
  /\ Kept

CatchGovernance ==
  /\ worker.at \in {"promote", "mark"} /\ Stop
  /\ worker' = NextArena
  /\ Kept

Tick ==
  /\ now < MaxTime
  /\ now' = now + 1
  /\ UNCHANGED <<model, updated, arenas, research, worker, stops>>

Calibration ==
  \/ SkipPair
  \/ EndCalibration
  \/ AttemptFails
  \/ \E s \in Signatures : CalibrateInitial(s)
  \/ MarkInitial
  \/ \E s \in Signatures : CalibrateCandidate(s)
  \/ RegisterChallenge
  \/ InsertArena
  \/ RefreshModel

Decision ==
  \/ StartGovernance
  \/ \E a \in worker.todo : ContinueArena(a)
  \/ \E a \in worker.todo : SavePromoted(a)
  \/ \E a \in worker.todo : RejectArena(a)
  \/ PromoteArena
  \/ MarkDecided
  \/ EndCycle

Cut == KillWorker \/ CatchAttempt \/ CatchCalibration \/ CatchGovernance

Next ==
  \/ \E kind \in Kinds : StartCycle(kind)
  \/ Calibration
  \/ Decision
  \/ Cut
  \/ Tick

Spec == Init /\ [][Next]_vars

(* The worker takes its next step (the supervisor restarts one that does   *)
(* not), and not every cycle is one somebody has forced.                   *)
FairSpec ==
  /\ Spec
  /\ WF_vars(Calibration \/ Decision)
  /\ SF_vars(StartCycle("scheduled"))

-----------------------------------------------------------------------------
(* A pair never has two arenas at once: register_challenge looks for one   *)
(* and inserts one in two transactions, and calibrate_due must not come to *)
(* the pair again until the first is decided.                              *)
OneActiveArena == \A p \in Pairs : \A a, b \in ActiveArenas(p) : a = b

ArenasOf(p) == {a \in DOMAIN arenas : arenas[a].pair = p}
NextOf(a) == {b \in ArenasOf(arenas[a].pair) : b > a}

(* What may be in production after an arena, or while it is active.  Where *)
(* a promotion was cut short between its two databases, the challenger may *)
(* already be there and stay there.                                        *)
Outcome(a) ==
  CASE arenas[a].status = "PROMOTED" -> {arenas[a].challenger}
    [] arenas[a].status = "REJECTED" /\ stops = 0 -> {arenas[a].champion}
    [] OTHER -> {arenas[a].champion, arenas[a].challenger}

(* The champion of an arena is what the pair's arena before it left in     *)
(* production, and the model in production is what the last one left       *)
(* there: neither a recalibration nor a cut promotion, nor the refresh of  *)
(* a model's evidence, puts anything else into production.                 *)
ChampionChain ==
  \A a \in DOMAIN arenas :
    IF NextOf(a) = {}
    THEN model[arenas[a].pair] \in Outcome(a)
    ELSE \E b \in NextOf(a) :
           (\A c \in NextOf(a) : b <= c) /\ arenas[b].champion \in Outcome(a)

(* Unless somebody forces it, a pair is not challenged twice within the    *)
(* time between two recalibrations, whatever was cut short in between: the *)
(* research is noted before the arena is inserted.                         *)
ChallengersSpaced ==
  \A b \in DOMAIN arenas : \A a \in ArenasOf(arenas[b].pair) :
    a < b /\ arenas[b].kind = "scheduled" =>
      arenas[b].registered - arenas[a].registered >= Recalibrate

(* A pair that has the bars gets its first model, although pairs that have *)
(* not are attempted before it in every cycle, while those do not use up   *)
(* the budget.                                                             *)
EveryPairGetsModel ==
  \A p \in Pairs \ Failing :
    Cardinality({q \in Failing : q < p}) < Budget => <>(model[p] # NoModel)

(* "The first valid model becomes the initial Champion, then future        *)
(* changes must win a paired forward arena before replacing it":           *)
(* a challenger that lost its arena is not in production.                  *)
EveryChangeWon ==
  \A a \in DOMAIN arenas :
    arenas[a].status = "REJECTED" /\ NextOf(a) = {} =>
      model[arenas[a].pair] = arenas[a].champion
=============================================================================
