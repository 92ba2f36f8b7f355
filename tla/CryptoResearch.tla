---------------------------- MODULE CryptoResearch ----------------------------
(***************************************************************************)
(* What the research engine of Crypto V2 adds to each bar of a symbol      *)
(* before and inside the bar's own processing                              *)
(* (src/src/crypto_v2/research_engine.py, bidirectional_shadow.py,         *)
(* research.py): the evaluations that are running are advanced by the bar, *)
(* a new decision is recorded if the shadow was registered in time, and    *)
(* the entry that the portfolio limits blocked is followed as if it had    *)
(* been made.  Each is a transaction of its own, and the cursor moves in   *)
(* the last one (CryptoShadow.SetLastProcessed): a bar that was cut short  *)
(* is begun again, unless a later one went through before.                 *)
(***************************************************************************)
EXTENDS Integers, Sequences, FiniteSets

CONSTANTS
  Horizon,        \* evaluation_bars
  MaxHolding,     \* max_holding_bars of a blocked entry
  FinalBar,       \* bound: bars that close
  MaxBreaks       \* bound: bars that fail, engines that are cut

ResearchAssumption ==
  /\ Horizon \in Nat \ {0} /\ MaxHolding \in Nat \ {0}
  /\ FinalBar \in Nat /\ MaxBreaks \in Nat
ASSUME ResearchAssumption

VARIABLES
  ended,        \* bars that have closed; the open of the next one is executable
  cursor,       \* last_processed_bar, 0 before the first
  since,        \* bidirectional_registered_at: bars closed by then, -1 before
  decisions,    \* bidirectional_decisions, in the order of their bars
  blocked,      \* blocked_candidates, in the order of their bars
  research,     \* the engine: where it is, its bar, the bars of its plan after it
  breaks

researchVars == <<ended, cursor, since, decisions, blocked, research, breaks>>

Nowhere == [at |-> "idle", bar |-> 0, plan |-> {}]

ResearchInit ==
  /\ ended = 0 /\ cursor = 0 /\ since = -1
  /\ decisions = <<>> /\ blocked = <<>>
  /\ research = Nowhere
  /\ breaks = 0

-----------------------------------------------------------------------------
BarEnds ==
  /\ ended < FinalBar
  /\ ended' = ended + 1
  /\ UNCHANGED <<cursor, since, decisions, blocked, research, breaks>>

(* the bar after those of the plan that are done *)
Upcoming(plan) ==
  IF plan = {} THEN Nowhere
  ELSE LET b == CHOOSE b \in plan : \A c \in plan : b <= c
       IN  [at |-> "advance", bar |-> b, plan |-> plan \ {b}]

(* cycle: the first one ever registers the shadow and only its last bar *)
StartResearch ==
  /\ research.at = "idle" /\ ended > cursor
  /\ since' = IF since = -1 THEN ended ELSE since
  /\ research' = Upcoming(IF cursor = 0 THEN {ended} ELSE (cursor + 1)..ended)
  /\ UNCHANGED <<ended, cursor, decisions, blocked, breaks>>

(* A row that has entered counts the bar; bars: history, those it counted *)
Counted(d) == [d EXCEPT !.held = @ + 1, !.bars = @ \union {research.bar}]

EnteredRow(d) ==
  IF d.status # "PENDING_ENTRY" THEN d
  ELSE [d EXCEPT !.status = "OPEN", !.entry = research.bar]

(* mutant: a row may enter on the bar of its own decision *)
WaitsForNothing(d) == d.status = "CLOSED"

Waits(d) == d.status = "CLOSED" \/ (d.status = "PENDING_ENTRY" /\ d.decided >= research.bar)

Advanced(d) ==
  LET e == Counted(EnteredRow(d))
  IN  IF Waits(d) THEN d
      ELSE IF e.held < Horizon THEN e
      ELSE [e EXCEPT !.status = "CLOSED", !.exit = research.bar]

(* advance_bidirectional_evaluations: all rows in one transaction *)
AdvanceEvaluations ==
  /\ research.at = "advance"
  /\ decisions' = [n \in DOMAIN decisions |-> Advanced(decisions[n])]
  /\ research' = [research EXCEPT !.at = "record"]
  /\ UNCHANGED <<ended, cursor, since, blocked, breaks>>

NewRow(b) == [decided |-> b, status |-> "PENDING_ENTRY", entry |-> 0, exit |-> 0, held |-> 0,
              bars |-> {}]

(* is_forward_eligible: a bar that had closed by the registration is not. *)
(* Then INSERT OR IGNORE; what is decided is free                          *)
RecordDecision ==
  LET b == research.bar
  IN  /\ research.at = "record"
      /\ decisions' = IF b <= since \/ \E n \in DOMAIN decisions : decisions[n].decided = b
                      THEN decisions
                      ELSE Append(decisions, NewRow(b))
      /\ research' = [research EXCEPT !.at = "follow"]
      /\ UNCHANGED <<ended, cursor, since, blocked, breaks>>

Active(rows) == {n \in DOMAIN rows : rows[n].status # "CLOSED"}

(* manage_blocked_candidate: a level that the bar reaches comes first *)
Followed(d, touch) ==
  LET e == EnteredRow(d)
  IN  IF Waits(d) THEN d
      ELSE IF touch
      THEN [e EXCEPT !.status = "CLOSED", !.exit = research.bar, !.bars = @ \union {research.bar}]
      ELSE IF e.held + 1 >= MaxHolding
      THEN [Counted(e) EXCEPT !.status = "CLOSED", !.exit = research.bar]
      ELSE Counted(e)

FollowBlocked(touch) ==
  /\ research.at = "follow"
  /\ blocked' = [n \in DOMAIN blocked |->
                   IF n \in Active(blocked) THEN Followed(blocked[n], touch) ELSE blocked[n]]
  /\ research' = [research EXCEPT !.at = "decide"]
  /\ UNCHANGED <<ended, cursor, since, decisions, breaks>>

(* add_decision: an entry that the limits blocked is followed from here,   *)
(* unless one of the symbol is                                             *)
BlockEntry ==
  /\ research.at = "decide"
  /\ Active(blocked) = {}
  /\ \A n \in DOMAIN blocked : blocked[n].decided # research.bar
  /\ blocked' = Append(blocked, NewRow(research.bar))
  /\ research' = [research EXCEPT !.at = "cursor"]
  /\ UNCHANGED <<ended, cursor, since, decisions, breaks>>

NothingBlocked ==
  /\ research.at = "decide"
  /\ research' = [research EXCEPT !.at = "cursor"]
  /\ UNCHANGED <<ended, cursor, since, decisions, blocked, breaks>>

MoveCursor ==
  /\ research.at = "cursor"
  /\ cursor' = research.bar
  /\ research' = Upcoming(research.plan)
  /\ UNCHANGED <<ended, since, decisions, blocked, breaks>>

(* the exception of a bar, after which the plan goes on *)
ResearchFails ==
  /\ research.at # "idle"
  /\ breaks < MaxBreaks /\ breaks' = breaks + 1
  /\ research' = Upcoming(research.plan)
  /\ UNCHANGED <<ended, cursor, since, decisions, blocked>>

ResearchCut ==
  /\ research.at # "idle"
  /\ breaks < MaxBreaks /\ breaks' = breaks + 1
  /\ research' = Nowhere
  /\ UNCHANGED <<ended, cursor, since, decisions, blocked>>

ResearchNext ==
  \/ BarEnds
  \/ StartResearch
  \/ AdvanceEvaluations
  \/ RecordDecision
  \/ \E touch \in BOOLEAN : FollowBlocked(touch)
  \/ BlockEntry
  \/ NothingBlocked
  \/ MoveCursor
  \/ ResearchFails
  \/ ResearchCut

ResearchSpec == ResearchInit /\ [][ResearchNext]_researchVars

-----------------------------------------------------------------------------
Evaluations ==
  [decided : 1..FinalBar, status : {"PENDING_ENTRY", "OPEN", "CLOSED"}, entry : 0..FinalBar,
   exit : 0..FinalBar, held : Nat, bars : SUBSET (1..FinalBar)]

ResearchTypeOK ==
  /\ ended \in 0..FinalBar /\ cursor \in 0..FinalBar /\ since \in -1..FinalBar
  /\ decisions \in Seq(Evaluations) /\ blocked \in Seq(Evaluations)
  /\ research \in [at : {"idle", "advance", "record", "follow", "decide", "cursor"},
                   bar : 0..FinalBar, plan : SUBSET (1..FinalBar)]
  /\ breaks \in 0..MaxBreaks

(* Evaluations are evidence of the future of their decisions, one row of a *)
(* bar, none from before the registration.  A bar that is begun again      *)
(* counts twice, so each interruption makes an evaluation one bar shorter  *)
(* and no more; it takes two of them to count bars out of their order, the *)
(* decision's own included                                                 *)
(* (research_engine._process_bar, "the current bar can never be used to    *)
(* score a decision that was not yet known").                              *)
EvaluationsAreForward ==
  \A n \in DOMAIN decisions :
    LET d == decisions[n]
    IN  /\ d.decided > since
        /\ \A m \in DOMAIN decisions : m # n => decisions[m].decided # d.decided
        /\ breaks < 2 => \A b \in d.bars : b > d.decided /\ b >= d.entry
        /\ d.held - Cardinality(d.bars) \in 0..breaks
        /\ d.status = "CLOSED" =>
             /\ d.held = Horizon
             /\ d.exit - d.decided >= Horizon - breaks
=============================================================================
