------------------------------ MODULE EntrySizing ------------------------------
(***************************************************************************)
(* What becomes of the notional a pending BUY asks for when its bar opens  *)
(* (simulation_engine._fill_pending, risk_sizing.active_entry_sizing,      *)
(* entry_gate.py, leverage_guard.py): nine assessors answer one after the  *)
(* other, each with a multiplier and a verdict, the answers are combined,  *)
(* the leverage guard cuts the amount to the account's room, and the gate  *)
(* admits the entry or not.  An assessor may find no row, or raise.        *)
(*                                                                         *)
(* Multipliers and scores are in percent, and products are rounded down.   *)
(* The figures an assessor works its score out of are left open: a score   *)
(* is any value, one for each step of its scale.                           *)
(***************************************************************************)
EXTENDS Integers, FiniteSetsExt

CONSTANTS
  Requests,     \* requested_notional
  Accounts,     \* [equity, gross] of the account at the open
  Leverage,     \* max_leverage of the horizon, in tenths
  Target,       \* the same less the headroom of the guard, in tenths
  Rate          \* the one-way cost is one part in Rate

SizingAssumption ==
  /\ Requests \subseteq Nat /\ Accounts \subseteq [equity : Nat, gross : Nat]
  /\ Rate \in Nat \ {0} /\ Leverage \in Nat /\ Target \in 0..Leverage
ASSUME SizingAssumption

VARIABLES
  account,
  request,      \* original_notional
  layer,        \* the assessor whose turn it is, then the steps after them
  entry,        \* the result: multipliers, reasons of the gate, amount
  asked         \* history: the least multiplier answered, and any veto

sizingVars == <<account, request, layer, entry, asked>>

Lower(x, y) == IF x <= y THEN x ELSE y
Higher(x, y) == IF x >= y THEN x ELSE y
Cut(amount, percent) == (amount * percent) \div 100

(* the first multiplier of a scale whose step the score reaches *)
Scaled(score, steps, multipliers, otherwise) ==
  LET reached == {i \in DOMAIN steps : score >= steps[i]}
  IN  IF reached = {} THEN otherwise ELSE multipliers[Min(reached)]

-----------------------------------------------------------------------------
(* The assessors *)

Neutral == [portfolio |-> 100, alpha |-> 100, factor |-> 100, verdict |-> "none"]
OfPortfolio(m, v) == [Neutral EXCEPT !.portfolio = m, !.verdict = v]
OfAlpha(m, v) == [Neutral EXCEPT !.alpha = m, !.verdict = v]
OfFactor(m, v) == [Neutral EXCEPT !.factor = m, !.verdict = v]

(* external_intelligence: a strategy may be cut further than its market *)
ExternalRisk(risk, news, strategy) ==
  LET market == Scaled(risk, <<72, 52, 32>>, <<55, 70, 85>>, 100)
  IN  CASE strategy = "Momentum" /\ risk >= 52 -> Higher(market - 10, 50)
        [] strategy = "Breakout" /\ news >= 60 -> Higher(market - 5, 50)
        [] OTHER -> market

(* regime_allocation *)
RegimeAllocation(strategy, trend, highVol) ==
  CASE trend = "unknown" -> 90
    [] strategy = "Trend MA" -> (CASE trend = "up" -> 100 [] trend = "down" -> 70 [] OTHER -> 82)
    [] strategy = "Momentum" -> (CASE trend = "up" -> 98 [] trend = "down" -> 70 [] OTHER -> 78)
    [] strategy = "Breakout" -> IF trend = "up" \/ highVol THEN 98 ELSE 82
    [] OTHER -> IF highVol THEN 75 ELSE IF trend = "sideways" THEN 100 ELSE 86

(* optimize_batch; relative: the score in parts of the best, -1 if the     *)
(* expected value is not positive                                          *)
BatchMultiplier(relative, correlation) ==
  LET base == IF relative < 0 THEN 25 ELSE 40 + Cut(60, relative)
  IN  Higher(20, Cut(base, Scaled(correlation, <<90, 75>>, <<50, 75>>, 100)))

(* build_pretrade_risk_snapshot and its overlay: the strictest counts *)
PretradeRow(score, external, regime, batch) ==
  OfPortfolio(Lower(Lower(Scaled(score, <<60, 30>>, <<50, 75>>, 100), external),
                    Lower(regime, batch)),
              IF score >= 60 THEN "BLOCK" ELSE "none")

Strategies == {"Trend MA", "Momentum", "Breakout", "Mean Reversion RSI"}

PretradeAnswers ==
  {PretradeRow(score, ExternalRisk(risk, news, strategy), RegimeAllocation(strategy, trend, vol),
               BatchMultiplier(relative, correlation)) :
     score \in {0, 30, 60}, risk \in {0, 32, 52, 72}, news \in {0, 60}, strategy \in Strategies,
     trend \in {"up", "down", "sideways", "unknown"}, vol \in BOOLEAN,
     relative \in {-1, 0, 100}, correlation \in {0, 75, 90}}

(* _group_risk of the GLOBAL group *)
GlobalAnswers == {OfPortfolio(Scaled(s, <<75, 55, 30>>, <<40, 65, 85>>, 100), "none") :
                    s \in {0, 30, 55, 75}}

(* estimate_trade_ev, score_portfolio_candidate: evR is the expected value *)
(* over the risk, evidence the weight of its sample                        *)
TradeEv(evR, evidence, score) ==
  [portfolio |-> IF evR <= 0 THEN 50 ELSE Scaled(score, <<45, 25, 10>>, <<100, 90, 80>>, 70),
   alpha |-> IF evR <= 0 THEN IF evidence < 25 THEN 50 ELSE 25
             ELSE Scaled(evR, <<50, 25, 10>>, <<100, 90, 80>>, 70),
   factor |-> 100,
   verdict |-> IF evR <= 0 /\ evidence >= 25 THEN "NEGATIVE_EV" ELSE "none"]

EvAnswers == {TradeEv(r, w, s) : r \in {-10, 5, 10, 25, 50}, w \in {0, 25}, s \in {0, 10, 25, 45}}

(* A sample of n trades with votes for failure; the strategies' and the    *)
(* symbols' snapshots differ in what they ask of it                        *)
HealthRow(n, votes, learning, shadow, pause, watch) ==
  CASE n < learning -> OfAlpha(100, "none")
    [] n >= pause /\ votes >= 4 -> OfAlpha(25, "PAUSE")
    [] ~(n >= pause /\ votes >= 4) /\ n >= shadow /\ votes >= 3 -> OfAlpha(50, "SHADOW_ONLY")
    [] OTHER -> OfAlpha(IF votes >= 1 THEN watch ELSE 100, "none")

StrategyAnswers == {HealthRow(n, v, 5, 10, 20, 80) : n \in {0, 5, 10, 20}, v \in 0..4}
SymbolAnswers == {HealthRow(n, v, 3, 5, 10, 75) : n \in {0, 3, 5, 10}, v \in 0..4}

(* expected_live_sizing: the weight of the live sample grows with it *)
ForwardWeight(n) ==
  CASE n < 5 -> 0
    [] n >= 30 -> 90
    [] OTHER -> 25 + (65 * (n - 5)) \div 25

LiveDeviation(n, score, reversed) ==
  LET suggested == Scaled(score, <<65, 40, 20>>, <<40, 65, 85>>, 100)
  IN  IF n >= 12 /\ score >= 65 /\ reversed
      THEN OfAlpha(25, "QUARANTINED")
      ELSE OfAlpha(100 - Cut(ForwardWeight(n), 100 - suggested), "none")

LiveAnswers == {LiveDeviation(n, s, v) : n \in {0, 5, 12, 30}, s \in {0, 20, 40, 65}, v \in BOOLEAN}

(* meta_entry_assessment *)
MetaAnswers == {OfFactor(Scaled(s, <<60, 50>>, <<100, 85>>, 60),
                         IF s < 50 THEN "SHADOW_ONLY" ELSE "none") : s \in {0, 50, 60, 72}}

(* assess_pair: data and drift, the stricter of the two *)
QualityAnswers == {OfFactor(Lower(data, Scaled(drift, <<80, 60, 40>>, <<40, 60, 85>>, 100)), "none") :
                     data \in {40, 85, 100}, drift \in {0, 40, 60, 80}}

(* binance_market_context_assessment; a snapshot too old is neutral *)
ContextAnswers == {OfFactor(Scaled(risk, <<70, 50, 30>>, <<55, 70, 85>>, 100), "none") :
                     risk \in {0, 30, 50, 70}}

Assessors == <<"pretrade", "global", "ev", "strategy", "symbol", "live", "meta", "quality",
               "context">>

Answers ==
  [pretrade |-> PretradeAnswers, global |-> GlobalAnswers, ev |-> EvAnswers,
   strategy |-> StrategyAnswers, symbol |-> SymbolAnswers, live |-> LiveAnswers,
   meta |-> MetaAnswers, quality |-> QualityAnswers, context |-> ContextAnswers]

(* these raise through to the end of active_entry_sizing *)
Unguarded == {"pretrade", "global", "strategy"}

-----------------------------------------------------------------------------
NoEntry == [portfolio |-> 100, alpha |-> 100, factor |-> 100, reasons |-> {}, amount |-> 0,
            allowed |-> "no"]

SizingInit ==
  /\ account \in Accounts /\ request \in Requests
  /\ layer = IF request = 0 THEN "finalize" ELSE Assessors[1]
  /\ entry = [NoEntry EXCEPT !.amount = request]
  /\ asked = [least |-> 100, veto |-> "no"]

FollowedBy(a) ==
  LET i == CHOOSE j \in DOMAIN Assessors : Assessors[j] = a
  IN  IF i + 1 \in DOMAIN Assessors THEN Assessors[i + 1] ELSE "combine"

(* min() within a group, so that overlapping evidence counts once *)
AssessorAnswers(a, x) ==
  /\ layer = a /\ x \in Answers[a]
  /\ entry' = [entry EXCEPT !.portfolio = Lower(@, x.portfolio), !.alpha = Lower(@, x.alpha),
                            !.factor = Cut(@, x.factor),
                            !.reasons = IF x.verdict = "none" THEN @ ELSE @ \union {"blocked"}]
  /\ asked' = [least |-> Min({asked.least, x.portfolio, x.alpha, x.factor}),
               veto |-> IF x.verdict = "none" THEN asked.veto ELSE "yes"]
  /\ layer' = FollowedBy(a)
  /\ UNCHANGED <<account, request>>

(* mutant: an assessor that raises counts as neutral and no more *)
RaisesUnnoticed(a) ==
  /\ layer = a
  /\ layer' = FollowedBy(a)
  /\ asked' = [asked EXCEPT !.veto = "yes"]
  /\ UNCHANGED <<account, request, entry>>

(* the exception is noted, and the assessor counts as neutral; or it ends  *)
(* the assessment                                                          *)
AssessorRaises(a) ==
  /\ layer = a
  /\ IF a \in Unguarded
     THEN /\ entry' = [entry EXCEPT !.reasons = @ \union {"error"}, !.amount = 0]
          /\ layer' = "finalize"
     ELSE /\ entry' = [entry EXCEPT !.reasons = @ \union {"error"}]
          /\ layer' = FollowedBy(a)
  /\ asked' = [asked EXCEPT !.veto = "yes"]
  /\ UNCHANGED <<account, request>>

Combine ==
  /\ layer = "combine"
  /\ entry' = [entry EXCEPT !.amount =
                 Cut(Cut(Cut(request, entry.portfolio), entry.alpha), entry.factor)]
  /\ layer' = "guard"
  /\ UNCHANGED <<account, request, asked>>

-----------------------------------------------------------------------------
(* cost_aware_leverage_room, with the marks before the fill *)

LegacyRoom == Higher(0, (account.equity * Leverage - 10 * account.gross) \div 10)

CostAwareRoom ==
  LET numer == Target * account.equity - 10 * account.gross
  IN  IF account.equity = 0 \/ Target = 0 \/ numer < 0 THEN 0
      ELSE Lower(LegacyRoom, (numer * (Rate + 1)) \div (10 * Rate + Target))

LeverageGuard ==
  /\ layer = "guard"
  /\ entry' = [entry EXCEPT !.amount = Lower(@, CostAwareRoom)]
  /\ layer' = "finalize"
  /\ UNCHANGED <<account, request, asked>>

GuardRaises ==
  /\ layer = "guard"
  /\ entry' = [entry EXCEPT !.reasons = @ \union {"error"}]
  /\ layer' = "finalize"
  /\ asked' = [asked EXCEPT !.veto = "yes"]
  /\ UNCHANGED <<account, request>>

(* finalize_entry, called by the assessor and again by safe_entry_sizing *)
Admitted(e) == e.reasons = {} /\ e.amount > 0 /\ e.amount <= request

FinalizeEntry ==
  /\ layer = "finalize"
  /\ entry' = IF Admitted(entry) THEN [entry EXCEPT !.allowed = "yes"]
              ELSE [entry EXCEPT !.amount = 0]
  /\ layer' = "fill"
  /\ UNCHANGED <<account, request, asked>>

(* _fill_pending: what is left after the engine's own cap, or no fill *)
FillBuy ==
  LET notional == Lower(entry.amount, LegacyRoom)
  IN  /\ layer = "fill" /\ notional > 0
      /\ entry' = [entry EXCEPT !.amount = notional]
      /\ layer' = "filled"
      /\ UNCHANGED <<account, request, asked>>

CancelBuy ==
  /\ layer = "fill" /\ Lower(entry.amount, LegacyRoom) <= 0
  /\ layer' = "cancelled"
  /\ UNCHANGED <<account, request, entry, asked>>

Layers == {Assessors[i] : i \in DOMAIN Assessors}

SizingNext ==
  \/ \E a \in Layers : \E x \in Answers[a] : AssessorAnswers(a, x)
  \/ \E a \in Layers : AssessorRaises(a)
  \/ Combine
  \/ LeverageGuard
  \/ GuardRaises
  \/ FinalizeEntry
  \/ FillBuy
  \/ CancelBuy

SizingSpec == SizingInit /\ [][SizingNext]_sizingVars

-----------------------------------------------------------------------------
SizingTypeOK ==
  /\ account \in Accounts /\ request \in Requests
  /\ layer \in Layers \union {"combine", "guard", "finalize", "fill", "filled", "cancelled"}
  /\ entry \in [portfolio : 0..100, alpha : 0..100, factor : 0..100,
                reasons : SUBSET {"error", "blocked"}, amount : Nat, allowed : {"yes", "no"}]
  /\ asked \in [least : 0..100, veto : {"yes", "no"}]

(* (gross + n * R / (R + 1)) / (equity - n / (R + 1)) <= Target / 10 *)
WithinTarget(n) ==
  10 * (account.gross * (Rate + 1) + n * Rate) <= Target * (account.equity * (Rate + 1) - n)

(* No entry is filled that any assessor vetoed or failed to assess, at     *)
(* more than the strictest of them allows, or beyond the account's         *)
(* leverage once its costs are paid (entry_gate, "Fail-closed admission    *)
(* for new paper positions").                                              *)
EntriesFailClosed ==
  layer = "filled" =>
    /\ asked.veto = "no" /\ entry.allowed = "yes"
    /\ 100 * entry.amount <= request * asked.least
    /\ WithinTarget(entry.amount)
=============================================================================
