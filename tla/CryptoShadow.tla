------------------------------ MODULE CryptoShadow ------------------------------
(***************************************************************************)
(* The forward shadow ledger of Crypto V2 (src/src/crypto_v2): one engine  *)
(* goes over the closed bars of every symbol in the order of their times,  *)
(* and for each bar fills the order an earlier bar left, manages the       *)
(* position, decides under the portfolio limits, and moves the cursor.     *)
(* Each of those is a transaction of its own; the engine can be cut or     *)
(* fail between any two.  The accounts of the three horizons share         *)
(* nothing, so the module is the account of one horizon.                   *)
(*                                                                         *)
(* Prices are left out: a position is its entry notional, and an exit      *)
(* returns it with a profit or loss net of fees.                           *)
(***************************************************************************)
EXTENDS Integers, FiniteSets, FiniteSetsExt

CONSTANTS
  Symbols,
  Btc,              \* the symbol whose bars the market regime is read from
  Setups,           \* what route_strategy may propose: [strategy, regime]
  Risky,            \* the regimes in which it proposes nothing
  Asks,             \* entry sizes: a tenth of the equity by confidence
  Results,          \* profit or loss of a position
  InitialEquity,
  GrossCap, StrategyCap, RegimeCap, MaxPositions, MinEntry,   \* RISK_LIMITS
  MaxHold,          \* max_holding_bars of every route
  MaxEvents,        \* MAX_EVENTS_PER_CYCLE
  LastBar,          \* bound: bars of a symbol
  MaxCuts           \* bound: cycles that are cut, bars that fail

CryptoAssumption ==
  /\ Btc \in Symbols /\ IsFiniteSet(Symbols)
  /\ Asks \subseteq Nat /\ Results \subseteq Int
  /\ {InitialEquity, GrossCap, StrategyCap, RegimeCap, MaxPositions} \subseteq Nat
  /\ MinEntry \in Nat \ {0} /\ MaxHold \in Nat \ {0} /\ MaxEvents \in Nat \ {0}
  /\ LastBar \in [Symbols -> Nat] /\ MaxCuts \in Nat
ASSUME CryptoAssumption

VARIABLES
  closed,     \* bars of a symbol that are in the cache and closed
  last,       \* engine_state: last_processed_bar, 0 before the first
  cash,       \* accounts
  realized,   \* the sum of realized_pnl over trades
  order,      \* the pending order of a symbol, if any, with its decision's tags
  position,   \* positions
  decision,   \* the row of decisions of the bar a symbol is at, once written
  bar,        \* the bar a symbol is at: its data, fixed since it closed
  engine,     \* where the engine is, what is left of its plan, the BTC bars it has read
  cuts

cryptoVars ==
  <<closed, last, cash, realized, order, position, decision, bar, engine, cuts>>

Bars == 1..Max({LastBar[s] : s \in Symbols})

NoTrade == {[action |-> "NO_TRADE", strategy |-> "NONE", regime |-> g] : g \in Risky}
Entries == {[action |-> "ENTER", strategy |-> x.strategy, regime |-> x.regime] : x \in Setups}
Routes == NoTrade \union Entries

NoRoute == [action |-> "NONE", strategy |-> "NONE", regime |-> "NONE"]

(* late, route: the BTC bars its bar was routed with, and the result *)
NoOrder == [bar |-> 0, notional |-> 0, strategy |-> "NONE", regime |-> "NONE",
            late |-> "no", route |-> NoRoute]
NoPosition == [entry |-> 0, notional |-> 0, strategy |-> "NONE", regime |-> "NONE", held |-> 0]
NoBar == [bar |-> 0, exit |-> "none", late |-> "no", route |-> NoRoute, ask |-> 0]
NoDecision == [bar |-> 0, strategy |-> "NONE", regime |-> "NONE"]

Pending(s) == order[s] # NoOrder
Holding(s) == position[s] # NoPosition

CryptoInit ==
  /\ closed = [s \in Symbols |-> 0]
  /\ last = [s \in Symbols |-> 0]
  /\ cash = InitialEquity
  /\ realized = 0
  /\ order = [s \in Symbols |-> NoOrder]
  /\ position = [s \in Symbols |-> NoPosition]
  /\ decision = [s \in Symbols |-> NoDecision]
  /\ bar = [s \in Symbols |-> NoBar]
  /\ engine = [at |-> "idle", plan |-> {}, btc |-> 0, symbol |-> Btc, size |-> 0]
  /\ cuts = 0

-----------------------------------------------------------------------------
(* govern_entry over the positions and the pending orders *)

Entered == {s \in Symbols : Holding(s)}
Waiting == {s \in Symbols : Pending(s)}

(* entry cost of the positions of P plus what the orders of W reserve *)
Exposure(P, W) ==
  SumFunctionOnSet([s \in Symbols |-> position[s].notional], P)
  + SumFunctionOnSet([s \in Symbols |-> order[s].notional], W)

Gross == Exposure(Entered, Waiting)
InStrategy(x) == Exposure({s \in Entered : position[s].strategy = x},
                          {s \in Waiting : order[s].strategy = x})
InRegime(x) == Exposure({s \in Entered : position[s].regime = x},
                        {s \in Waiting : order[s].regime = x})

Room(cap, used) == IF cap > used THEN cap - used ELSE 0

Approved(ask, route) ==
  LET room == Min({ask, Room(GrossCap, Gross), Room(StrategyCap, InStrategy(route.strategy)),
                   Room(RegimeCap, InRegime(route.regime))})
  IN  IF Cardinality(Entered) + Cardinality(Waiting) >= MaxPositions \/ room < MinEntry
      THEN 0
      ELSE room

-----------------------------------------------------------------------------
(* The bar worker fills the cache *)
BarCloses(s) ==
  /\ closed[s] < LastBar[s]
  /\ closed' = [closed EXCEPT ![s] = @ + 1]
  /\ UNCHANGED <<last, cash, realized, order, position, decision, bar, engine, cuts>>

(* the first bar of a symbol is its registration: no history before it *)
NewBars(s) ==
  IF closed[s] = 0 THEN {}
  ELSE IF last[s] = 0 THEN {closed[s]}
  ELSE (last[s] + 1)..closed[s]

Events == UNION {{[bar |-> b, symbol |-> s] : b \in NewBars(s)} : s \in Symbols}

UpTo(todo, b) == {e \in todo : e.bar <= b}

(* at most MaxEvents, but never a part of one time *)
BoundedEvents(todo) ==
  IF Cardinality(todo) <= MaxEvents THEN todo
  ELSE UpTo(todo, Min({b \in Bars : Cardinality(UpTo(todo, b)) >= MaxEvents}))

StartCycle ==
  /\ engine.at = "idle"
  /\ Events # {}
  /\ engine' = [engine EXCEPT !.at = "next", !.plan = BoundedEvents(Events), !.btc = closed[Btc]]
  /\ UNCHANGED <<closed, last, cash, realized, order, position, decision, bar, cuts>>

(* The regime at the end of bar b is read from the BTC bars that start no  *)
(* later, the last of which is still open at that moment                   *)
Late(b) == IF engine.btc > b THEN "yes" ELSE "no"

(* The next event; a bar that was begun before has kept its data, though   *)
(* with another BTC bar it may be routed another way                       *)
BeginBar(s, exit, route, ask) ==
  LET b == Min({e.bar : e \in engine.plan})
  IN  /\ engine.at = "next" /\ [bar |-> b, symbol |-> s] \in engine.plan
      /\ bar[s].bar = b => /\ exit = bar[s].exit
                           /\ bar[s].late = Late(b) => /\ route = bar[s].route
                                                       /\ ask = bar[s].ask
      /\ bar' = [bar EXCEPT ![s] = [bar |-> b, exit |-> exit, late |-> Late(b),
                                    route |-> route, ask |-> ask]]
      /\ engine' = [engine EXCEPT !.at = "fill", !.symbol = s,
                                  !.plan = @ \ {[bar |-> b, symbol |-> s]}]
      /\ UNCHANGED <<closed, last, cash, realized, order, position, decision, cuts>>

(* fill_buy, with the route of the order's bar worked out again: the same  *)
(* only if the BTC bars read are the same                                  *)
FillPending(route) ==
  LET s == engine.symbol
      o == order[s]
      paid == Min({o.notional, cash})
  IN  /\ engine.at = "fill"
      /\ (Pending(s) /\ Late(o.bar) = o.late) => route = o.route
      /\ (~Pending(s) => route = bar[s].route)
      /\ engine' = [engine EXCEPT !.at = "manage"]
      /\ IF ~Pending(s) \/ o.bar >= bar[s].bar
         THEN UNCHANGED <<cash, order, position>>
         ELSE IF paid <= 0
         THEN /\ order' = [order EXCEPT ![s] = NoOrder]
              /\ UNCHANGED <<cash, position>>
         ELSE /\ cash' = cash - paid
              /\ order' = [order EXCEPT ![s] = NoOrder]
              /\ position' = [position EXCEPT ![s] =
                   [entry |-> bar[s].bar, notional |-> paid, strategy |-> route.strategy,
                    regime |-> route.regime, held |-> 0]]
      /\ UNCHANGED <<closed, last, realized, decision, bar, cuts>>

Close(s, result) ==
  /\ cash' = cash + position[s].notional + result
  /\ realized' = realized + result
  /\ position' = [position EXCEPT ![s] = NoPosition]

(* the stop or the target, before the bar counts *)
ExitAtPrice(result) ==
  LET s == engine.symbol
  IN  /\ engine.at = "manage" /\ Holding(s) /\ bar[s].exit = "price"
      /\ Close(s, result)
      /\ engine' = [engine EXCEPT !.at = "decide"]
      /\ UNCHANGED <<closed, last, order, decision, bar, cuts>>

CountBar ==
  LET s == engine.symbol
  IN  /\ engine.at = "manage" /\ Holding(s) /\ bar[s].exit = "none"
      /\ position' = [position EXCEPT ![s].held = @ + 1]
      /\ engine' = [engine EXCEPT !.at = IF position[s].held + 1 >= MaxHold THEN "time"
                                         ELSE "decide"]
      /\ UNCHANGED <<closed, last, cash, realized, order, decision, bar, cuts>>

ExitInTime(result) ==
  /\ engine.at = "time"
  /\ Close(engine.symbol, result)
  /\ engine' = [engine EXCEPT !.at = "decide"]
  /\ UNCHANGED <<closed, last, order, decision, bar, cuts>>

NothingHeld ==
  /\ engine.at = "manage" /\ ~Holding(engine.symbol)
  /\ engine' = [engine EXCEPT !.at = "decide"]
  /\ UNCHANGED <<closed, last, cash, realized, order, position, decision, bar, cuts>>

(* mutant: a symbol that is held or on order may be entered again *)
DecideAnyway ==
  LET s == engine.symbol
      route == bar[s].route
      size == IF route.action # "ENTER" THEN 0 ELSE Approved(Min({cash, bar[s].ask}), route)
  IN  /\ engine.at = "decide"
      /\ decision' = [decision EXCEPT ![s] = [bar |-> bar[s].bar, strategy |-> route.strategy,
                                              regime |-> route.regime]]
      /\ engine' = [engine EXCEPT !.at = IF size > 0 THEN "order" ELSE "cursor", !.size = size]
      /\ UNCHANGED <<closed, last, cash, realized, order, position, bar, cuts>>

(* The decision under the limits; INSERT OR IGNORE keeps the row of a bar  *)
(* that was decided before the cut                                         *)
Decide ==
  LET s == engine.symbol
      route == bar[s].route
      ask == Min({cash, bar[s].ask})
      size == IF Holding(s) \/ Pending(s) \/ route.action # "ENTER" THEN 0
              ELSE Approved(ask, route)
      tag == IF Holding(s) \/ Pending(s) THEN "NONE" ELSE route.strategy
  IN  /\ engine.at = "decide"
      /\ decision' = IF decision[s].bar = bar[s].bar THEN decision
                     ELSE [decision EXCEPT ![s] = [bar |-> bar[s].bar, strategy |-> tag,
                                                   regime |-> route.regime]]
      /\ engine' = [engine EXCEPT !.at = IF size > 0 THEN "order" ELSE "cursor", !.size = size]
      /\ UNCHANGED <<closed, last, cash, realized, order, position, bar, cuts>>

AddBuyOrder ==
  LET s == engine.symbol
  IN  /\ engine.at = "order"
      /\ order' = [order EXCEPT ![s] = [bar |-> bar[s].bar, notional |-> engine.size,
                                        strategy |-> decision[s].strategy,
                                        regime |-> decision[s].regime,
                                        late |-> bar[s].late, route |-> bar[s].route]]
      /\ engine' = [engine EXCEPT !.at = "cursor"]
      /\ UNCHANGED <<closed, last, cash, realized, position, decision, bar, cuts>>

NextEvent(plan) ==
  IF plan = {} THEN [engine EXCEPT !.at = "idle", !.plan = {}, !.btc = 0, !.size = 0]
  ELSE [engine EXCEPT !.at = "next", !.size = 0]

(* no later step reads the row of decisions of a bar that is done *)
SetLastProcessed ==
  LET s == engine.symbol
  IN  /\ engine.at = "cursor"
      /\ last' = [last EXCEPT ![s] = bar[s].bar]
      /\ bar' = [bar EXCEPT ![s] = NoBar]
      /\ decision' = [decision EXCEPT ![s] = NoDecision]
      /\ engine' = NextEvent(engine.plan)
      /\ UNCHANGED <<closed, cash, realized, order, position, cuts>>

(* an exception: the bar is dropped and the plan goes on *)
BarFails ==
  /\ engine.at \notin {"idle", "next"}
  /\ cuts < MaxCuts /\ cuts' = cuts + 1
  /\ engine' = NextEvent(engine.plan)
  /\ UNCHANGED <<closed, last, cash, realized, order, position, decision, bar>>

EngineCut ==
  /\ engine.at # "idle"
  /\ cuts < MaxCuts /\ cuts' = cuts + 1
  /\ engine' = NextEvent({})
  /\ UNCHANGED <<closed, last, cash, realized, order, position, decision, bar>>

CryptoNext ==
  \/ \E s \in Symbols : BarCloses(s)
  \/ StartCycle
  \/ \E s \in Symbols, exit \in {"none", "price"}, r \in Routes, a \in Asks : BeginBar(s, exit, r, a)
  \/ \E r \in Routes : FillPending(r)
  \/ \E x \in Results : ExitAtPrice(x)
  \/ CountBar
  \/ \E x \in Results : ExitInTime(x)
  \/ NothingHeld
  \/ Decide
  \/ AddBuyOrder
  \/ SetLastProcessed
  \/ BarFails
  \/ EngineCut

CryptoSpec == CryptoInit /\ [][CryptoNext]_cryptoVars

-----------------------------------------------------------------------------
(* Every unit of the account is in cash, in a position or in the realized  *)
(* results, through cuts, replays and failed bars; a fill over a position  *)
(* still held (INSERT OR REPLACE) or a position closed twice would lose or *)
(* make money (shadow_db.fill_buy, close_position).                        *)
CapitalConserved ==
  cash + Exposure(Entered, {}) = InitialEquity + realized
=============================================================================
