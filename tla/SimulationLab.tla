---------------------------- MODULE SimulationLab ----------------------------
(***************************************************************************)
(* The bar worker (SimulationLab.process_crypto_symbol_adaptive, called by *)
(* the orchestrator for one symbol after another) and the realtime worker  *)
(* (execute_realtime_protective_exit), two processes on the tables of      *)
(* SimulationDB.  No lock spans two database calls, so each step of a      *)
(* process here is one database call: a read into the process's own copy,  *)
(* or one transaction computed from such a copy.                           *)
(*                                                                         *)
(* Numbers are abstracted to choices: whether a bar reaches a stop or a    *)
(* target, whether sizing leaves a notional, whether cash is negative or   *)
(* the margin breached, and what decision_for answers are chosen freely.   *)
(* Marks, diagnostics and the equity history feed only those numbers and   *)
(* are left out.                                                           *)
(***************************************************************************)
EXTENDS SimulationDB

CONSTANTS
  NoSymbol,      \* the worker is between two symbols
  Period,        \* horizon -> length of its bars; a bar is named by its close
  MaxHold,       \* max_holding_bars of a position
  StartTime,     \* bars up to here are history when the lab first runs
  MaxTime,       \* bound: the last instant of the clock
  MaxOrders,     \* bound: orders created
  MaxCrashes     \* bound: bars abandoned half way

ASSUME LabAssumption ==
  /\ NoSymbol \notin Symbols
  /\ Period \in [Horizons -> Nat \ {0}]
  /\ MaxHold \in Nat \ {0}
  /\ StartTime \in Nat /\ MaxTime \in Nat /\ MaxOrders \in Nat /\ MaxCrashes \in Nat

VARIABLES
  now,        \* the time: the bars closed by it are those the cache serves
  worker,     \* the bar worker's program counter and Python locals
  realtime,   \* the symbol the realtime worker decided to exit, or NoSymbol
  crashes     \* how many times a bar was abandoned

vars == <<orders, positions, trades, cash, decisions, cursor, now, worker, realtime, crashes>>

Labels ==
  {"idle", "begin", "bar", "exec", "settle", "protect", "guard", "financing", "charge",
   "margin", "liquidate", "liquidating", "decide", "order", "advance"}

(* sym, hz: arguments of process_asset_horizon.  bars: rows of `eligible`  *)
(* not processed yet.  bar: the current row.  order: the pending order     *)
(* read.  book, money: the positions and the cash read last.  liq: the     *)
(* positions _margin_check still has to liquidate.  side: the order the    *)
(* decision calls for.  did: its decision id names a stored row.           *)
WorkerState ==
  [at : Labels, sym : Symbols \cup {NoSymbol}, hz : Horizons, bars : SUBSET Nat, bar : Nat,
   order : Nat, book : [Symbols -> PositionRow], money : Flows,
   liq : SUBSET Symbols, side : Sides, did : BOOLEAN]

NoBook == [s \in Symbols |-> NoPosition]
Idle ==
  [at |-> "idle", sym |-> NoSymbol, hz |-> DefaultHorizon, bars |-> {}, bar |-> 0, order |-> 0,
   book |-> NoBook, money |-> NoFlows, liq |-> {}, side |-> "BUY", did |-> TRUE]

TypeOK ==
  /\ DBTypeOK
  /\ now \in Nat
  /\ worker \in WorkerState
  /\ realtime \in Symbols \cup {NoSymbol}
  /\ crashes \in Nat

Init ==
  /\ DBInit
  /\ now = StartTime
  /\ worker = Idle
  /\ realtime = NoSymbol
  /\ crashes = 0

-----------------------------------------------------------------------------
(* Helpers of the bar worker. *)

ClosedBars(h) == {b \in 1..now : b % Period[h] = 0}
LatestBar(h) == now - (now % Period[h])
OpenOf(h, b) == b - Period[h]

At(label) == worker.at = label
Goto(label) == worker' = [worker EXCEPT !.at = label]
(* go on and forget what was read for the step just finished *)
Done(label) ==
  worker' = [worker EXCEPT !.at = label, !.order = 0, !.book = NoBook, !.money = NoFlows,
                           !.liq = {}, !.side = "BUY", !.did = TRUE]
(* read the account and the positions, and go on *)
Read(label) ==
  worker' = [worker EXCEPT !.at = label, !.book = positions, !.money = cash]

Mine == worker.book[worker.sym]   \* the worker's copy of its symbol's position

OnlyWorker == UNCHANGED <<now, realtime, crashes>>
ReadOnly == UNCHANGED dbVars /\ OnlyWorker

(* Mutants: the position, or the pending order, does not own the symbol. *)
LockedByOrderOnly(s) ==
  IF PendingOrder(s) # 0 THEN orders[PendingOrder(s)].hz ELSE Unknown
LockedByPositionOnly(s) == IF Held(s) THEN positions[s].hz ELSE Unknown

(* The horizon that owns the symbol: the position's, else the pending      *)
(* order's when its decision is stored.                                    *)
LockedHorizon(s) ==
  IF Held(s) THEN positions[s].hz
  ELSE IF PendingOrder(s) # 0 THEN orders[PendingOrder(s)].hz
  ELSE Unknown

-----------------------------------------------------------------------------
(* select_crypto_horizon: of the horizons whose data and model are ready,  *)
(* the owner of the symbol wins, or any one if there is no owner (scores   *)
(* are free).  The cursors of the others jump to their latest bar; one      *)
(* that fails half way has moved those of a smaller `ready`, and abandons. *)
SelectHorizon(s, ready, winner) ==
  /\ At("idle")
  /\ winner \in ready
  /\ \A h \in ready : LatestBar(h) > 0
  /\ LockedHorizon(s) \in Horizons => winner = LockedHorizon(s)
  /\ cursor' = [h \in Horizons |->
                  IF h \in ready \ {winner}
                  THEN [cursor[h] EXCEPT ![s] = LatestBar(h)] ELSE cursor[h]]
  /\ worker' = [worker EXCEPT !.at = "begin", !.sym = s, !.hz = winner]
  /\ UNCHANGED <<orders, positions, trades, cash, decisions>> /\ OnlyWorker

(* process_asset_horizon up to its loop.  The first run only registers the *)
(* latest closed bar: there is no backfill.                                *)
BeginHorizon ==
  /\ At("begin")
  /\ LET last == cursor[worker.hz][worker.sym] IN
     IF last = 0
     THEN /\ SetLastProcessed(worker.hz, worker.sym, LatestBar(worker.hz))
          /\ worker' = Idle
     ELSE /\ worker' = [worker EXCEPT !.at = "bar",
                          !.bars = {b \in ClosedBars(worker.hz) : b > last}]
          /\ UNCHANGED cursor
  /\ UNCHANGED <<orders, positions, trades, cash, decisions>> /\ OnlyWorker

(* the next row of `eligible`, in ascending order *)
NextBar ==
  /\ At("bar")
  /\ \E b \in worker.bars :
       /\ \A c \in worker.bars : b <= c
       /\ worker' = [worker EXCEPT !.at = "exec", !.bar = b, !.bars = @ \ {b}]
  /\ ReadOnly

EndBars == At("bar") /\ worker.bars = {} /\ worker' = Idle /\ ReadOnly

(* _execute_pending: the reads *)
ReadPending ==
  /\ At("exec")
  /\ LET o == PendingOrder(worker.sym) IN
     IF o = 0 THEN Goto("protect")
     ELSE worker' = [worker EXCEPT !.at = "settle", !.order = o,
                                   !.book = positions, !.money = cash]
  /\ ReadOnly

(* Mutant: the order that cannot be executed stays PENDING. *)
SkipPending ==
  /\ At("settle")
  /\ orders[worker.order].side = "BUY" \/ Mine.lot = 0
  /\ UNCHANGED dbVars
  /\ Done("protect")
  /\ OnlyWorker

(* _execute_pending: a stale order, or an entry sized to nothing *)
CancelPending ==
  /\ At("settle")
  /\ \/ orders[worker.order].side = "BUY"    \* stale, entry gate or no room
     \/ orders[worker.order].side = "SELL" /\ Mine.lot = 0
  /\ CancelOrder(worker.order)
  /\ Done("protect")
  /\ OnlyWorker

(* An order without a stored decision falls back to "medium". *)
FillHorizon(o) == IF orders[o].hz = Unknown THEN DefaultHorizon ELSE orders[o].hz

ExecuteBuy ==
  LET o == worker.order IN
  /\ At("settle") /\ orders[o].side = "BUY" /\ Mine.lot = 0
  /\ FillBuyAtomic(o, OpenOf(worker.hz, worker.bar), Debited(worker.money, o),
       [lot |-> o, entryOrder |-> o, held |-> 0, hz |-> FillHorizon(o), bar |-> worker.bar])
  /\ Done("protect")
  /\ OnlyWorker

ExecuteSell ==
  LET o == worker.order IN
  /\ At("settle") /\ orders[o].side = "SELL" /\ Mine.lot # 0
  /\ FillSellAtomic(o, OpenOf(worker.hz, worker.bar), Credited(worker.money), Mine)
  /\ Done("protect")
  /\ OnlyWorker

(* Mutant: the account is not read before the protective exit. *)
ReadPositionOnly ==
  /\ At("protect")
  /\ IF Held(worker.sym)
     THEN worker' = [worker EXCEPT !.at = "guard",
                       !.book = [positions EXCEPT ![worker.sym].held = @ + 1]]
     ELSE Goto("financing")
  /\ ReadOnly

(* _protect_position: read the row and count the bar *)
ReadPosition ==
  /\ At("protect")
  /\ IF Held(worker.sym)
     THEN worker' = [worker EXCEPT !.at = "guard", !.money = cash,
                       !.book = [positions EXCEPT ![worker.sym].held = @ + 1]]
     ELSE Goto("financing")
  /\ ReadOnly

(* no stop, target or time limit: the row is written back *)
KeepPosition ==
  /\ At("guard") /\ Mine.held < MaxHold
  /\ UpsertPosition(worker.sym, Mine)
  /\ Done("financing")
  /\ OnlyWorker

ProtectiveExit ==
  /\ At("guard")
  /\ ClosePositionAtomic(worker.sym, Credited(worker.money), Mine, "PROTECTIVE")
  /\ Done("financing")
  /\ OnlyWorker

(* _accrue_financing: nothing to do unless cash is negative, which takes a *)
(* leveraged BUY.  The charge itself is not a flow the model tells apart.  *)
ReadFinancing ==
  /\ At("financing")
  /\ \/ Goto("margin")
     \/ cash.buys # {} /\ Read("charge")
  /\ ReadOnly

ChargeFinancing ==
  /\ At("charge")
  /\ SetCash(worker.money)
  /\ Done("margin")
  /\ OnlyWorker

(* _margin_check: on a breach every position of the account is liquidated, *)
(* from the rows read here; the account is read again before each.         *)
CheckMargin ==
  /\ At("margin")
  /\ \/ Goto("decide")
     \/ /\ \E s \in Symbols : Held(s)
        /\ worker' = [worker EXCEPT !.at = "liquidate", !.book = positions,
                                    !.liq = {s \in Symbols : Held(s)}]
  /\ ReadOnly

(* Mutant: the account is read once for all the liquidations. *)
ReadLiquidationOnce ==
  /\ At("liquidate") /\ worker.liq # {}
  /\ worker' = [worker EXCEPT !.at = "liquidating",
                   !.money = IF @ = NoFlows THEN cash ELSE @]
  /\ ReadOnly

ReadLiquidation ==
  /\ At("liquidate") /\ worker.liq # {}
  /\ worker' = [worker EXCEPT !.at = "liquidating", !.money = cash]
  /\ ReadOnly

Liquidate(s) ==
  /\ At("liquidating") /\ s \in worker.liq
  /\ ClosePositionAtomic(s, Credited(worker.money), worker.book[s], "LIQUIDATION")
  /\ worker' = [worker EXCEPT !.at = "liquidate", !.liq = @ \ {s}]
  /\ OnlyWorker

EndLiquidation == At("liquidate") /\ worker.liq = {} /\ Done("decide") /\ ReadOnly

(* The decision of the closed bar: EXIT of a held position and ENTER       *)
(* without one call for an order unless one is pending.  add_decision      *)
(* returns a fresh id even when its INSERT was ignored.                    *)
Decide(side) ==
  /\ At("decide")
  /\ IF side = "SELL" THEN Held(worker.sym) ELSE ~Held(worker.sym)
  /\ PendingOrder(worker.sym) = 0
  /\ Len(orders) < MaxOrders
  /\ AddDecision(worker.hz, worker.sym, worker.bar)
  /\ worker' = [worker EXCEPT !.at = "order", !.side = side, !.book = positions,
                  !.did = [hz |-> worker.hz, symbol |-> worker.sym, bar |-> worker.bar]
                            \notin decisions]
  /\ UNCHANGED <<orders, positions, trades, cash, cursor>> /\ OnlyWorker

(* any other decision is only recorded *)
DecideNothing ==
  /\ At("decide")
  /\ AddDecision(worker.hz, worker.sym, worker.bar)
  /\ Goto("advance")
  /\ UNCHANGED <<orders, positions, trades, cash, cursor>> /\ OnlyWorker

PlaceOrder ==
  /\ At("order")
  /\ AddOrder(worker.sym, worker.side, worker.bar,
              IF worker.did THEN worker.hz ELSE Unknown, Mine.lot)
  /\ Done("advance")
  /\ UNCHANGED <<positions, trades, cash, decisions, cursor>> /\ OnlyWorker

(* the last write of a bar *)
AdvanceCursor ==
  /\ At("advance")
  /\ SetLastProcessed(worker.hz, worker.sym, worker.bar)
  /\ Goto("bar")
  /\ UNCHANGED <<orders, positions, trades, cash, decisions>> /\ OnlyWorker

(* An exception caught by the cycle's loop over symbols, a kill by the     *)
(* supervisor or a crash: what is committed stays, what was read is lost.  *)
Abandon ==
  /\ ~At("idle") /\ crashes < MaxCrashes
  /\ worker' = Idle
  /\ crashes' = crashes + 1
  /\ UNCHANGED dbVars /\ UNCHANGED <<now, realtime>>

-----------------------------------------------------------------------------
(* The realtime worker handles one quote at a time: it reads the position, *)
(* compares the price with its stop and target, and closes what is there.  *)
RealtimeTrigger(s) ==
  /\ realtime = NoSymbol /\ Held(s)
  /\ realtime' = s
  /\ UNCHANGED dbVars /\ UNCHANGED <<now, worker, crashes>>

RealtimeExit ==
  /\ realtime # NoSymbol
  /\ CloseRealtimePositionAtomic(realtime)
  /\ realtime' = NoSymbol
  /\ UNCHANGED <<now, worker, crashes>>

(* The clock is read only by the next two steps of an idle or beginning    *)
(* worker; a tick at any other point could not be told from a later one.   *)
Tick ==
  /\ now < MaxTime /\ (At("idle") \/ At("begin"))
  /\ now' = now + 1
  /\ UNCHANGED dbVars /\ UNCHANGED <<worker, realtime, crashes>>

-----------------------------------------------------------------------------
BarStep ==
  \/ BeginHorizon \/ NextBar \/ EndBars
  \/ ReadPending \/ CancelPending \/ ExecuteBuy \/ ExecuteSell
  \/ ReadPosition \/ KeepPosition \/ ProtectiveExit
  \/ ReadFinancing \/ ChargeFinancing
  \/ CheckMargin \/ ReadLiquidation \/ (\E s \in Symbols : Liquidate(s)) \/ EndLiquidation
  \/ (\E side \in Sides : Decide(side)) \/ DecideNothing \/ PlaceOrder \/ AdvanceCursor

Select ==
  \E s \in Symbols, ready \in SUBSET Horizons, winner \in Horizons :
    SelectHorizon(s, ready, winner)

(* the bar worker alone: no realtime worker is running *)
BarNext == Tick \/ Select \/ BarStep \/ Abandon
RealtimeNext == (\E s \in Symbols : RealtimeTrigger(s)) \/ RealtimeExit
Next == BarNext \/ RealtimeNext

Spec == Init /\ [][Next]_vars
BarSpec == Init /\ [][BarNext]_vars

(* Bars keep closing, a bar under way goes on (the supervisor restarts a   *)
(* worker that stops), and the cycle comes back to every symbol with the   *)
(* data of every horizon ready again and again.                            *)
SelectReady(s) ==
  \E winner \in Horizons :
    SelectHorizon(s, {h \in Horizons : LatestBar(h) > 0}, winner)
Fairness ==
  /\ SF_vars(Tick) /\ WF_vars(BarStep)
  /\ \A s \in Symbols : SF_vars(SelectReady(s))
FairBarSpec == BarSpec /\ Fairness
-----------------------------------------------------------------------------
(* Safety. *)

TradesOf(lot) == {i \in DOMAIN trades : trades[i].lot = lot}
FilledBuys == {o \in DOMAIN orders : orders[o].side = "BUY" /\ orders[o].status = "FILLED"}

(* A symbol never has two PENDING orders, whatever the realtime worker     *)
(* closes and wherever a bar is abandoned: pending_order may LIMIT 1.      *)
OnePendingOrder == \A s \in Symbols : \A o, p \in PendingOrders(s) : o = p

(* A SELL fills into exactly one trade, and that trade realises the lot    *)
(* the order was decided for, never a lot bought later (exit_order_id).    *)
SellClosesItsLotOnce ==
  \A o \in DOMAIN orders :
    LET mine == {i \in DOMAIN trades : trades[i].exitOrder = o} IN
    /\ mine # {} <=> orders[o].side = "SELL" /\ orders[o].status = "FILLED"
    /\ \A i, j \in mine : i = j
    /\ \A i \in mine : trades[i].lot = orders[o].decided /\ trades[i].symbol = orders[o].symbol

(* No lot is lost or invented, even with the realtime worker running: what *)
(* was bought is held or was realised, and only that.                      *)
LotHeldOrRealized ==
  /\ \A o \in FilledBuys : positions[orders[o].symbol].lot = o \/ TradesOf(o) # {}
  /\ \A s \in Symbols : Held(s) => positions[s].lot \in FilledBuys
  /\ \A i \in DOMAIN trades : trades[i].lot \in FilledBuys

(* Every fill is in it, and it misses at most proceeds of realtime exits.  *)
MissesOnlyRealtime(flows) ==
  /\ flows.buys = FilledBuys
  /\ flows.exits \subseteq DOMAIN trades
  /\ \A i \in DOMAIN trades : trades[i].reason # "REALTIME" => i \in flows.exits

(* close_realtime_position_atomic reads cash in its transaction "so a      *)
(* realtime exit cannot overwrite" the bar worker's update: every flow the *)
(* bar worker booked stays in the cash figure.                             *)
WorkerFlowsKept == MissesOnlyRealtime(cash)

(* With the bar worker alone the cash figure is the ledger's, although     *)
(* every write of it is computed from an earlier read.                     *)
CashReflectsLedger == cash = [buys |-> FilledBuys, exits |-> DOMAIN trades]

(* With the bar worker alone a bought lot is either held, under the id of  *)
(* its order, or realised exactly once.                                    *)
LotAccountedOnce ==
  /\ \A o \in FilledBuys :
       IF positions[orders[o].symbol].lot = o
       THEN positions[orders[o].symbol].entryOrder = o /\ TradesOf(o) = {}
       ELSE \E i \in TradesOf(o) : TradesOf(o) = {i} /\ trades[i].entryOrder = o
  /\ \A s \in Symbols : Held(s) => positions[s].lot \in FilledBuys

(* realtime_layer.py: the atomic close "prevents double-closes if the bar  *)
(* worker and realtime worker observe the exit together".                  *)
NoDoubleClose == \A i, j \in DOMAIN trades : trades[i].lot = trades[j].lot => i = j

(* ARCHITECTURE.md: a decision formed after a bar's close can execute no   *)
(* earlier than the next bar's open.                                       *)
NoLookahead ==
  \A o \in DOMAIN orders : orders[o].status = "FILLED" => orders[o].filled >= orders[o].created

(* The same as long as no bar was abandoned half way, across horizons of   *)
(* different bar lengths that take turns on one account.                   *)
NoLookaheadUnlessAbandoned == crashes = 0 => NoLookahead

(* While no bar is abandoned, bars_held counts every bar of the position's *)
(* own horizon since the fill exactly once: TIME_EXIT comes on the bar it  *)
(* was set for.                                                            *)
AgeCountsEachBarOnce ==
  crashes = 0 =>
    \A s \in Symbols :
      LET p == positions[s] IN
      Held(s) /\ worker.sym # s =>
        cursor[p.hz][s] = p.bar + (p.held - 1) * Period[p.hz]

-----------------------------------------------------------------------------
(* What the steps of the worker rely on between two database calls: the    *)
(* strengthening under which the invariants above are inductive.           *)

(* a worker under way has a symbol *)
BusyHasSymbol == ~At("idle") => worker.sym \in Symbols
(* the order it read is a row *)
OrderReadExists == At("settle") => worker.order \in DOMAIN orders
(* the order it is about to place will be the only one pending *)
NonePendingWhileOrdering ==
  \A s \in Symbols : At("order") /\ worker.sym = s => PendingOrders(s) = {}
(* the cash figure it is about to write back is as good as the account's *)
CopyMissesOnlyRealtime ==
  worker.at \in {"settle", "guard", "charge", "liquidating"} => MissesOnlyRealtime(worker.money)

PendingInv == TypeOK /\ BusyHasSymbol /\ OrderReadExists /\ NonePendingWhileOrdering
              /\ OnePendingOrder
FlowInv == CopyMissesOnlyRealtime /\ WorkerFlowsKept

-----------------------------------------------------------------------------
(* Liveness: unless a bar is abandoned, an order whose horizon still has a  *)
(* bar to come is filled or cancelled; no horizon lock, cursor jump or      *)
(* stale position leaves it pending.                                        *)
OrdersResolve ==
  \A o \in 1..MaxOrders :
    (/\ o \in DOMAIN orders
     /\ orders[o].hz \in Horizons
     /\ orders[o].created + Period[orders[o].hz] <= MaxTime)
      ~> (o \in DOMAIN orders /\ (orders[o].status = "PENDING" => crashes > 0))

-----------------------------------------------------------------------------
(* The bar worker alone implements the account it is meant to be. *)

WorkingOrder(s) ==
  IF PendingOrder(s) = 0 THEN [side |-> "NONE", id |-> 0]
  ELSE [side |-> orders[PendingOrder(s)].side, id |-> PendingOrder(s)]

Account == INSTANCE PaperAccount WITH
  Ids <- 1..MaxOrders,
  working <- [s \in Symbols |-> WorkingOrder(s)],
  open <- [s \in Symbols |-> positions[s].lot],
  realized <- [i \in DOMAIN trades |-> trades[i].lot],
  debited <- cash.buys,
  credited <- {trades[i].lot : i \in cash.exits}

(* Every step on the tables is one step of the abstract account, stale     *)
(* copies, abandoned bars and several horizons notwithstanding.            *)
ImplementsAccount == Account!Spec
=============================================================================
