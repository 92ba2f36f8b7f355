---------------------------- MODULE SimulationDB ----------------------------
(***************************************************************************)
(* The tables of simulation_lab.sqlite3 that the shared crypto account     *)
(* lives in (src/simulation_db.py), and the transactions on them.  Every   *)
(* operator with a primed variable is ONE SQLite transaction: it reads and *)
(* writes the tables in a single step.  What a caller read before (a cash  *)
(* figure, a position row) reaches it as a parameter.                      *)
(*                                                                         *)
(* Money is abstracted to provenance.  The cash column is a number; here   *)
(* it is the set of flows that number reflects: the BUY orders it was      *)
(* debited for and the trades it was credited for.  Writing back a number  *)
(* computed from an old read is writing back an old set.                   *)
(***************************************************************************)
EXTENDS Integers, Sequences, FiniteSets

CONSTANTS
  Symbols,         \* the assets traded in the account
  Horizons,        \* the horizons a decision can belong to
  DefaultHorizon   \* the horizon an order without a stored decision falls to

VARIABLES
  orders,      \* rows of orders; a row's index is its id and its creation rank
  positions,   \* symbol -> row of positions, NoPosition when there is none
  trades,      \* rows of trades, in the order they were inserted
  cash,        \* accounts.cash, as the flows it reflects
  decisions,   \* the (horizon, symbol, bar) that have a decision row
  cursor       \* horizon -> symbol -> last_processed_bar, 0 for NULL

dbVars == <<orders, positions, trades, cash, decisions, cursor>>

Unknown == "unknown"   \* the horizon of an order whose decision is not stored
Sides == {"BUY", "SELL"}
Statuses == {"PENDING", "FILLED", "CANCELLED"}
ExitReasons == {"SIGNAL", "PROTECTIVE", "LIQUIDATION", "REALTIME"}

ASSUME DBAssumption ==
  /\ DefaultHorizon \in Horizons
  /\ Unknown \notin Horizons

(* created is the close time of the bar the order was decided on; filled   *)
(* the OPEN time of the bar it was filled on.  decided is the lot held     *)
(* when the order was created (orders.qty is copied from that row).        *)
OrderRow ==
  [symbol : Symbols, side : Sides, status : Statuses, created : Nat,
   filled : Int, hz : Horizons \cup {Unknown}, decided : Nat]

(* lot is the BUY order whose fill opened the position: it stands for the  *)
(* columns qty, avg_entry and entry_bar, which every upsert writes.        *)
(* entryOrder is the column entry_order_id, which only fill_buy_atomic     *)
(* writes.  Both are 0 when there is no row or the column is NULL.         *)
PositionRow ==
  [lot : Nat, entryOrder : Nat, held : Nat, hz : Horizons, bar : Nat]
NoPosition ==
  [lot |-> 0, entryOrder |-> 0, held |-> 0, hz |-> DefaultHorizon, bar |-> 0]

TradeRow ==
  [symbol : Symbols, lot : Nat, entryOrder : Nat, exitOrder : Nat, reason : ExitReasons]

Flows == [buys : SUBSET Nat, exits : SUBSET Nat]
NoFlows == [buys |-> {}, exits |-> {}]

DBTypeOK ==
  /\ orders \in Seq(OrderRow)
  /\ positions \in [Symbols -> PositionRow]
  /\ trades \in Seq(TradeRow)
  /\ cash \in Flows
  /\ decisions \subseteq [hz : Horizons, symbol : Symbols, bar : Nat]
  /\ cursor \in [Horizons -> [Symbols -> Int]]

DBInit ==
  /\ orders = <<>>
  /\ positions = [s \in Symbols |-> NoPosition]
  /\ trades = <<>>
  /\ cash = NoFlows
  /\ decisions = {}
  /\ cursor = [h \in Horizons |-> [s \in Symbols |-> 0]]

-----------------------------------------------------------------------------
(* Reads. *)

Held(s) == positions[s].lot # 0

PendingOrders(s) ==
  {o \in DOMAIN orders : orders[o].symbol = s /\ orders[o].status = "PENDING"}

(* Mutant: the symbol is not normalised, and no row matches. *)
PendingOrderMissed(s) == 0

(* SELECT ... status='PENDING' ORDER BY created_at DESC LIMIT 1; 0 if none *)
PendingOrder(s) ==
  IF PendingOrders(s) = {} THEN 0
  ELSE CHOOSE o \in PendingOrders(s) : \A p \in PendingOrders(s) : p <= o

-----------------------------------------------------------------------------
(* Transactions on orders, decisions and cursors. *)

(* add_order *)
AddOrder(s, side, bar, hz, lot) ==
  orders' = Append(orders, [symbol |-> s, side |-> side, status |-> "PENDING",
                            created |-> bar, filled |-> 0, hz |-> hz, decided |-> lot])

(* cancel_order: the UPDATE is conditional on status='PENDING' *)
CancelOrder(o) ==
  /\ orders' = IF orders[o].status = "PENDING"
               THEN [orders EXCEPT ![o].status = "CANCELLED"]
               ELSE orders
  /\ UNCHANGED <<positions, trades, cash, decisions, cursor>>

(* add_decision: INSERT OR IGNORE on UNIQUE(account_id, symbol, bar_time) *)
AddDecision(h, s, bar) ==
  decisions' = decisions \cup {[hz |-> h, symbol |-> s, bar |-> bar]}

(* set_last_processed *)
SetLastProcessed(h, s, bar) == cursor' = [cursor EXCEPT ![h][s] = bar]

-----------------------------------------------------------------------------
(* Transactions on positions, trades and cash. *)

MarkFilled(o, open) ==
  orders' = [orders EXCEPT ![o].status = "FILLED", ![o].filled = open]

(* Mutant: the DELETE is forgotten. *)
CloseRowKept(s, row, exitOrder, reason) ==
  /\ trades' = Append(trades, [symbol |-> s, lot |-> row.lot,
                               entryOrder |-> positions[s].entryOrder,
                               exitOrder |-> exitOrder, reason |-> reason])
  /\ UNCHANGED positions

(* INSERT INTO trades + DELETE FROM positions, shared by the three exits.  *)
(* The trade is built from the row the caller read; its entry_order_id is  *)
(* looked up in the table inside the transaction (NULL if the row is gone) *)
CloseRow(s, row, exitOrder, reason) ==
  /\ trades' = Append(trades, [symbol |-> s, lot |-> row.lot,
                               entryOrder |-> positions[s].entryOrder,
                               exitOrder |-> exitOrder, reason |-> reason])
  /\ positions' = [positions EXCEPT ![s] = NoPosition]

Debited(flows, o) == [flows EXCEPT !.buys = @ \cup {o}]
(* credited for the trade that is about to be inserted *)
Credited(flows) == [flows EXCEPT !.exits = @ \cup {Len(trades) + 1}]

(* fill_buy_atomic: order, cash and position in one transaction *)
FillBuyAtomic(o, open, newCash, row) ==
  /\ IF orders[o].status = "PENDING"
     THEN /\ MarkFilled(o, open)
          /\ cash' = newCash
          /\ positions' = [positions EXCEPT ![orders[o].symbol] = row]
     ELSE UNCHANGED <<orders, cash, positions>>
  /\ UNCHANGED <<trades, decisions, cursor>>

(* Mutant: the order is not marked FILLED. *)
FillSellUnmarked(o, open, newCash, row) ==
  /\ cash' = newCash
  /\ CloseRow(orders[o].symbol, row, o, "SIGNAL")
  /\ UNCHANGED <<orders, decisions, cursor>>

(* Mutant: the proceeds are not credited. *)
FillSellUnpaid(o, open, newCash, row) ==
  /\ MarkFilled(o, open)
  /\ CloseRow(orders[o].symbol, row, o, "SIGNAL")
  /\ UNCHANGED <<cash, decisions, cursor>>

(* fill_sell_atomic: does not look whether the position is still there *)
FillSellAtomic(o, open, newCash, row) ==
  /\ IF orders[o].status = "PENDING"
     THEN /\ MarkFilled(o, open)
          /\ cash' = newCash
          /\ CloseRow(orders[o].symbol, row, o, "SIGNAL")
     ELSE UNCHANGED <<orders, cash, positions, trades>>
  /\ UNCHANGED <<decisions, cursor>>

(* close_position_atomic: returns False when the row is gone *)
ClosePositionAtomic(s, newCash, row, reason) ==
  /\ IF Held(s)
     THEN cash' = newCash /\ CloseRow(s, row, 0, reason)
     ELSE UNCHANGED <<cash, positions, trades>>
  /\ UNCHANGED <<orders, decisions, cursor>>

(* Mutant: a row that is gone is closed all the same. *)
CloseRealtimeUnchecked(s) ==
  /\ cash' = Credited(cash) /\ CloseRow(s, positions[s], 0, "REALTIME")
  /\ UNCHANGED <<orders, decisions, cursor>>

(* close_realtime_position_atomic: row and cash are read in the transaction *)
CloseRealtimePositionAtomic(s) ==
  /\ IF Held(s)
     THEN cash' = Credited(cash) /\ CloseRow(s, positions[s], 0, "REALTIME")
     ELSE UNCHANGED <<cash, positions, trades>>
  /\ UNCHANGED <<orders, decisions, cursor>>

(* upsert_position: a plain INSERT ... ON CONFLICT DO UPDATE.  It writes   *)
(* every column but entry_order_id, and inserts the row if it is gone.     *)
UpsertPosition(s, row) ==
  /\ positions' = [positions EXCEPT ![s] =
                     [row EXCEPT !.entryOrder = positions[s].entryOrder]]
  /\ UNCHANGED <<orders, trades, cash, decisions, cursor>>

(* set_cash: the parameter is the figure the caller read, less a charge *)
SetCash(flows) ==
  /\ cash' = flows
  /\ UNCHANGED <<orders, positions, trades, decisions, cursor>>
=============================================================================
