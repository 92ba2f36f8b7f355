------------------------- MODULE SimulationLabProofs -------------------------
(***************************************************************************)
(* Theorems about SimulationLab, for every set of symbols and horizons,    *)
(* every length of bars and every bound.                                   *)
(***************************************************************************)
EXTENDS SimulationLab, TLAPS

-----------------------------------------------------------------------------
(* Sequences of rows. *)

(* Replacing a row keeps the table a table, with the same ids. *)
LEMMA UpdateRow ==
  ASSUME NEW S, NEW q \in Seq(S), NEW i \in DOMAIN q, NEW e \in S
  PROVE  /\ [q EXCEPT ![i] = e] \in Seq(S)
         /\ DOMAIN [q EXCEPT ![i] = e] = DOMAIN q
  OBVIOUS

(* Inserting a row keeps the others under their ids. *)
LEMMA InsertRow ==
  ASSUME NEW S, NEW q \in Seq(S), NEW e \in S
  PROVE  /\ Append(q, e) \in Seq(S)
         /\ DOMAIN Append(q, e) = DOMAIN q \cup {Len(q) + 1}
         /\ Len(q) + 1 \notin DOMAIN q
         /\ \A i \in DOMAIN q : Append(q, e)[i] = q[i]
         /\ Append(q, e)[Len(q) + 1] = e
  OBVIOUS

-----------------------------------------------------------------------------
(* The transactions of SimulationDB keep the tables well typed. *)

LEMMA MarkFilledType ==
  ASSUME DBTypeOK, NEW o \in DOMAIN orders, NEW open \in Int, MarkFilled(o, open)
  PROVE  orders' \in Seq(OrderRow) /\ DOMAIN orders' = DOMAIN orders
<1>1. [orders[o] EXCEPT !.status = "FILLED", !.filled = open] \in OrderRow
  <2>1. orders[o] \in OrderRow  BY DEF DBTypeOK
  <2>2. QED BY <2>1 DEF OrderRow, Statuses
<1>2. orders' = [orders EXCEPT ![o] = [orders[o] EXCEPT !.status = "FILLED", !.filled = open]]
  BY DEF MarkFilled, DBTypeOK
<1>3. QED BY <1>1, <1>2, UpdateRow DEF DBTypeOK

LEMMA CloseRowType ==
  ASSUME DBTypeOK, NEW s \in Symbols, NEW row \in PositionRow, NEW o \in Nat,
         NEW reason \in ExitReasons, CloseRow(s, row, o, reason)
  PROVE  trades' \in Seq(TradeRow) /\ positions' \in [Symbols -> PositionRow]
<1>1. positions[s] \in PositionRow  BY DEF DBTypeOK
<1>2. [symbol |-> s, lot |-> row.lot, entryOrder |-> positions[s].entryOrder,
       exitOrder |-> o, reason |-> reason] \in TradeRow
  BY <1>1 DEF TradeRow, PositionRow
<1>3. NoPosition \in PositionRow
  BY DBAssumption DEF NoPosition, PositionRow
<1>4. QED BY <1>2, <1>3 DEF CloseRow, DBTypeOK

LEMMA CreditedType ==
  ASSUME DBTypeOK, NEW m \in Flows
  PROVE  Credited(m) \in Flows
<1>1. Len(trades) + 1 \in Nat
  BY DEF DBTypeOK
<1>2. QED BY <1>1 DEF Credited, Flows

LEMMA CursorType ==
  ASSUME DBTypeOK, NEW h \in Horizons, NEW s \in Symbols, NEW bar \in Int,
         SetLastProcessed(h, s, bar)
  PROVE  cursor' \in [Horizons -> [Symbols -> Int]]
<1>1. [cursor[h] EXCEPT ![s] = bar] \in [Symbols -> Int]  BY DEF DBTypeOK
<1>2. cursor' = [cursor EXCEPT ![h] = [cursor[h] EXCEPT ![s] = bar]]
  BY DEF SetLastProcessed, DBTypeOK
<1>3. QED BY <1>1, <1>2 DEF DBTypeOK

LEMMA CancelOrderType ==
  ASSUME DBTypeOK, NEW o \in DOMAIN orders, CancelOrder(o)
  PROVE  DBTypeOK' /\ DOMAIN orders' = DOMAIN orders
<1>1. CASE orders[o].status = "PENDING"
  <2>1. orders[o] \in OrderRow  BY DEF DBTypeOK
  <2>2. [orders[o] EXCEPT !.status = "CANCELLED"] \in OrderRow
    BY <2>1 DEF OrderRow, Statuses
  <2>3. orders' = [orders EXCEPT ![o] = [orders[o] EXCEPT !.status = "CANCELLED"]]
    BY <1>1 DEF CancelOrder, DBTypeOK
  <2>4. QED BY <2>2, <2>3, UpdateRow DEF DBTypeOK, CancelOrder
<1>2. CASE orders[o].status # "PENDING"
  BY <1>2 DEF CancelOrder, DBTypeOK
<1>3. QED BY <1>1, <1>2

LEMMA FillBuyType ==
  ASSUME DBTypeOK, NEW o \in DOMAIN orders, NEW open \in Int, NEW m \in Flows,
         NEW row \in PositionRow, FillBuyAtomic(o, open, m, row)
  PROVE  DBTypeOK' /\ DOMAIN orders' = DOMAIN orders
<1>1. CASE orders[o].status = "PENDING"
  BY <1>1, MarkFilledType DEF FillBuyAtomic, DBTypeOK
<1>2. CASE orders[o].status # "PENDING"
  BY <1>2 DEF FillBuyAtomic, DBTypeOK
<1>3. QED BY <1>1, <1>2

LEMMA FillSellType ==
  ASSUME DBTypeOK, NEW o \in DOMAIN orders, NEW open \in Int, NEW m \in Flows,
         NEW row \in PositionRow, FillSellAtomic(o, open, m, row)
  PROVE  DBTypeOK' /\ DOMAIN orders' = DOMAIN orders
<1>1. CASE orders[o].status = "PENDING"
  <2>a. orders[o] \in OrderRow /\ o \in Nat  BY DEF DBTypeOK
  <2>1. orders[o].symbol \in Symbols /\ o \in Nat
    BY <2>a DEF OrderRow
  <2>2. trades' \in Seq(TradeRow) /\ positions' \in [Symbols -> PositionRow]
    BY <1>1, <2>1, CloseRowType DEF FillSellAtomic, ExitReasons
  <2>3. QED BY <1>1, <2>2, MarkFilledType DEF FillSellAtomic, DBTypeOK
<1>2. CASE orders[o].status # "PENDING"
  BY <1>2 DEF FillSellAtomic, DBTypeOK
<1>3. QED BY <1>1, <1>2

LEMMA ClosePositionType ==
  ASSUME DBTypeOK, NEW s \in Symbols, NEW m \in Flows, NEW row \in PositionRow,
         NEW reason \in ExitReasons, ClosePositionAtomic(s, m, row, reason)
  PROVE  DBTypeOK'
<1>1. CASE Held(s)
  BY <1>1, CloseRowType, 0 \in Nat DEF ClosePositionAtomic, DBTypeOK
<1>2. CASE ~Held(s)
  BY <1>2 DEF ClosePositionAtomic, DBTypeOK
<1>3. QED BY <1>1, <1>2

LEMMA CloseRealtimeType ==
  ASSUME DBTypeOK, NEW s \in Symbols, CloseRealtimePositionAtomic(s)
  PROVE  DBTypeOK'
<1>1. cash \in Flows /\ positions[s] \in PositionRow  BY DEF DBTypeOK
<1>2. CASE Held(s)
  BY <1>1, <1>2, CloseRowType, CreditedType, 0 \in Nat
     DEF CloseRealtimePositionAtomic, DBTypeOK, ExitReasons
<1>3. CASE ~Held(s)
  BY <1>3 DEF CloseRealtimePositionAtomic, DBTypeOK
<1>4. QED BY <1>2, <1>3

-----------------------------------------------------------------------------
(* How a step moves the worker. *)

LEMMA EmptyBooks == NoBook \in [Symbols -> PositionRow] /\ NoFlows \in Flows
<1>1. NoPosition \in PositionRow
  BY DBAssumption DEF NoPosition, PositionRow
<1>2. QED BY <1>1 DEF NoBook, NoFlows, Flows

LEMMA IdleType == Idle \in WorkerState
BY EmptyBooks, DBAssumption DEF Idle, WorkerState, Labels, Sides

LEMMA DoneType ==
  ASSUME worker \in WorkerState, NEW l \in Labels, Done(l)
  PROVE  worker' \in WorkerState /\ worker'.at = l /\ worker'.sym = worker.sym
BY EmptyBooks DEF Done, WorkerState, Sides

LEMMA GotoType ==
  ASSUME worker \in WorkerState, NEW l \in Labels, Goto(l)
  PROVE  /\ worker' \in WorkerState /\ worker'.at = l /\ worker'.sym = worker.sym
         /\ worker'.money = worker.money
BY DEF Goto, WorkerState

LEMMA ReadType ==
  ASSUME TypeOK, NEW l \in Labels, Read(l)
  PROVE  /\ worker' \in WorkerState /\ worker'.at = l /\ worker'.sym = worker.sym
         /\ worker'.money = cash
BY DEF Read, WorkerState, TypeOK, DBTypeOK

LEMMA PendingOrderRow ==
  ASSUME TypeOK, NEW s \in Symbols, \A o, p \in PendingOrders(s) : o = p
  PROVE  /\ PendingOrder(s) = 0 <=> PendingOrders(s) = {}
         /\ PendingOrder(s) # 0 => PendingOrder(s) \in PendingOrders(s)
<1>1. DOMAIN orders = 1..Len(orders)  BY DEF TypeOK, DBTypeOK
<1>2. \A o \in PendingOrders(s) : o \in Nat /\ o # 0
  BY <1>1 DEF PendingOrders, TypeOK, DBTypeOK
<1>3. ASSUME PendingOrders(s) # {}
      PROVE  PendingOrder(s) \in PendingOrders(s)
  <2>1. PICK o \in PendingOrders(s) : \A p \in PendingOrders(s) : p = o
    BY <1>3
  <2>2. \A p \in PendingOrders(s) : p <= o
    BY <1>2, <2>1
  <2>3. QED BY <1>3, <2>2 DEF PendingOrder
<1>4. QED BY <1>2, <1>3 DEF PendingOrder

-----------------------------------------------------------------------------
(* At most one PENDING order per symbol, and type correctness.  They go    *)
(* together: the id pending_order returns is a row because there is never  *)
(* more than one candidate, and a second order is never placed because no  *)
(* order appears between the worker's last look and its INSERT.            *)

LEMMA PendingInvInit == Init => PendingInv
<1> SUFFICES ASSUME Init PROVE PendingInv
  OBVIOUS
<1> USE DEF Init, DBInit
<1>1. TypeOK
  BY EmptyBooks, IdleType, LabAssumption
     DEF TypeOK, DBTypeOK, NoBook
<1>2. At("idle")
  BY DEF At, Idle
<1>3. OnePendingOrder
  BY DEF OnePendingOrder, PendingOrders
<1>4. QED
  BY <1>1, <1>2, <1>3
     DEF PendingInv, BusyHasSymbol, OrderReadExists, NonePendingWhileOrdering, At

LEMMA SameOrders ==
  ASSUME orders' = orders
  PROVE  \A s \in Symbols : PendingOrders(s)' = PendingOrders(s)
BY DEF PendingOrders

(* An UPDATE of a row's status touches that column of that row only. *)
LEMMA MarkedRows ==
  ASSUME DBTypeOK, NEW o \in DOMAIN orders, NEW open, MarkFilled(o, open)
  PROVE  /\ DOMAIN orders' = DOMAIN orders
         /\ \A p \in DOMAIN orders : /\ orders'[p].symbol = orders[p].symbol
                                     /\ orders'[p].side = orders[p].side
                                     /\ p # o => orders'[p].status = orders[p].status
         /\ orders'[o].status = "FILLED"
<1>1. \A p \in DOMAIN orders : orders[p] \in OrderRow  BY DEF DBTypeOK
<1>2. orders' = [orders EXCEPT ![o] = [orders[o] EXCEPT !.status = "FILLED", !.filled = open]]
  BY DEF MarkFilled, DBTypeOK
<1>3. DOMAIN orders' = DOMAIN orders  BY <1>2
<1>4. /\ orders'[o] = [orders[o] EXCEPT !.status = "FILLED", !.filled = open]
      /\ \A p \in DOMAIN orders : p # o => orders'[p] = orders[p]
  BY <1>2
<1>5. /\ orders'[o].symbol = orders[o].symbol /\ orders'[o].side = orders[o].side
      /\ orders'[o].status = "FILLED"
  BY <1>1, <1>4 DEF OrderRow
<1>6. QED BY <1>3, <1>4, <1>5

LEMMA CancelledRows ==
  ASSUME DBTypeOK, NEW o \in DOMAIN orders, CancelOrder(o)
  PROVE  /\ DOMAIN orders' = DOMAIN orders
         /\ \A p \in DOMAIN orders : /\ orders'[p].symbol = orders[p].symbol
                                     /\ orders'[p].side = orders[p].side
                                     /\ p # o => orders'[p].status = orders[p].status
         /\ orders'[o].status = IF orders[o].status = "PENDING" THEN "CANCELLED"
                                ELSE orders[o].status
<1>1. \A p \in DOMAIN orders : orders[p] \in OrderRow  BY DEF DBTypeOK
<1>2. CASE orders[o].status = "PENDING"
  <2>1. orders' = [orders EXCEPT ![o] = [orders[o] EXCEPT !.status = "CANCELLED"]]
    BY <1>2 DEF CancelOrder, DBTypeOK
  <2>2. DOMAIN orders' = DOMAIN orders  BY <2>1
  <2>3. /\ orders'[o] = [orders[o] EXCEPT !.status = "CANCELLED"]
        /\ \A p \in DOMAIN orders : p # o => orders'[p] = orders[p]
    BY <2>1
  <2>4. /\ orders'[o].symbol = orders[o].symbol /\ orders'[o].side = orders[o].side
        /\ orders'[o].status = "CANCELLED"
    BY <1>1, <2>3 DEF OrderRow
  <2>5. QED BY <1>2, <2>2, <2>3, <2>4
<1>3. CASE orders[o].status # "PENDING"
  BY <1>3 DEF CancelOrder
<1>4. QED BY <1>2, <1>3

(* So the row it touches is the only one that can stop being PENDING. *)
LEMMA SettledOrders ==
  ASSUME DOMAIN orders' = DOMAIN orders,
         NEW o \in DOMAIN orders, orders'[o].status # "PENDING" \/ orders' = orders,
         \A p \in DOMAIN orders : /\ orders'[p].symbol = orders[p].symbol
                                  /\ p # o => orders'[p].status = orders[p].status
  PROVE  \A s \in Symbols : PendingOrders(s)' \subseteq PendingOrders(s)
BY DEF PendingOrders

(* What every step that places no order has to show. *)
LEMMA PendingInvFrame ==
  ASSUME PendingInv,
         DBTypeOK', now' \in Nat, worker' \in WorkerState,
         realtime' \in Symbols \cup {NoSymbol}, crashes' \in Nat,
         \A s \in Symbols : PendingOrders(s)' \subseteq PendingOrders(s),
         worker'.at # "idle" => worker'.sym \in Symbols,
         worker'.at = "settle" => worker'.order \in DOMAIN orders',
         worker'.at = "order" =>
           \/ worker.at = "order" /\ worker'.sym = worker.sym
           \/ worker'.sym \in Symbols /\ PendingOrders(worker'.sym) = {}
  PROVE  PendingInv'
<1>1. TypeOK' /\ BusyHasSymbol' /\ OrderReadExists'
  BY DEF TypeOK, BusyHasSymbol, OrderReadExists, At
<1>2. OnePendingOrder'
  BY DEF PendingInv, OnePendingOrder
<1>3. NonePendingWhileOrdering'
  <2> SUFFICES ASSUME NEW s \in Symbols, worker'.at = "order", worker'.sym = s
               PROVE  PendingOrders(s)' = {}
    BY DEF NonePendingWhileOrdering, At
  <2>1. PendingOrders(s) = {}
    BY DEF PendingInv, NonePendingWhileOrdering, At
  <2>2. QED BY <2>1
<1>4. QED BY <1>1, <1>2, <1>3 DEF PendingInv

LEMMA PendingInvStep == PendingInv /\ [Next]_vars => PendingInv'
<1> SUFFICES ASSUME PendingInv, [Next]_vars PROVE PendingInv'
  OBVIOUS
<1>a. /\ DBTypeOK /\ now \in Nat /\ worker \in WorkerState
      /\ realtime \in Symbols \cup {NoSymbol} /\ crashes \in Nat /\ TypeOK
  BY DEF PendingInv, TypeOK
<1>b. worker.at # "idle" => worker.sym \in Symbols
  BY DEF PendingInv, BusyHasSymbol, At
<1>c. worker.at = "settle" => worker.order \in DOMAIN orders
  BY DEF PendingInv, OrderReadExists, At
<1>d. /\ worker.hz \in Horizons /\ worker.bar \in Nat /\ worker.money \in Flows
      /\ worker.book \in [Symbols -> PositionRow] /\ worker.side \in Sides
      /\ worker.liq \subseteq Symbols /\ worker.at \in Labels /\ worker.order \in Nat
      /\ worker.bars \subseteq Nat
  BY <1>a DEF WorkerState
<1>e. worker.at # "idle" => Mine \in PositionRow
  BY <1>b, <1>d DEF Mine
<1>f. OpenOf(worker.hz, worker.bar) \in Int
  BY <1>d, LabAssumption DEF OpenOf
<1>g. \A s \in Symbols : PendingOrders(s) \subseteq PendingOrders(s)
  OBVIOUS
<1>h. ASSUME ReadOnly
      PROVE  /\ DBTypeOK' /\ now' = now /\ realtime' = realtime /\ crashes' = crashes
             /\ orders' = orders
             /\ \A s \in Symbols : PendingOrders(s)' \subseteq PendingOrders(s)
  BY <1>h, <1>a, SameOrders DEF ReadOnly, OnlyWorker, dbVars, DBTypeOK
<1>k. orders' = orders => \A s \in Symbols : PendingOrders(s)' \subseteq PendingOrders(s)
  BY SameOrders
<1>m. ASSUME NEW l \in Labels \ {"idle", "settle", "order"}, Done(l) \/ Goto(l)
      PROVE  worker' \in WorkerState /\ worker'.at = l /\ worker'.sym = worker.sym
  <2>1. l \in Labels  OBVIOUS
  <2>2. CASE Done(l)  BY <1>a, <2>1, <2>2, DoneType
  <2>3. CASE Goto(l)  BY <1>a, <2>1, <2>3, GotoType
  <2>4. QED BY <1>m, <2>2, <2>3
<1>1. CASE BeginHorizon
  <2>1. worker.at # "idle" /\ worker.sym \in Symbols  BY <1>1, <1>b DEF BeginHorizon, At
  <2>2. LatestBar(worker.hz) \in Int /\ ClosedBars(worker.hz) \subseteq Nat
    BY <1>a, <1>d, LabAssumption DEF LatestBar, ClosedBars
  <2>3. CASE cursor[worker.hz][worker.sym] = 0
    <3>1. cursor' \in [Horizons -> [Symbols -> Int]]
      <4>1. SetLastProcessed(worker.hz, worker.sym, LatestBar(worker.hz))
        BY <1>1, <2>3 DEF BeginHorizon
      <4>2. QED BY <1>d, <1>a, <2>1, <2>2, <4>1, CursorType
    <3>2. worker' = Idle  BY <1>1, <2>3 DEF BeginHorizon
    <3>3. worker' \in WorkerState /\ worker'.at = "idle"  BY <3>2, IdleType DEF Idle
    <3>4. QED BY <1>1, <1>a, <1>k, <3>1, <3>3, PendingInvFrame
              DEF BeginHorizon, DBTypeOK, OnlyWorker
  <2>4. CASE cursor[worker.hz][worker.sym] # 0
    <3>1. worker' = [worker EXCEPT !.at = "bar",
                       !.bars = {b \in ClosedBars(worker.hz) : b > cursor[worker.hz][worker.sym]}]
      BY <1>1, <2>4 DEF BeginHorizon
    <3>2. worker' \in WorkerState /\ worker'.at = "bar" /\ worker'.sym = worker.sym
      BY <1>a, <2>2, <3>1 DEF WorkerState, Labels
    <3>3. QED BY <1>1, <1>a, <1>k, <2>1, <2>4, <3>2, PendingInvFrame
              DEF BeginHorizon, DBTypeOK, OnlyWorker
  <2>5. QED BY <2>3, <2>4
<1>2. CASE NextBar
  <2>1. PICK b \in worker.bars : worker' = [worker EXCEPT !.at = "exec", !.bar = b, !.bars = @ \ {b}]
    BY <1>2 DEF NextBar
  <2>2. worker' \in WorkerState /\ worker'.at = "exec" /\ worker'.sym = worker.sym
    BY <1>a, <1>d, <2>1 DEF WorkerState, Labels
  <2>3. QED BY <1>2, <1>a, <1>b, <1>h, <2>2, PendingInvFrame DEF NextBar, At
<1>3. CASE EndBars
  BY <1>3, <1>a, <1>h, IdleType, PendingInvFrame DEF EndBars, Idle
<1>4. CASE ReadPending
  <2>1. worker.at = "exec" /\ worker.sym \in Symbols  BY <1>4, <1>b DEF ReadPending, At
  <2>2. CASE PendingOrder(worker.sym) = 0
    <3>1. Goto("protect")  BY <1>4, <2>2 DEF ReadPending
    <3>2. QED BY <1>4, <1>a, <1>h, <2>1, <3>1, GotoType, PendingInvFrame
              DEF ReadPending, Labels
  <2>3. CASE PendingOrder(worker.sym) # 0
    <3>1. worker' = [worker EXCEPT !.at = "settle", !.order = PendingOrder(worker.sym),
                                   !.book = positions, !.money = cash]
      BY <1>4, <2>3 DEF ReadPending
    <3>2. PendingOrder(worker.sym) \in DOMAIN orders
      BY <1>a, <2>1, <2>3, PendingOrderRow DEF PendingInv, OnePendingOrder, PendingOrders
    <3>3. PendingOrder(worker.sym) \in Nat  BY <1>a, <3>2 DEF DBTypeOK
    <3>4. /\ worker' \in WorkerState /\ worker'.at = "settle" /\ worker'.sym = worker.sym
          /\ worker'.order = PendingOrder(worker.sym)
      BY <1>a, <3>1, <3>3 DEF WorkerState, Labels, DBTypeOK
    <3>5. QED BY <1>4, <1>a, <1>h, <2>1, <3>2, <3>4, PendingInvFrame DEF ReadPending
  <2>4. QED BY <2>2, <2>3
<1>5. CASE CancelPending
  <2>1. worker.at = "settle"  BY <1>5 DEF CancelPending, At
  <2>2. DBTypeOK'
    BY <1>5, <1>a, <1>c, <2>1, CancelOrderType DEF CancelPending
  <2>3. \A s \in Symbols : PendingOrders(s)' \subseteq PendingOrders(s)
    BY <1>5, <1>a, <1>c, <2>1, CancelledRows, SettledOrders DEF CancelPending
  <2>4. worker' \in WorkerState /\ worker'.at = "protect" /\ worker'.sym = worker.sym
    BY <1>5, <1>a, DoneType DEF CancelPending, Labels
  <2>5. QED BY <1>5, <1>a, <1>b, <2>1, <2>2, <2>3, <2>4, PendingInvFrame
            DEF CancelPending, OnlyWorker
<1>6. CASE ExecuteBuy
  <2>1. worker.at = "settle"  BY <1>6 DEF ExecuteBuy, At
  <2> DEFINE o == worker.order
             row == [lot |-> o, entryOrder |-> o, held |-> 0, hz |-> FillHorizon(o),
                     bar |-> worker.bar]
  <2>2. o \in DOMAIN orders /\ o \in Nat /\ orders[o] \in OrderRow
    BY <1>a, <1>c, <1>d, <2>1 DEF DBTypeOK
  <2>3. row \in PositionRow
    BY <1>d, <2>2, DBAssumption DEF PositionRow, FillHorizon, OrderRow
  <2>4. Debited(worker.money, o) \in Flows
    BY <1>d, <2>2 DEF Debited, Flows
  <2>5. FillBuyAtomic(o, OpenOf(worker.hz, worker.bar), Debited(worker.money, o), row)
    BY <1>6 DEF ExecuteBuy
  <2> HIDE DEF o, row
  <2>6. DBTypeOK'
    BY <1>a, <1>f, <2>2, <2>3, <2>4, <2>5, FillBuyType
  <2>7. \A s \in Symbols : PendingOrders(s)' \subseteq PendingOrders(s)
    <3>1. CASE orders[o].status = "PENDING"
      BY <1>a, <2>2, <2>5, <3>1, MarkedRows, SettledOrders DEF FillBuyAtomic
    <3>2. CASE orders[o].status # "PENDING"
      BY <1>k, <2>5, <3>2 DEF FillBuyAtomic
    <3>3. QED BY <3>1, <3>2
  <2>8. QED BY <1>6, <1>a, <1>b, <1>m, <2>1, <2>6, <2>7, PendingInvFrame
            DEF ExecuteBuy, OnlyWorker, Labels
<1>7. CASE ExecuteSell
  <2>1. worker.at = "settle"  BY <1>7 DEF ExecuteSell, At
  <2> DEFINE o == worker.order
  <2>2. o \in DOMAIN orders /\ o \in Nat  BY <1>c, <1>d, <2>1
  <2>3. Mine \in PositionRow  BY <1>e, <2>1
  <2>4. Credited(worker.money) \in Flows  BY <1>a, <1>d, CreditedType
  <2>5. FillSellAtomic(o, OpenOf(worker.hz, worker.bar), Credited(worker.money), Mine)
    BY <1>7 DEF ExecuteSell
  <2> HIDE DEF o
  <2>6. DBTypeOK'
    BY <1>a, <1>f, <2>2, <2>3, <2>4, <2>5, FillSellType
  <2>7. \A s \in Symbols : PendingOrders(s)' \subseteq PendingOrders(s)
    <3>1. CASE orders[o].status = "PENDING"
      BY <1>a, <2>2, <2>5, <3>1, MarkedRows, SettledOrders DEF FillSellAtomic
    <3>2. CASE orders[o].status # "PENDING"
      BY <1>k, <2>5, <3>2 DEF FillSellAtomic
    <3>3. QED BY <3>1, <3>2
  <2>8. QED BY <1>7, <1>a, <1>b, <1>m, <2>1, <2>6, <2>7, PendingInvFrame
            DEF ExecuteSell, OnlyWorker, Labels
<1>8. CASE ReadPosition
  <2>1. worker.at = "protect" /\ worker.sym \in Symbols  BY <1>8, <1>b DEF ReadPosition, At
  <2>2. CASE Held(worker.sym)
    <3>1. [positions EXCEPT ![worker.sym].held = @ + 1] \in [Symbols -> PositionRow]
      <4>1. positions[worker.sym] \in PositionRow  BY <1>a, <2>1 DEF DBTypeOK
      <4>2. [positions[worker.sym] EXCEPT !.held = @ + 1] \in PositionRow
        BY <4>1 DEF PositionRow
      <4>3. QED BY <1>a, <4>2 DEF DBTypeOK
    <3>2. worker' = [worker EXCEPT !.at = "guard", !.money = cash,
                       !.book = [positions EXCEPT ![worker.sym].held = @ + 1]]
      BY <1>8, <2>2 DEF ReadPosition
    <3>3. worker' \in WorkerState /\ worker'.at = "guard" /\ worker'.sym = worker.sym
      BY <1>a, <3>1, <3>2 DEF WorkerState, Labels, DBTypeOK
    <3>4. QED BY <1>8, <1>a, <1>h, <2>1, <3>3, PendingInvFrame DEF ReadPosition
  <2>3. CASE ~Held(worker.sym)
    BY <1>8, <1>a, <1>h, <1>m, <2>1, <2>3, PendingInvFrame DEF ReadPosition, Labels
  <2>4. QED BY <2>2, <2>3
<1>9. CASE KeepPosition
  <2>1. worker.at = "guard" /\ worker.sym \in Symbols  BY <1>9, <1>b DEF KeepPosition, At
  <2>2. [Mine EXCEPT !.entryOrder = positions[worker.sym].entryOrder] \in PositionRow
    <3>1. positions[worker.sym] \in PositionRow /\ Mine \in PositionRow
      BY <1>a, <1>e, <2>1 DEF DBTypeOK
    <3>2. QED BY <3>1 DEF PositionRow
  <2>3. DBTypeOK'
    BY <1>9, <1>a, <2>2 DEF KeepPosition, UpsertPosition, DBTypeOK
  <2>4. orders' = orders  BY <1>9 DEF KeepPosition, UpsertPosition
  <2>5. QED BY <1>9, <1>a, <1>k, <1>m, <2>1, <2>3, <2>4, PendingInvFrame
            DEF KeepPosition, OnlyWorker, Labels
<1>10. CASE ProtectiveExit
  <2>1. worker.at = "guard" /\ worker.sym \in Symbols  BY <1>10, <1>b DEF ProtectiveExit, At
  <2>2. Credited(worker.money) \in Flows  BY <1>a, <1>d, CreditedType
  <2>3. ClosePositionAtomic(worker.sym, Credited(worker.money), Mine, "PROTECTIVE")
    BY <1>10 DEF ProtectiveExit
  <2>4. DBTypeOK'
    BY <1>a, <1>e, <2>1, <2>2, <2>3, ClosePositionType DEF ExitReasons
  <2>5. orders' = orders  BY <2>3 DEF ClosePositionAtomic
  <2>6. QED BY <1>10, <1>a, <1>k, <1>m, <2>1, <2>4, <2>5, PendingInvFrame
            DEF ProtectiveExit, OnlyWorker, Labels
<1>11. CASE ReadFinancing
  <2>1. worker.at = "financing" /\ worker.sym \in Symbols
    BY <1>11, <1>b DEF ReadFinancing, At
  <2>2. \E l \in {"margin", "charge"} : /\ worker' \in WorkerState /\ worker'.at = l
                                       /\ worker'.sym = worker.sym
    BY <1>11, <1>a, GotoType, ReadType DEF ReadFinancing, Labels
  <2>3. QED BY <1>11, <1>a, <1>h, <2>1, <2>2, PendingInvFrame DEF ReadFinancing
<1>12. CASE ChargeFinancing
  <2>1. worker.at = "charge" /\ worker.sym \in Symbols
    BY <1>12, <1>b DEF ChargeFinancing, At
  <2>2. DBTypeOK' /\ orders' = orders
    BY <1>12, <1>a, <1>d DEF ChargeFinancing, SetCash, DBTypeOK
  <2>3. QED BY <1>12, <1>a, <1>k, <1>m, <2>1, <2>2, PendingInvFrame
            DEF ChargeFinancing, OnlyWorker, Labels
<1>13. CASE CheckMargin
  <2>1. worker.at = "margin" /\ worker.sym \in Symbols  BY <1>13, <1>b DEF CheckMargin, At
  <2>2. CASE Goto("decide")
    BY <1>13, <1>a, <1>h, <1>m, <2>1, <2>2, PendingInvFrame DEF CheckMargin, Labels
  <2>3. CASE worker' = [worker EXCEPT !.at = "liquidate", !.book = positions,
                                      !.liq = {s \in Symbols : Held(s)}]
    <3>1. worker' \in WorkerState /\ worker'.at = "liquidate" /\ worker'.sym = worker.sym
      BY <1>a, <2>3 DEF WorkerState, Labels, DBTypeOK
    <3>2. QED BY <1>13, <1>a, <1>h, <2>1, <3>1, PendingInvFrame DEF CheckMargin
  <2>4. QED BY <1>13, <2>2, <2>3 DEF CheckMargin
<1>14. CASE ReadLiquidation
  <2>1. worker.at = "liquidate" /\ worker.sym \in Symbols
    BY <1>14, <1>b DEF ReadLiquidation, At
  <2>2. worker' \in WorkerState /\ worker'.at = "liquidating" /\ worker'.sym = worker.sym
    BY <1>14, <1>a DEF ReadLiquidation, WorkerState, Labels, DBTypeOK
  <2>3. QED BY <1>14, <1>a, <1>h, <2>1, <2>2, PendingInvFrame DEF ReadLiquidation
<1>15. ASSUME NEW s \in Symbols, Liquidate(s)
       PROVE  PendingInv'
  <2>1. worker.at = "liquidating" /\ worker.sym \in Symbols
    BY <1>15, <1>b DEF Liquidate, At
  <2>2. Credited(worker.money) \in Flows /\ worker.book[s] \in PositionRow
    BY <1>a, <1>d, CreditedType
  <2>3. ClosePositionAtomic(s, Credited(worker.money), worker.book[s], "LIQUIDATION")
    BY <1>15 DEF Liquidate
  <2>4. DBTypeOK'
    BY <1>a, <2>2, <2>3, ClosePositionType DEF ExitReasons
  <2>5. orders' = orders  BY <2>3 DEF ClosePositionAtomic
  <2>6. worker' \in WorkerState /\ worker'.at = "liquidate" /\ worker'.sym = worker.sym
    BY <1>15, <1>a DEF Liquidate, WorkerState, Labels
  <2>7. QED BY <1>15, <1>a, <1>k, <2>1, <2>4, <2>5, <2>6, PendingInvFrame
            DEF Liquidate, OnlyWorker
<1>16. CASE EndLiquidation
  BY <1>16, <1>a, <1>b, <1>h, <1>m, PendingInvFrame DEF EndLiquidation, At, Labels
<1>17. ASSUME NEW side \in Sides, Decide(side)
       PROVE  PendingInv'
  <2>1. worker.at = "decide" /\ worker.sym \in Symbols
    BY <1>17, <1>b DEF Decide, At
  <2>2. PendingOrders(worker.sym) = {}
    BY <1>17, <1>a, <2>1, PendingOrderRow DEF Decide, PendingInv, OnePendingOrder
  <2>3. DBTypeOK' /\ orders' = orders
    BY <1>17, <1>a, <1>d, <2>1 DEF Decide, AddDecision, DBTypeOK
  <2>4. worker' \in WorkerState /\ worker'.at = "order" /\ worker'.sym = worker.sym
    <3>1. worker' = [worker EXCEPT !.at = "order", !.side = side, !.book = positions,
                       !.did = [hz |-> worker.hz, symbol |-> worker.sym, bar |-> worker.bar]
                                 \notin decisions]
      BY <1>17 DEF Decide
    <3>2. positions \in [Symbols -> PositionRow]  BY <1>a DEF DBTypeOK
    <3>3. QED BY <1>a, <3>1, <3>2 DEF WorkerState, Labels
  <2>5. QED BY <1>17, <1>a, <1>k, <2>1, <2>2, <2>3, <2>4, PendingInvFrame
            DEF Decide, OnlyWorker
<1>18. CASE DecideNothing
  <2>1. worker.at = "decide" /\ worker.sym \in Symbols
    BY <1>18, <1>b DEF DecideNothing, At
  <2>2. DBTypeOK' /\ orders' = orders
    BY <1>18, <1>a, <1>d, <2>1 DEF DecideNothing, AddDecision, DBTypeOK
  <2>3. QED BY <1>18, <1>a, <1>k, <1>m, <2>1, <2>2, PendingInvFrame
            DEF DecideNothing, OnlyWorker, Labels
<1>19. CASE PlaceOrder
  <2>1. worker.at = "order" /\ worker.sym \in Symbols  BY <1>19, <1>b DEF PlaceOrder, At
  <2> DEFINE row == [symbol |-> worker.sym, side |-> worker.side, status |-> "PENDING",
                     created |-> worker.bar, filled |-> 0,
                     hz |-> IF worker.did THEN worker.hz ELSE Unknown, decided |-> Mine.lot]
  <2>2. row \in OrderRow
    <3>1. Mine.lot \in Nat  BY <1>e, <2>1 DEF PositionRow
    <3>2. QED BY <1>d, <2>1, <3>1 DEF OrderRow, Statuses
  <2>3. orders' = Append(orders, row)
    BY <1>19 DEF PlaceOrder, AddOrder
  <2>4. row.symbol = worker.sym  OBVIOUS
  <2> HIDE DEF row
  <2>5. /\ orders' \in Seq(OrderRow) /\ DOMAIN orders' = DOMAIN orders \cup {Len(orders) + 1}
        /\ Len(orders) + 1 \notin DOMAIN orders
        /\ \A o \in DOMAIN orders : orders'[o] = orders[o]
        /\ orders'[Len(orders) + 1] = row
    BY <1>a, <2>2, <2>3, InsertRow DEF DBTypeOK
  <2>6. worker' \in WorkerState /\ worker'.at = "advance" /\ worker'.sym = worker.sym
    BY <1>19, <1>m DEF PlaceOrder, Labels
  <2>7. TypeOK'
    BY <1>19, <1>a, <2>5, <2>6 DEF PlaceOrder, OnlyWorker, TypeOK, DBTypeOK
  <2>8. OnePendingOrder'
    <3> SUFFICES ASSUME NEW s \in Symbols,
                        NEW o \in PendingOrders(s)', NEW p \in PendingOrders(s)'
                 PROVE  o = p
      BY DEF OnePendingOrder
    <3>1. \A q \in PendingOrders(s)' : q \in PendingOrders(s) \/ q = Len(orders) + 1
      BY <2>5 DEF PendingOrders
    <3>2. CASE s = worker.sym
      <4>1. PendingOrders(s) = {}
        BY <2>1, <3>2 DEF PendingInv, NonePendingWhileOrdering, At
      <4>2. QED BY <3>1, <4>1
    <3>3. CASE s # worker.sym
      <4>1. Len(orders) + 1 \notin PendingOrders(s)'
        BY <2>4, <2>5, <3>3 DEF PendingOrders
      <4>2. QED BY <3>1, <4>1 DEF PendingInv, OnePendingOrder
    <3>4. QED BY <3>2, <3>3
  <2>9. QED BY <2>1, <2>6, <2>7, <2>8
            DEF PendingInv, BusyHasSymbol, OrderReadExists, NonePendingWhileOrdering, At
<1>20. CASE AdvanceCursor
  <2>1. worker.at = "advance" /\ worker.sym \in Symbols
    BY <1>20, <1>b DEF AdvanceCursor, At
  <2>2. cursor' \in [Horizons -> [Symbols -> Int]]
    BY <1>20, <1>a, <1>d, <2>1, CursorType DEF AdvanceCursor
  <2>4. DBTypeOK' /\ orders' = orders
    BY <1>20, <1>a, <2>2 DEF AdvanceCursor, DBTypeOK
  <2>5. QED BY <1>20, <1>a, <1>k, <1>m, <2>1, <2>4, PendingInvFrame
            DEF AdvanceCursor, OnlyWorker, Labels
<1>21. CASE Abandon
  <2>1. DBTypeOK' /\ orders' = orders
    BY <1>21, <1>a DEF Abandon, dbVars, DBTypeOK
  <2>2. worker' \in WorkerState /\ worker'.at = "idle"
    BY <1>21, IdleType DEF Abandon, Idle
  <2>3. QED BY <1>21, <1>a, <1>k, <2>1, <2>2, PendingInvFrame DEF Abandon
<1>22. CASE Select
  <2>1. PICK s \in Symbols, ready \in SUBSET Horizons, winner \in Horizons :
          SelectHorizon(s, ready, winner)
    BY <1>22 DEF Select
  <2>2. \A h \in Horizons : LatestBar(h) \in Int
    BY <1>a, LabAssumption DEF LatestBar
  <2>3. cursor' \in [Horizons -> [Symbols -> Int]]
    BY <1>a, <2>1, <2>2 DEF SelectHorizon, DBTypeOK
  <2>4. DBTypeOK' /\ orders' = orders
    BY <1>a, <2>1, <2>3 DEF SelectHorizon, DBTypeOK
  <2>5. worker' \in WorkerState /\ worker'.at = "begin" /\ worker'.sym = s
    BY <1>a, <2>1 DEF SelectHorizon, WorkerState, Labels
  <2>6. QED BY <1>a, <1>k, <2>1, <2>4, <2>5, PendingInvFrame DEF SelectHorizon, OnlyWorker
<1>23. CASE Tick
  <2>1. DBTypeOK' /\ orders' = orders
    BY <1>23, <1>a DEF Tick, dbVars, DBTypeOK
  <2>2. QED BY <1>23, <1>a, <1>b, <1>c, <1>k, <2>1, PendingInvFrame DEF Tick
<1>24. ASSUME NEW s \in Symbols, RealtimeTrigger(s)
       PROVE  PendingInv'
  <2>1. DBTypeOK' /\ orders' = orders
    BY <1>24, <1>a DEF RealtimeTrigger, dbVars, DBTypeOK
  <2>2. QED BY <1>24, <1>a, <1>b, <1>c, <1>k, <2>1, PendingInvFrame DEF RealtimeTrigger
<1>25. CASE RealtimeExit
  <2>1. realtime \in Symbols  BY <1>25, <1>a DEF RealtimeExit
  <2>2. DBTypeOK' /\ orders' = orders
    BY <1>25, <1>a, <2>1, CloseRealtimeType DEF RealtimeExit, CloseRealtimePositionAtomic
  <2>3. QED BY <1>25, <1>a, <1>b, <1>c, <1>k, <2>2, PendingInvFrame DEF RealtimeExit
<1>26. CASE UNCHANGED vars
  <2>1. DBTypeOK' /\ orders' = orders
    BY <1>26, <1>a DEF vars, DBTypeOK
  <2>2. QED BY <1>26, <1>a, <1>b, <1>c, <1>k, <2>1, PendingInvFrame DEF vars
<1>27. CASE BarStep
  BY <1>27, <1>1, <1>2, <1>3, <1>4, <1>5, <1>6, <1>7, <1>8, <1>9, <1>10, <1>11, <1>12,
     <1>13, <1>14, <1>15, <1>16, <1>17, <1>18, <1>19, <1>20 DEF BarStep
<1>28. QED BY <1>21, <1>22, <1>23, <1>24, <1>25, <1>26, <1>27
           DEF Next, BarNext, RealtimeNext

(* pending_order may LIMIT 1: no symbol ever has two orders to choose      *)
(* from, with both workers running and bars abandoned anywhere.            *)
THEOREM OnePendingOrderHolds == Spec => []OnePendingOrder
<1>1. PendingInv => OnePendingOrder  BY DEF PendingInv
<1>2. QED BY <1>1, PendingInvInit, PendingInvStep, PTL DEF Spec

(* Every table row, cursor and local of the worker keeps its type.         *)
THEOREM TypeCorrect == Spec => []TypeOK
<1>1. PendingInv => TypeOK  BY DEF PendingInv
<1>2. QED BY <1>1, PendingInvInit, PendingInvStep, PTL DEF Spec

-----------------------------------------------------------------------------
(* No flow the bar worker booked is lost, although every cash figure it    *)
(* writes was computed from an earlier read: between that read and the     *)
(* write only the realtime worker can have changed the ledger, so the copy *)
(* misses realtime proceeds at most.                                       *)

Reading == {"settle", "guard", "charge", "liquidating"}

LEMMA FlowInvInit == Init => FlowInv
<1> SUFFICES ASSUME Init PROVE FlowInv
  OBVIOUS
<1>1. FilledBuys = {} /\ cash = NoFlows /\ trades = <<>> /\ worker.at = "idle"
  BY DEF Init, DBInit, FilledBuys, Idle
<1>2. QED BY <1>1 DEF FlowInv, CopyMissesOnlyRealtime, WorkerFlowsKept, MissesOnlyRealtime, NoFlows

(* Steps that fill no BUY and insert no trade. *)
LEMMA FlowInvFrame ==
  ASSUME FlowInv, FilledBuys' = FilledBuys, trades' = trades,
         cash' = cash \/ (cash' = worker.money /\ worker.at \in Reading),
         worker'.at \in Reading =>
           worker'.money = cash \/ (worker'.money = worker.money /\ worker.at \in Reading)
  PROVE  FlowInv'
BY DEF FlowInv, CopyMissesOnlyRealtime, WorkerFlowsKept, MissesOnlyRealtime, Reading

(* A trade inserted, with its proceeds added to a figure that was good. *)
LEMMA CreditedFlows ==
  ASSUME DBTypeOK, NEW m \in Flows, MissesOnlyRealtime(m), FilledBuys' = FilledBuys,
         NEW s \in Symbols, NEW row \in PositionRow, NEW o \in Nat, NEW reason \in ExitReasons,
         CloseRow(s, row, o, reason), cash' = Credited(m)
  PROVE  /\ WorkerFlowsKept'
         /\ DOMAIN trades' = DOMAIN trades \cup {Len(trades) + 1}
         /\ \A i \in DOMAIN trades : trades'[i] = trades[i]
         /\ trades'[Len(trades) + 1].reason = reason
<1> DEFINE t == [symbol |-> s, lot |-> row.lot, entryOrder |-> positions[s].entryOrder,
                 exitOrder |-> o, reason |-> reason]
<1>1. t \in TradeRow
  <2>1. positions[s] \in PositionRow  BY DEF DBTypeOK
  <2>2. QED BY <2>1 DEF TradeRow, PositionRow
<1>2. trades' = Append(trades, t) /\ trades \in Seq(TradeRow) /\ t.reason = reason
  BY DEF CloseRow, DBTypeOK
<1> HIDE DEF t
<1>3. /\ DOMAIN trades' = DOMAIN trades \cup {Len(trades) + 1}
      /\ \A i \in DOMAIN trades : trades'[i] = trades[i]
      /\ trades'[Len(trades) + 1] = t
  BY <1>1, <1>2, InsertRow
<1>4. cash'.buys = m.buys /\ cash'.exits = m.exits \cup {Len(trades) + 1}
  BY DEF Credited, Flows
<1>5. WorkerFlowsKept'
  BY <1>3, <1>4 DEF WorkerFlowsKept, MissesOnlyRealtime
<1>6. QED BY <1>2, <1>3, <1>5

LEMMA FlowInvStep == PendingInv /\ FlowInv /\ [Next]_vars => FlowInv'
<1> SUFFICES ASSUME PendingInv, FlowInv, [Next]_vars PROVE FlowInv'
  OBVIOUS
<1>a. DBTypeOK /\ worker \in WorkerState /\ TypeOK /\ realtime \in Symbols \cup {NoSymbol}
  BY DEF PendingInv, TypeOK
<1>b. worker.at # "idle" => worker.sym \in Symbols
  BY DEF PendingInv, BusyHasSymbol, At
<1>c. worker.at = "settle" => worker.order \in DOMAIN orders /\ worker.order \in Nat
  BY <1>a DEF PendingInv, OrderReadExists, At, WorkerState
<1>d. /\ worker.money \in Flows /\ worker.book \in [Symbols -> PositionRow]
      /\ cash \in Flows
  BY <1>a DEF WorkerState, DBTypeOK
<1>e. worker.at # "idle" => Mine \in PositionRow
  BY <1>b, <1>d DEF Mine
<1>f. /\ worker.at \in Reading => MissesOnlyRealtime(worker.money)
      /\ MissesOnlyRealtime(cash)
  BY DEF FlowInv, CopyMissesOnlyRealtime, WorkerFlowsKept, Reading
<1>g. ASSUME orders' = orders  PROVE FilledBuys' = FilledBuys
  BY <1>g DEF FilledBuys
<1>h. ASSUME NEW l, Goto(l)
      PROVE  worker'.at = l /\ worker'.money = worker.money
  BY <1>a, <1>h DEF Goto, WorkerState
<1>i. ASSUME NEW l, Done(l)
      PROVE  worker'.at = l
  BY <1>a, <1>i DEF Done, WorkerState
<1>j. ASSUME NEW l, Read(l)
      PROVE  worker'.at = l /\ worker'.money = cash
  BY <1>a, <1>j DEF Read, WorkerState
<1>k. ASSUME ReadOnly PROVE orders' = orders /\ trades' = trades /\ cash' = cash
  BY <1>k DEF ReadOnly, dbVars
<1>m. ASSUME worker' = Idle PROVE worker'.at = "idle"
  BY <1>m DEF Idle
<1>n. ASSUME WorkerFlowsKept', worker'.at \notin Reading
      PROVE  FlowInv'
  BY <1>n DEF FlowInv, CopyMissesOnlyRealtime, Reading
<1>1. CASE BeginHorizon
  <2>1. worker'.at = "idle" \/ worker'.at = "bar"
    BY <1>1, <1>a, <1>m DEF BeginHorizon, WorkerState
  <2>2. QED BY <1>1, <1>g, <2>1, FlowInvFrame DEF BeginHorizon, Reading
<1>2. CASE NextBar
  <2>1. worker'.at = "exec"  BY <1>2, <1>a DEF NextBar, WorkerState
  <2>2. QED BY <1>2, <1>g, <1>k, <2>1, FlowInvFrame DEF NextBar, Reading
<1>3. CASE EndBars
  BY <1>3, <1>g, <1>k, <1>m, FlowInvFrame DEF EndBars, Reading
<1>4. CASE ReadPending
  <2>1. worker'.at = "protect" \/ worker'.money = cash
    BY <1>4, <1>a, <1>h DEF ReadPending, WorkerState
  <2>2. QED BY <1>4, <1>g, <1>k, <2>1, FlowInvFrame DEF ReadPending, Reading
<1>5. CASE CancelPending
  <2>1. worker.order \in DOMAIN orders  BY <1>5, <1>c DEF CancelPending, At
  <2>2. FilledBuys' = FilledBuys
    BY <1>5, <1>a, <2>1, CancelledRows DEF CancelPending, FilledBuys
  <2>3. QED BY <1>5, <1>i, <2>2, FlowInvFrame DEF CancelPending, CancelOrder, Reading
<1>6. CASE ExecuteBuy
  <2> DEFINE o == worker.order
  <2>1. worker.at = "settle" /\ o \in DOMAIN orders /\ orders[o].side = "BUY"
        /\ worker'.at = "protect"
    BY <1>6, <1>c, <1>i DEF ExecuteBuy, At
  <2>2. PICK open, row : FillBuyAtomic(o, open, Debited(worker.money, o), row)
    BY <1>6 DEF ExecuteBuy
  <2> HIDE DEF o
  <2>3. CASE orders[o].status = "PENDING"
    <3>1. MarkFilled(o, open) /\ cash' = Debited(worker.money, o) /\ trades' = trades
      BY <2>2, <2>3 DEF FillBuyAtomic
    <3>2. FilledBuys' = FilledBuys \cup {o}
      BY <1>a, <2>1, <3>1, MarkedRows DEF FilledBuys
    <3>3. cash'.buys = worker.money.buys \cup {o} /\ cash'.exits = worker.money.exits
      BY <1>d, <3>1 DEF Debited, Flows
    <3>4. WorkerFlowsKept'
      BY <1>f, <2>1, <3>1, <3>2, <3>3 DEF WorkerFlowsKept, MissesOnlyRealtime, Reading
    <3>5. QED BY <1>n, <2>1, <3>4 DEF Reading
  <2>4. CASE orders[o].status # "PENDING"
    BY <1>g, <2>1, <2>2, <2>4, FlowInvFrame DEF FillBuyAtomic, Reading
  <2>5. QED BY <2>3, <2>4
<1>7. CASE ExecuteSell
  <2> DEFINE o == worker.order
  <2>1. /\ worker.at = "settle" /\ o \in DOMAIN orders /\ o \in Nat /\ orders[o].side = "SELL"
        /\ worker'.at = "protect" /\ Mine \in PositionRow
    BY <1>7, <1>c, <1>e, <1>i DEF ExecuteSell, At
  <2>2. PICK open : FillSellAtomic(o, open, Credited(worker.money), Mine)
    BY <1>7 DEF ExecuteSell
  <2> HIDE DEF o
  <2>3. CASE orders[o].status = "PENDING"
    <3>1. /\ MarkFilled(o, open) /\ cash' = Credited(worker.money)
          /\ CloseRow(orders[o].symbol, Mine, o, "SIGNAL")
      BY <2>2, <2>3 DEF FillSellAtomic
    <3>2. FilledBuys' = FilledBuys
      BY <1>a, <2>1, <3>1, MarkedRows DEF FilledBuys
    <3>3. orders[o] \in OrderRow  BY <1>a, <2>1 DEF DBTypeOK
    <3>4. orders[o].symbol \in Symbols  BY <3>3 DEF OrderRow
    <3>5. WorkerFlowsKept'
      BY <1>a, <1>d, <1>f, <2>1, <3>1, <3>2, <3>4, CreditedFlows DEF ExitReasons, Reading
    <3>6. QED BY <1>n, <2>1, <3>5 DEF Reading
  <2>4. CASE orders[o].status # "PENDING"
    BY <1>g, <2>1, <2>2, <2>4, FlowInvFrame DEF FillSellAtomic, Reading
  <2>5. QED BY <2>3, <2>4
<1>8. CASE ReadPosition
  <2>1. worker'.at = "financing" \/ worker'.money = cash
    BY <1>8, <1>a, <1>h DEF ReadPosition, WorkerState
  <2>2. QED BY <1>8, <1>g, <1>k, <2>1, FlowInvFrame DEF ReadPosition, Reading
<1>9. CASE KeepPosition
  BY <1>9, <1>g, <1>i, FlowInvFrame DEF KeepPosition, UpsertPosition, Reading
<1>10. ASSUME NEW s \in Symbols, NEW row \in PositionRow, NEW reason \in ExitReasons,
              ClosePositionAtomic(s, Credited(worker.money), row, reason),
              worker.at \in Reading, worker'.at \notin Reading
       PROVE  FlowInv'
  <2>1. FilledBuys' = FilledBuys  BY <1>10, <1>g DEF ClosePositionAtomic
  <2>2. CASE Held(s)
    BY <1>10, <1>a, <1>d, <1>f, <1>n, <2>1, <2>2, CreditedFlows, 0 \in Nat
       DEF ClosePositionAtomic
  <2>3. CASE ~Held(s)
    BY <1>10, <2>1, <2>3, FlowInvFrame DEF ClosePositionAtomic
  <2>4. QED BY <2>2, <2>3
<1>11. CASE ProtectiveExit
  <2>1. worker.at = "guard" /\ worker.sym \in Symbols /\ worker'.at = "financing"
    BY <1>11, <1>b, <1>i DEF ProtectiveExit, At
  <2>2. QED BY <1>11, <1>e, <1>10, <2>1 DEF ProtectiveExit, ExitReasons, Reading
<1>12. CASE ReadFinancing
  <2>1. worker'.at = "margin" \/ worker'.money = cash
    BY <1>12, <1>h, <1>j DEF ReadFinancing
  <2>2. QED BY <1>12, <1>g, <1>k, <2>1, FlowInvFrame DEF ReadFinancing, Reading
<1>13. CASE ChargeFinancing
  <2>1. worker.at = "charge" /\ worker'.at = "margin"
    BY <1>13, <1>i DEF ChargeFinancing, At
  <2>2. QED BY <1>13, <1>g, <2>1, FlowInvFrame DEF ChargeFinancing, SetCash, Reading
<1>14. CASE CheckMargin
  <2>1. worker'.at = "decide" \/ worker'.at = "liquidate"
    BY <1>14, <1>a, <1>h DEF CheckMargin, WorkerState
  <2>2. QED BY <1>14, <1>g, <1>k, <2>1, FlowInvFrame DEF CheckMargin, Reading
<1>15. CASE ReadLiquidation
  <2>1. worker'.money = cash  BY <1>15, <1>a DEF ReadLiquidation, WorkerState
  <2>2. QED BY <1>15, <1>g, <1>k, <2>1, FlowInvFrame DEF ReadLiquidation
<1>16. ASSUME NEW s \in Symbols, Liquidate(s)
       PROVE  FlowInv'
  <2>1. worker.at = "liquidating" /\ worker'.at = "liquidate" /\ worker.book[s] \in PositionRow
    BY <1>16, <1>a, <1>d DEF Liquidate, At, WorkerState
  <2>2. QED BY <1>16, <1>10, <2>1 DEF Liquidate, ExitReasons, Reading
<1>17. CASE EndLiquidation
  BY <1>17, <1>g, <1>i, <1>k, FlowInvFrame DEF EndLiquidation, Reading
<1>18. ASSUME NEW side \in Sides, Decide(side)
       PROVE  FlowInv'
  <2>1. worker'.at = "order"  BY <1>18, <1>a DEF Decide, WorkerState
  <2>2. QED BY <1>18, <1>g, <2>1, FlowInvFrame DEF Decide, Reading
<1>19. CASE DecideNothing
  BY <1>19, <1>g, <1>h, FlowInvFrame DEF DecideNothing, Reading
<1>20. CASE PlaceOrder
  <2> DEFINE row == [symbol |-> worker.sym, side |-> worker.side, status |-> "PENDING",
                     created |-> worker.bar, filled |-> 0,
                     hz |-> IF worker.did THEN worker.hz ELSE Unknown, decided |-> Mine.lot]
  <2>1. orders' = Append(orders, row) /\ row.status = "PENDING"
    BY <1>20 DEF PlaceOrder, AddOrder
  <2> HIDE DEF row
  <2>2. orders \in Seq(OrderRow \cup {row}) /\ row \in OrderRow \cup {row}
    BY <1>a DEF DBTypeOK
  <2>3. /\ DOMAIN orders' = DOMAIN orders \cup {Len(orders) + 1}
        /\ \A o \in DOMAIN orders : orders'[o] = orders[o]
        /\ orders'[Len(orders) + 1] = row
    BY <2>1, <2>2, InsertRow
  <2>4. Len(orders) + 1 \notin DOMAIN orders  BY <2>2, InsertRow
  <2>5. FilledBuys' = FilledBuys
    BY <2>1, <2>3, <2>4 DEF FilledBuys
  <2>6. QED BY <1>20, <1>i, <2>5, FlowInvFrame DEF PlaceOrder, Reading
<1>21. CASE AdvanceCursor
  BY <1>21, <1>g, <1>h, FlowInvFrame DEF AdvanceCursor, Reading
<1>22. CASE Abandon
  BY <1>22, <1>g, <1>m, FlowInvFrame DEF Abandon, dbVars, Reading
<1>23. CASE Select
  <2>1. PICK s \in Symbols, ready \in SUBSET Horizons, winner \in Horizons :
          SelectHorizon(s, ready, winner)
    BY <1>23 DEF Select
  <2>2. worker'.at = "begin"  BY <1>a, <2>1 DEF SelectHorizon, WorkerState
  <2>3. QED BY <1>g, <2>1, <2>2, FlowInvFrame DEF SelectHorizon, Reading
<1>24. CASE Tick
  BY <1>24, <1>g, FlowInvFrame DEF Tick, dbVars
<1>25. ASSUME NEW s \in Symbols, RealtimeTrigger(s)
       PROVE  FlowInv'
  BY <1>25, <1>g, FlowInvFrame DEF RealtimeTrigger, dbVars
<1>26. CASE RealtimeExit
  <2>1. /\ realtime \in Symbols /\ FilledBuys' = FilledBuys
        /\ worker' = worker /\ CloseRealtimePositionAtomic(realtime)
    BY <1>26, <1>a, <1>g DEF RealtimeExit, CloseRealtimePositionAtomic
  <2>2. CASE Held(realtime)
    <3>1. /\ cash' = Credited(cash)
          /\ CloseRow(realtime, positions[realtime], 0, "REALTIME")
      BY <2>1, <2>2 DEF CloseRealtimePositionAtomic
    <3>2. positions[realtime] \in PositionRow /\ "REALTIME" \in ExitReasons
      BY <1>a, <2>1 DEF DBTypeOK, ExitReasons
    <3>3. /\ WorkerFlowsKept'
          /\ DOMAIN trades' = DOMAIN trades \cup {Len(trades) + 1}
          /\ \A i \in DOMAIN trades : trades'[i] = trades[i]
          /\ trades'[Len(trades) + 1].reason = "REALTIME"
      BY <1>a, <1>d, <1>f, <2>1, <3>1, <3>2, CreditedFlows, 0 \in Nat
    <3>4. CopyMissesOnlyRealtime'
      BY <1>f, <2>1, <3>3 DEF CopyMissesOnlyRealtime, MissesOnlyRealtime, Reading
    <3>5. QED BY <3>3, <3>4 DEF FlowInv
  <2>3. CASE ~Held(realtime)
    BY <2>1, <2>3, FlowInvFrame DEF CloseRealtimePositionAtomic
  <2>4. QED BY <2>2, <2>3
<1>27. CASE UNCHANGED vars
  BY <1>27, <1>g, FlowInvFrame DEF vars
<1>28. CASE BarStep
  BY <1>28, <1>1, <1>2, <1>3, <1>4, <1>5, <1>6, <1>7, <1>8, <1>9, <1>11, <1>12, <1>13,
     <1>14, <1>15, <1>16, <1>17, <1>18, <1>19, <1>20, <1>21 DEF BarStep
<1>29. QED BY <1>22, <1>23, <1>24, <1>25, <1>26, <1>27, <1>28
           DEF Next, BarNext, RealtimeNext

(* "a realtime exit cannot overwrite" what the bar worker booked: every    *)
(* BUY it filled and every exit it made stays in the cash figure, with     *)
(* realtime exits and abandoned bars at any point.                         *)
THEOREM WorkerFlowsAreKept == Spec => []WorkerFlowsKept
<1>1. PendingInv /\ FlowInv => WorkerFlowsKept  BY DEF FlowInv
<1>2. QED
  BY <1>1, PendingInvInit, PendingInvStep, FlowInvInit, FlowInvStep, PTL DEF Spec

-----------------------------------------------------------------------------
(* The lots, with both workers running. Every step does one of six things  *)
(* to orders, lots and trades (LedgerStep); each of them keeps LotTables:  *)
(* what is held or realised was bought, what was bought is held or         *)
(* realised, and a pending SELL is of the lot its symbol still holds.      *)

BoughtFor(l, s) == l \in FilledBuys /\ orders[l].symbol = s
PendingSells(s) == {o \in PendingOrders(s) : orders[o].side = "SELL"}
SameLots(S) == \A s \in S : positions'[s].lot = positions[s].lot

(* what a step of either worker does to orders, lots and trades *)
Quiet == orders' = orders /\ trades' = trades /\ SameLots(Symbols)
Cancels(o) == o \in DOMAIN orders /\ CancelOrder(o)
Buys(s, o, open) ==
  /\ o \in PendingOrders(s) /\ orders[o].side = "BUY" /\ ~Held(s)
  /\ MarkFilled(o, open) /\ open \in Int /\ trades' = trades
  /\ positions'[s].lot = o /\ SameLots(Symbols \ {s})
WritesBack(s, l) ==
  /\ BoughtFor(l, s) /\ positions[s].lot \in {0, l}
  /\ \A o \in PendingSells(s) : l = orders[o].decided
  /\ orders' = orders /\ trades' = trades
  /\ positions'[s].lot = l /\ SameLots(Symbols \ {s})
Inserts(t) == t \in TradeRow /\ trades' = Append(trades, t)
Closes(s, t, open) ==
  /\ BoughtFor(t.lot, s) /\ positions[s].lot \in {0, t.lot} /\ t.symbol = s
  /\ Inserts(t) /\ positions'[s].lot = 0 /\ SameLots(Symbols \ {s})
  /\ \/ t.exitOrder = 0 /\ orders' = orders
     \/ /\ t.exitOrder \in PendingSells(s) /\ t.lot = orders[t.exitOrder].decided
        /\ MarkFilled(t.exitOrder, open) /\ open \in Int
Places(s, r) ==
  /\ r \in OrderRow /\ r.symbol = s /\ r.status = "PENDING" /\ positions[s].lot \in {0, r.decided}
  /\ PendingOrders(s) = {} /\ orders' = Append(orders, r)
  /\ trades' = trades /\ SameLots(Symbols)

LedgerStep ==
  \/ Quiet
  \/ \E o \in DOMAIN orders : Cancels(o)
  \/ \E s \in Symbols, o \in DOMAIN orders, open \in Int : Buys(s, o, open)
  \/ \E s \in Symbols, l \in Nat : WritesBack(s, l)
  \/ \E s \in Symbols, t \in TradeRow, open \in Int : Closes(s, t, open)
  \/ \E s \in Symbols, r \in OrderRow : Places(s, r)

LotsAreBought == \A s \in Symbols : Held(s) => BoughtFor(positions[s].lot, s)
TradesAreOfBought == \A i \in DOMAIN trades : trades[i].lot \in FilledBuys
NoneIsLost == \A o \in FilledBuys : positions[orders[o].symbol].lot = o \/ TradesOf(o) # {}
SellsOfTheLot ==
  \A s \in Symbols : \A o \in PendingSells(s) : positions[s].lot \in {0, orders[o].decided}
ExitOrdersExist == \A i \in DOMAIN trades : trades[i].exitOrder \in DOMAIN orders \cup {0}

LotTables ==
  /\ LotsAreBought /\ TradesAreOfBought /\ NoneIsLost
  /\ SellsOfTheLot /\ ExitOrdersExist /\ SellClosesItsLotOnce

(* A row's id is its place in the table.                                   *)
LEMMA OrderIds ==
  ASSUME DBTypeOK
  PROVE  /\ DOMAIN orders = 1..Len(orders) /\ Len(orders) \in Nat
         /\ \A o \in DOMAIN orders : o \in Nat /\ o # 0 /\ orders[o] \in OrderRow
                                     /\ orders[o].symbol \in Symbols
         /\ DOMAIN trades = 1..Len(trades) /\ Len(trades) \in Nat
         /\ \A i \in DOMAIN trades : trades[i] \in TradeRow
         /\ FilledBuys \subseteq DOMAIN orders
<1>1. orders \in Seq(OrderRow) /\ trades \in Seq(TradeRow)
  BY DEF DBTypeOK
<1>2. \A o \in DOMAIN orders : orders[o] \in OrderRow
  BY <1>1
<1>3. \A o \in DOMAIN orders : orders[o].symbol \in Symbols
  BY <1>2 DEF OrderRow
<1> QED
  BY <1>1, <1>2, <1>3 DEF FilledBuys

(* nothing but the worker and the clock has changed *)
LEMMA QuietKeepsLots == ASSUME LotTables, DBTypeOK, Quiet PROVE LotTables'
<1>1. orders' = orders /\ trades' = trades
  BY DEF Quiet
<1>2. FilledBuys' = FilledBuys /\ \A s \in Symbols : PendingSells(s)' = PendingSells(s)
  BY <1>1 DEF FilledBuys, PendingSells, PendingOrders
<1>3. \A o \in FilledBuys : orders[o].symbol \in Symbols
  BY OrderIds
<1>4. \A o : TradesOf(o)' = TradesOf(o)
  BY <1>1 DEF TradesOf
<1>5. LotsAreBought'
  BY <1>1, <1>2 DEF Quiet, SameLots, LotTables, LotsAreBought, BoughtFor, Held
<1>6. TradesAreOfBought' /\ ExitOrdersExist'
  BY <1>1, <1>2 DEF LotTables, TradesAreOfBought, ExitOrdersExist
<1>7. NoneIsLost'
  BY <1>1, <1>2, <1>3, <1>4 DEF Quiet, SameLots, LotTables, NoneIsLost
<1>8. SellsOfTheLot'
  BY <1>1, <1>2 DEF Quiet, SameLots, LotTables, SellsOfTheLot
<1>9. SellClosesItsLotOnce'
  BY <1>1 DEF LotTables, SellClosesItsLotOnce
<1> QED
  BY <1>5, <1>6, <1>7, <1>8, <1>9 DEF LotTables

LEMMA CancelKeepsLots ==
  ASSUME LotTables, DBTypeOK, NEW o \in DOMAIN orders, Cancels(o) PROVE LotTables'
<1>1. CASE orders[o].status # "PENDING"
  <2>1. Quiet
    BY <1>1 DEF Cancels, CancelOrder, Quiet, SameLots
  <2> QED
    BY <2>1, QuietKeepsLots
<1>2. CASE orders[o].status = "PENDING"
  <2>1. orders' = [orders EXCEPT ![o] = [orders[o] EXCEPT !.status = "CANCELLED"]]
    BY <1>2 DEF Cancels, CancelOrder, DBTypeOK
  <2>2. positions' = positions /\ trades' = trades
    BY DEF Cancels, CancelOrder
  <2>3. DOMAIN orders' = DOMAIN orders /\ \A p \in DOMAIN orders : p # o => orders'[p] = orders[p]
    BY <2>1
  <2>4. /\ orders'[o].symbol = orders[o].symbol /\ orders'[o].side = orders[o].side
        /\ orders'[o].status = "CANCELLED" /\ orders'[o].decided = orders[o].decided
    BY <2>1, OrderIds DEF OrderRow
  <2>5. FilledBuys' = FilledBuys
    BY <1>2, <2>3, <2>4 DEF FilledBuys
  <2>6. \A s \in Symbols : \A p \in PendingSells(s)' : p \in PendingSells(s) /\ orders'[p] = orders[p]
    BY <2>3, <2>4 DEF PendingSells, PendingOrders
  <2>7. \A p \in FilledBuys : orders'[p].symbol = orders[p].symbol
    BY <2>3, <2>4, OrderIds
  <2>8. \A p : TradesOf(p)' = TradesOf(p)
    BY <2>2 DEF TradesOf
  <2>9. LotsAreBought' /\ TradesAreOfBought'
    BY <2>2, <2>5, <2>7 DEF LotTables, LotsAreBought, TradesAreOfBought, BoughtFor, Held
  <2>10. NoneIsLost'
    BY <2>2, <2>5, <2>7, <2>8 DEF LotTables, NoneIsLost
  <2>11. SellsOfTheLot' /\ ExitOrdersExist'
    BY <2>2, <2>3, <2>6 DEF LotTables, SellsOfTheLot, ExitOrdersExist
  <2>12. SellClosesItsLotOnce'
    <3> SUFFICES ASSUME NEW p \in DOMAIN orders
                 PROVE  LET mine == {i \in DOMAIN trades : trades[i].exitOrder = p} IN
                        /\ mine # {} <=> orders'[p].side = "SELL" /\ orders'[p].status = "FILLED"
                        /\ \A i, j \in mine : i = j
                        /\ \A i \in mine : /\ trades[i].lot = orders'[p].decided
                                           /\ trades[i].symbol = orders'[p].symbol
      BY <2>2, <2>3 DEF SellClosesItsLotOnce
    <3>1. CASE p = o
      BY <1>2, <2>4, <3>1 DEF LotTables, SellClosesItsLotOnce
    <3>2. CASE p # o
      BY <2>3, <3>2 DEF LotTables, SellClosesItsLotOnce
    <3> QED
      BY <3>1, <3>2
  <2> QED
    BY <2>9, <2>10, <2>11, <2>12 DEF LotTables
<1> QED
  BY <1>1, <1>2

(* an UPDATE to FILLED of a pending row *)
LEMMA FilledRow ==
  ASSUME DBTypeOK, NEW s \in Symbols, NEW o \in PendingOrders(s), NEW open \in Int, MarkFilled(o, open)
  PROVE  /\ o \in DOMAIN orders /\ orders[o].status = "PENDING" /\ orders[o].symbol = s
         /\ DOMAIN orders' = DOMAIN orders
         /\ \A p \in DOMAIN orders : p # o => orders'[p] = orders[p]
         /\ orders'[o].symbol = s /\ orders'[o].side = orders[o].side
         /\ orders'[o].status = "FILLED" /\ orders'[o].decided = orders[o].decided
<1>1. o \in DOMAIN orders /\ orders[o].status = "PENDING" /\ orders[o].symbol = s
  BY DEF PendingOrders
<1>2. orders' = [orders EXCEPT ![o] = [orders[o] EXCEPT !.status = "FILLED", !.filled = open]]
  BY <1>1 DEF MarkFilled, DBTypeOK
<1>3. orders[o] \in OrderRow
  BY <1>1, OrderIds
<1>4. orders'[o] = [orders[o] EXCEPT !.status = "FILLED", !.filled = open]
  BY <1>1, <1>2
<1> QED
  BY <1>1, <1>2, <1>3, <1>4 DEF OrderRow

(* A fill opens a lot under the id of its order.                           *)
LEMMA BuyKeepsLots ==
  ASSUME LotTables, DBTypeOK, OnePendingOrder, NEW s \in Symbols, NEW o \in DOMAIN orders,
         NEW open \in Int, Buys(s, o, open)
  PROVE  LotTables'
<1>1. /\ o \in PendingOrders(s) /\ orders[o].side = "BUY" /\ ~Held(s)
      /\ MarkFilled(o, open) /\ trades' = trades
      /\ positions'[s].lot = o /\ \A x \in Symbols \ {s} : positions'[x].lot = positions[x].lot
  BY DEF Buys, SameLots
<1>2. /\ orders[o].status = "PENDING" /\ orders[o].symbol = s
      /\ DOMAIN orders' = DOMAIN orders
      /\ \A p \in DOMAIN orders : p # o => orders'[p] = orders[p]
      /\ orders'[o].symbol = s /\ orders'[o].side = "BUY"
      /\ orders'[o].status = "FILLED"
  BY <1>1, FilledRow
<1>3. FilledBuys' = FilledBuys \cup {o} /\ o \notin FilledBuys
  BY <1>1, <1>2 DEF FilledBuys
<1>4. \A p \in FilledBuys : p \in DOMAIN orders /\ p # o /\ orders'[p] = orders[p]
                            /\ orders[p].symbol \in Symbols
  BY <1>2, <1>3, OrderIds
<1>5. PendingSells(s)' = {}
  <2>1. \A p \in PendingOrders(s) : p = o
    BY <1>1 DEF OnePendingOrder
  <2> QED
    BY <1>2, <2>1 DEF PendingSells, PendingOrders
<1>6. \A x \in Symbols \ {s} : \A p \in PendingSells(x)' : p \in PendingSells(x) /\ orders'[p] = orders[p]
  BY <1>2 DEF PendingSells, PendingOrders
<1>7. \A p : TradesOf(p)' = TradesOf(p)
  BY <1>1 DEF TradesOf
<1>8. LotsAreBought'
  <2> SUFFICES ASSUME NEW x \in Symbols, Held(x)' PROVE BoughtFor(positions[x].lot, x)'
    BY DEF LotsAreBought
  <2>1. CASE x = s
    BY <1>1, <1>2, <1>3, <2>1 DEF BoughtFor
  <2>2. CASE x # s
    <3>1. positions'[x].lot = positions[x].lot /\ Held(x)
      BY <1>1, <2>2 DEF Held
    <3>2. BoughtFor(positions[x].lot, x)
      BY <3>1 DEF LotTables, LotsAreBought
    <3> QED
      BY <1>3, <1>4, <3>1, <3>2 DEF BoughtFor
  <2> QED
    BY <2>1, <2>2
<1>9. TradesAreOfBought' /\ ExitOrdersExist'
  BY <1>1, <1>2, <1>3 DEF LotTables, TradesAreOfBought, ExitOrdersExist
<1>10. NoneIsLost'
  <2> SUFFICES ASSUME NEW p \in FilledBuys' PROVE positions'[orders'[p].symbol].lot = p \/ TradesOf(p)' # {}
    BY DEF NoneIsLost
  <2>1. CASE p = o
    BY <1>1, <1>2, <2>1
  <2>2. CASE p # o
    <3>1. p \in FilledBuys /\ p # 0
      BY <1>3, <2>2, OrderIds
    <3>2. positions[orders[p].symbol].lot = p \/ TradesOf(p) # {}
      BY <3>1 DEF LotTables, NoneIsLost
    <3>3. CASE TradesOf(p) # {}
      BY <1>7, <3>3
    <3>4. CASE positions[orders[p].symbol].lot = p
      <4>1. Held(orders[p].symbol)
        BY <3>1, <3>4 DEF Held
      <4>2. orders[p].symbol # s
        BY <1>1, <4>1
      <4> QED
        BY <1>1, <1>4, <3>1, <3>4, <4>2
    <3> QED
      BY <3>2, <3>3, <3>4
  <2> QED
    BY <2>1, <2>2
<1>11. SellsOfTheLot'
  BY <1>1, <1>5, <1>6 DEF LotTables, SellsOfTheLot
<1>12. SellClosesItsLotOnce'
  <2> SUFFICES ASSUME NEW p \in DOMAIN orders
               PROVE  LET mine == {i \in DOMAIN trades : trades[i].exitOrder = p} IN
                      /\ mine # {} <=> orders'[p].side = "SELL" /\ orders'[p].status = "FILLED"
                      /\ \A i, j \in mine : i = j
                      /\ \A i \in mine : /\ trades[i].lot = orders'[p].decided
                                         /\ trades[i].symbol = orders'[p].symbol
    BY <1>1, <1>2 DEF SellClosesItsLotOnce
  <2>1. CASE p = o
    BY <1>1, <1>2, <2>1 DEF LotTables, SellClosesItsLotOnce
  <2>2. CASE p # o
    BY <1>2, <2>2 DEF LotTables, SellClosesItsLotOnce
  <2> QED
    BY <2>1, <2>2
<1> QED
  BY <1>8, <1>9, <1>10, <1>11, <1>12 DEF LotTables

(* A row written back after a close brings its lot back.                   *)
LEMMA WriteBackKeepsLots ==
  ASSUME LotTables, DBTypeOK, NEW s \in Symbols, NEW l \in Nat, WritesBack(s, l)
  PROVE  LotTables'
<1>1. /\ BoughtFor(l, s) /\ positions[s].lot \in {0, l}
      /\ orders' = orders /\ trades' = trades
      /\ positions'[s].lot = l /\ \A x \in Symbols \ {s} : positions'[x].lot = positions[x].lot
      /\ \A o \in PendingSells(s) : l = orders[o].decided
  BY DEF WritesBack, SameLots
<1>2. FilledBuys' = FilledBuys /\ \A x \in Symbols : PendingSells(x)' = PendingSells(x)
  BY <1>1 DEF FilledBuys, PendingSells, PendingOrders
<1>3. \A p : TradesOf(p)' = TradesOf(p)
  BY <1>1 DEF TradesOf
<1>4. LotsAreBought'
  <2> SUFFICES ASSUME NEW x \in Symbols, Held(x)' PROVE BoughtFor(positions[x].lot, x)'
    BY DEF LotsAreBought
  <2>1. CASE x = s
    BY <1>1, <1>2, <2>1 DEF BoughtFor
  <2>2. CASE x # s
    BY <1>1, <1>2, <2>2 DEF BoughtFor, LotTables, LotsAreBought, Held
  <2> QED
    BY <2>1, <2>2
<1>5. TradesAreOfBought' /\ ExitOrdersExist' /\ SellClosesItsLotOnce'
  BY <1>1, <1>2 DEF LotTables, TradesAreOfBought, ExitOrdersExist, SellClosesItsLotOnce
<1>6. NoneIsLost'
  <2> SUFFICES ASSUME NEW p \in FilledBuys PROVE positions'[orders[p].symbol].lot = p \/ TradesOf(p) # {}
    BY <1>1, <1>2, <1>3 DEF NoneIsLost
  <2>1. p # 0 /\ orders[p].symbol \in Symbols
    BY OrderIds
  <2>2. positions[orders[p].symbol].lot = p \/ TradesOf(p) # {}
    BY DEF LotTables, NoneIsLost
  <2>3. CASE orders[p].symbol = s
    BY <1>1, <2>1, <2>2, <2>3
  <2>4. CASE orders[p].symbol # s
    BY <1>1, <2>1, <2>2, <2>4
  <2> QED
    BY <2>3, <2>4
<1>7. SellsOfTheLot'
  <2> SUFFICES ASSUME NEW x \in Symbols, NEW o \in PendingSells(x)
               PROVE  positions'[x].lot \in {0, orders[o].decided}
    BY <1>1, <1>2 DEF SellsOfTheLot
  <2>1. CASE x = s
    BY <1>1, <2>1
  <2>2. CASE x # s
    BY <1>1, <2>2 DEF LotTables, SellsOfTheLot
  <2> QED
    BY <2>1, <2>2
<1> QED
  BY <1>4, <1>5, <1>6, <1>7 DEF LotTables

(* the row a step of inserting a trade leaves *)
LEMMA InsertedTrade ==
  ASSUME DBTypeOK, NEW t \in TradeRow, Inserts(t)
  PROVE  /\ DOMAIN trades' = DOMAIN trades \cup {Len(trades) + 1}
         /\ Len(trades) + 1 \notin DOMAIN trades
         /\ \A i \in DOMAIN trades : trades'[i] = trades[i]
         /\ trades'[Len(trades) + 1] = t
         /\ \A l : TradesOf(l)' = IF t.lot = l THEN TradesOf(l) \cup {Len(trades) + 1} ELSE TradesOf(l)
<1>1. trades \in Seq(TradeRow) /\ trades' = Append(trades, t)
  BY DEF DBTypeOK, Inserts
<1>2. /\ DOMAIN trades' = DOMAIN trades \cup {Len(trades) + 1}
      /\ Len(trades) + 1 \notin DOMAIN trades
      /\ \A i \in DOMAIN trades : trades'[i] = trades[i]
      /\ trades'[Len(trades) + 1] = t
  BY <1>1, InsertRow
<1> QED
  BY <1>2 DEF TradesOf

(* A close realises the lot and, if a SELL ordered it, the SELL's lot.     *)
LEMMA CloseKeepsLots ==
  ASSUME LotTables, DBTypeOK, OnePendingOrder, NEW s \in Symbols, NEW t \in TradeRow, NEW open \in Int,
         Closes(s, t, open)
  PROVE  LotTables'
<1> DEFINE n == Len(trades) + 1
           x == t.exitOrder
<1>1. /\ BoughtFor(t.lot, s) /\ positions[s].lot \in {0, t.lot} /\ t.symbol = s /\ Inserts(t)
      /\ positions'[s].lot = 0 /\ \A y \in Symbols \ {s} : positions'[y].lot = positions[y].lot
      /\ \/ x = 0 /\ orders' = orders
         \/ x \in PendingSells(s) /\ t.lot = orders[x].decided /\ MarkFilled(x, open)
  BY DEF Closes, SameLots
<1>2. /\ DOMAIN trades' = DOMAIN trades \cup {n} /\ n \notin DOMAIN trades
      /\ \A i \in DOMAIN trades : trades'[i] = trades[i]
      /\ trades'[n] = t
      /\ \A l : TradesOf(l)' = IF t.lot = l THEN TradesOf(l) \cup {n} ELSE TradesOf(l)
  BY <1>1, InsertedTrade
<1> HIDE DEF n, x
<1>3. /\ DOMAIN orders' = DOMAIN orders
      /\ x \in DOMAIN orders \cup {0}
      /\ \A p \in DOMAIN orders : /\ p # x => orders'[p] = orders[p]
                                  /\ orders'[p].symbol = orders[p].symbol
                                  /\ orders'[p].side = orders[p].side
                                  /\ orders'[p].decided = orders[p].decided
      /\ x # 0 => /\ orders[x].status = "PENDING" /\ orders[x].symbol = s
                  /\ orders[x].side = "SELL" /\ t.lot = orders[x].decided
                  /\ orders'[x].status = "FILLED"
  <2>1. CASE x = 0 /\ orders' = orders
    BY <2>1
  <2>2. CASE x \in PendingSells(s) /\ t.lot = orders[x].decided /\ MarkFilled(x, open)
    <3>1. x \in PendingOrders(s) /\ orders[x].side = "SELL"
      BY <2>2 DEF PendingSells
    <3>2. /\ x \in DOMAIN orders /\ orders[x].status = "PENDING" /\ orders[x].symbol = s
          /\ DOMAIN orders' = DOMAIN orders
          /\ \A p \in DOMAIN orders : p # x => orders'[p] = orders[p]
          /\ orders'[x].symbol = s /\ orders'[x].side = orders[x].side
          /\ orders'[x].status = "FILLED" /\ orders'[x].decided = orders[x].decided
      BY <2>2, <3>1, FilledRow
    <3> QED
      BY <2>2, <3>1, <3>2
  <2> QED
    BY <1>1, <2>1, <2>2
<1>4. \A p \in DOMAIN orders : p # 0
  BY OrderIds
<1>5. FilledBuys' = FilledBuys
  BY <1>3, <1>4 DEF FilledBuys
<1>6. \A p \in FilledBuys : p \in DOMAIN orders /\ orders[p].symbol \in Symbols /\ p # 0
  BY OrderIds
<1>7. \A y \in Symbols : \A p \in PendingSells(y)' : p \in PendingSells(y) /\ orders'[p].decided = orders[p].decided
  BY <1>3, <1>4 DEF PendingSells, PendingOrders
<1>8. LotsAreBought'
  <2> SUFFICES ASSUME NEW y \in Symbols, Held(y)' PROVE BoughtFor(positions[y].lot, y)'
    BY DEF LotsAreBought
  <2>1. y # s
    BY <1>1 DEF Held
  <2> QED
    BY <1>1, <1>3, <1>5, <1>6, <2>1 DEF BoughtFor, LotTables, LotsAreBought, Held
<1>9. TradesAreOfBought'
  <2>1. t.lot \in FilledBuys
    BY <1>1 DEF BoughtFor
  <2> QED
    BY <1>2, <1>5, <2>1 DEF LotTables, TradesAreOfBought
<1>10. ExitOrdersExist'
  BY <1>2, <1>3 DEF LotTables, ExitOrdersExist, x
<1>11. NoneIsLost'
  <2> SUFFICES ASSUME NEW p \in FilledBuys PROVE positions'[orders'[p].symbol].lot = p \/ TradesOf(p)' # {}
    BY <1>5 DEF NoneIsLost
  <2>1. orders'[p].symbol = orders[p].symbol /\ orders[p].symbol \in Symbols /\ p # 0
    BY <1>3, <1>6
  <2>2. positions[orders[p].symbol].lot = p \/ TradesOf(p) # {}
    BY DEF LotTables, NoneIsLost
  <2>3. TradesOf(p) \subseteq TradesOf(p)'
    BY <1>2
  <2>4. CASE p = t.lot
    BY <1>2, <2>4
  <2>5. CASE p # t.lot
    <3>1. positions[orders[p].symbol].lot = p => orders[p].symbol # s
      BY <1>1, <2>1, <2>5
    <3> QED
      BY <1>1, <2>1, <2>2, <2>3, <3>1
  <2> QED
    BY <2>4, <2>5
<1>12. SellsOfTheLot'
  <2> SUFFICES ASSUME NEW y \in Symbols, NEW p \in PendingSells(y)'
               PROVE  positions'[y].lot \in {0, orders'[p].decided}
    BY DEF SellsOfTheLot
  <2>1. CASE y = s
    BY <1>1, <2>1
  <2>2. CASE y # s
    BY <1>1, <1>7, <2>2 DEF LotTables, SellsOfTheLot
  <2> QED
    BY <2>1, <2>2
<1>13. SellClosesItsLotOnce'
  <2> SUFFICES ASSUME NEW p \in DOMAIN orders
               PROVE  LET mine == {i \in DOMAIN trades' : trades'[i].exitOrder = p} IN
                      /\ mine # {} <=> orders'[p].side = "SELL" /\ orders'[p].status = "FILLED"
                      /\ \A i, j \in mine : i = j
                      /\ \A i \in mine : /\ trades'[i].lot = orders'[p].decided
                                         /\ trades'[i].symbol = orders'[p].symbol
    BY <1>3 DEF SellClosesItsLotOnce
  <2> DEFINE old == {i \in DOMAIN trades : trades[i].exitOrder = p}
             mine == {i \in DOMAIN trades' : trades'[i].exitOrder = p}
  <2>1. /\ old # {} <=> orders[p].side = "SELL" /\ orders[p].status = "FILLED"
        /\ \A i, j \in old : i = j
        /\ \A i \in old : trades[i].lot = orders[p].decided /\ trades[i].symbol = orders[p].symbol
    BY DEF LotTables, SellClosesItsLotOnce
  <2>2. CASE p = x
    <3>1. old = {}
      BY <1>3, <1>4, <2>1, <2>2
    <3>2. mine = {n}
      BY <1>2, <2>2, <3>1 DEF x
    <3> HIDE DEF mine, old
    <3>3. /\ orders'[p].side = "SELL" /\ orders'[p].status = "FILLED"
          /\ trades'[n].lot = orders'[p].decided /\ trades'[n].symbol = orders'[p].symbol
      BY <1>1, <1>2, <1>3, <1>4, <2>2
    <3>4. /\ mine # {} /\ \A i, j \in mine : i = j
          /\ \A i \in mine : trades'[i].lot = orders'[p].decided /\ trades'[i].symbol = orders'[p].symbol
      BY <3>2, <3>3
    <3> QED
      BY <3>3, <3>4 DEF mine
  <2>3. CASE p # x
    <3>1. mine = old
      BY <1>2, <2>3 DEF x
    <3>2. orders'[p] = orders[p]
      BY <1>3, <2>3
    <3>3. \A i \in old : trades'[i] = trades[i]
      BY <1>2
    <3> HIDE DEF mine, old
    <3>4. /\ mine # {} <=> orders'[p].side = "SELL" /\ orders'[p].status = "FILLED"
          /\ \A i, j \in mine : i = j
          /\ \A i \in mine : trades'[i].lot = orders'[p].decided /\ trades'[i].symbol = orders'[p].symbol
      BY <2>1, <3>1, <3>2, <3>3
    <3> QED
      BY <3>4 DEF mine
  <2> QED
    BY <2>2, <2>3
<1> QED
  BY <1>8, <1>9, <1>10, <1>11, <1>12, <1>13 DEF LotTables

(* A SELL is placed for the lot held, or for the one just closed.          *)
LEMMA PlaceKeepsLots ==
  ASSUME LotTables, DBTypeOK, NEW s \in Symbols, NEW r \in OrderRow, Places(s, r) PROVE LotTables'
<1> DEFINE n == Len(orders) + 1
<1>1. /\ r.symbol = s /\ r.status = "PENDING" /\ positions[s].lot \in {0, r.decided}
      /\ PendingOrders(s) = {} /\ orders' = Append(orders, r) /\ trades' = trades
      /\ \A x \in Symbols : positions'[x].lot = positions[x].lot
  BY DEF Places, SameLots
<1>2. /\ DOMAIN orders' = DOMAIN orders \cup {n} /\ n \notin DOMAIN orders
      /\ \A p \in DOMAIN orders : orders'[p] = orders[p]
      /\ orders'[n] = r
  BY <1>1, InsertRow DEF DBTypeOK
<1>3. n # 0 /\ n \in Nat
  BY OrderIds
<1> HIDE DEF n
<1>4. FilledBuys' = FilledBuys
  BY <1>1, <1>2 DEF FilledBuys
<1>5. \A p \in FilledBuys : p \in DOMAIN orders /\ orders'[p] = orders[p] /\ orders[p].symbol \in Symbols
  BY <1>2, OrderIds
<1>6. \A p : TradesOf(p)' = TradesOf(p)
  BY <1>1 DEF TradesOf
<1>7. LotsAreBought' /\ TradesAreOfBought'
  BY <1>1, <1>4, <1>5 DEF LotTables, LotsAreBought, TradesAreOfBought, BoughtFor, Held
<1>8. NoneIsLost'
  BY <1>1, <1>4, <1>5, <1>6 DEF LotTables, NoneIsLost
<1>9. ExitOrdersExist'
  BY <1>1, <1>2 DEF LotTables, ExitOrdersExist
<1>10. SellsOfTheLot'
  <2> SUFFICES ASSUME NEW y \in Symbols, NEW p \in PendingSells(y)'
               PROVE  positions'[y].lot \in {0, orders'[p].decided}
    BY DEF SellsOfTheLot
  <2>1. CASE p = n
    <3>1. y = s
      BY <1>1, <1>2, <2>1 DEF PendingSells, PendingOrders
    <3> QED
      BY <1>1, <1>2, <2>1, <3>1
  <2>2. CASE p # n
    <3>1. p \in PendingSells(y) /\ orders'[p] = orders[p]
      BY <1>2, <2>2 DEF PendingSells, PendingOrders
    <3> QED
      BY <1>1, <3>1 DEF LotTables, SellsOfTheLot
  <2> QED
    BY <2>1, <2>2
<1>11. SellClosesItsLotOnce'
  <2> SUFFICES ASSUME NEW p \in DOMAIN orders'
               PROVE  LET mine == {i \in DOMAIN trades : trades[i].exitOrder = p} IN
                      /\ mine # {} <=> orders'[p].side = "SELL" /\ orders'[p].status = "FILLED"
                      /\ \A i, j \in mine : i = j
                      /\ \A i \in mine : /\ trades[i].lot = orders'[p].decided
                                         /\ trades[i].symbol = orders'[p].symbol
    BY <1>1 DEF SellClosesItsLotOnce
  <2>1. CASE p = n
    <3>1. {i \in DOMAIN trades : trades[i].exitOrder = p} = {}
      BY <1>2, <1>3, <2>1 DEF LotTables, ExitOrdersExist
    <3> QED
      BY <1>1, <1>2, <2>1, <3>1
  <2>2. CASE p # n
    <3>1. p \in DOMAIN orders /\ orders'[p] = orders[p]
      BY <1>2, <2>2
    <3> QED
      BY <3>1 DEF LotTables, SellClosesItsLotOnce
  <2> QED
    BY <2>1, <2>2
<1> QED
  BY <1>7, <1>8, <1>9, <1>10, <1>11 DEF LotTables

LEMMA LedgerStepKeepsLots ==
  ASSUME LotTables, DBTypeOK, OnePendingOrder, LedgerStep PROVE LotTables'
BY QuietKeepsLots, CancelKeepsLots, BuyKeepsLots, WriteBackKeepsLots, CloseKeepsLots, PlaceKeepsLots
DEF LedgerStep
-----------------------------------------------------------------------------
(* What makes every step a LedgerStep: the rows a worker holds copies of   *)
(* are of the lot its symbol holds or held last, since between its read    *)
(* and its write the realtime worker may close a position but nobody opens *)
(* one (CopiesInv).                                                        *)

(* the symbols whose row the worker read and will act on *)
Copying == {"settle", "guard", "order", "liquidate", "liquidating"}
Copied ==
  IF worker.at \in {"liquidate", "liquidating"} THEN worker.liq
  ELSE IF worker.at \in {"settle", "guard", "order"} THEN {worker.sym} ELSE {}

SettlesItsOwn == worker.at = "settle" => worker.order \in PendingOrders(worker.sym)
CopiesAreOfTheLot ==
  \A s \in Copied :
    IF worker.book[s].lot = 0 THEN ~Held(s)
    ELSE BoughtFor(worker.book[s].lot, s) /\ positions[s].lot \in {0, worker.book[s].lot}
CopiesAreSold ==
  \A s \in Copied : \A o \in PendingSells(s) :
    worker.book[s].lot # 0 => worker.book[s].lot = orders[o].decided
CopiesInv == SettlesItsOwn /\ CopiesAreOfTheLot /\ CopiesAreSold

(* The worker holds no copy.                                               *)
LEMMA CopiesForgotten == ASSUME worker'.at \notin Copying PROVE CopiesInv'
BY DEF CopiesInv, SettlesItsOwn, CopiesAreOfTheLot, CopiesAreSold, Copied, Copying

(* A position may be closed while the worker holds a copy of it.           *)
LEMMA CopiesKept ==
  ASSUME CopiesInv, orders' = orders, Copied' \subseteq Copied,
         \A s \in Copied' : /\ worker'.book[s] = worker.book[s]
                            /\ positions'[s].lot \in {0, positions[s].lot},
         worker'.at = "settle" => worker' = worker
  PROVE  CopiesInv'
<1>1. \A s : PendingSells(s)' = PendingSells(s) /\ PendingOrders(s)' = PendingOrders(s)
  BY DEF PendingSells, PendingOrders
<1>2. FilledBuys' = FilledBuys
  BY DEF FilledBuys
<1>3. SettlesItsOwn'
  BY <1>1 DEF CopiesInv, SettlesItsOwn
<1>4. CopiesAreOfTheLot'
  BY <1>2 DEF CopiesInv, CopiesAreOfTheLot, BoughtFor, Held
<1>5. CopiesAreSold'
  BY <1>1 DEF CopiesInv, CopiesAreSold
<1> QED
  BY <1>3, <1>4, <1>5 DEF CopiesInv

(* What was just read is what is there.                                    *)
LEMMA CopiesRead ==
  ASSUME LotTables, orders' = orders, positions' = positions, Copied' \subseteq Symbols,
         \A s \in Copied' : worker'.book[s].lot = positions[s].lot,
         worker'.at = "settle" => worker'.order \in PendingOrders(worker'.sym)
  PROVE  CopiesInv'
<1>1. \A s : PendingSells(s)' = PendingSells(s) /\ PendingOrders(s)' = PendingOrders(s)
  BY DEF PendingSells, PendingOrders
<1>2. FilledBuys' = FilledBuys
  BY DEF FilledBuys
<1>3. SettlesItsOwn'
  BY <1>1 DEF SettlesItsOwn
<1>4. CopiesAreOfTheLot'
  BY <1>2 DEF LotTables, LotsAreBought, CopiesAreOfTheLot, BoughtFor, Held
<1>5. CopiesAreSold'
  BY <1>1 DEF LotTables, SellsOfTheLot, CopiesAreSold
<1> QED
  BY <1>3, <1>4, <1>5 DEF CopiesInv

(* close_position_atomic of a row that is still of the lot.                *)
LEMMA CloseIsALedgerStep ==
  ASSUME DBTypeOK, NEW s \in Symbols, NEW m, NEW row \in PositionRow, NEW reason \in ExitReasons,
         ClosePositionAtomic(s, m, row, reason),
         Held(s) => BoughtFor(row.lot, s) /\ positions[s].lot = row.lot
  PROVE  /\ LedgerStep /\ orders' = orders
         /\ \A x \in Symbols : positions'[x].lot \in {0, positions[x].lot}
         /\ \A x \in Symbols \ {s} : positions'[x].lot = positions[x].lot
<1>1. CASE ~Held(s)
  BY <1>1 DEF ClosePositionAtomic, LedgerStep, Quiet, SameLots
<1>2. CASE Held(s)
  <2> DEFINE t == [symbol |-> s, lot |-> row.lot, entryOrder |-> positions[s].entryOrder,
                   exitOrder |-> 0, reason |-> reason]
  <2>1. orders' = orders /\ trades' = Append(trades, t) /\ positions' = [positions EXCEPT ![s] = NoPosition]
    BY <1>2 DEF ClosePositionAtomic, CloseRow
  <2>2. positions[s] \in PositionRow /\ positions \in [Symbols -> PositionRow]
    BY DEF DBTypeOK
  <2>3. t \in TradeRow
    BY <2>2 DEF TradeRow, PositionRow
  <2>4. positions'[s].lot = 0 /\ \A x \in Symbols \ {s} : positions'[x].lot = positions[x].lot
    BY <2>1, <2>2 DEF NoPosition
  <2>5. t.lot = row.lot /\ t.symbol = s /\ t.exitOrder = 0
    OBVIOUS
  <2> HIDE DEF t
  <2>6. Closes(s, t, 0)
    BY <1>2, <2>1, <2>3, <2>4, <2>5 DEF Closes, Inserts, SameLots
  <2>7. LedgerStep
    BY <2>3, <2>6 DEF LedgerStep
  <2> QED
    BY <2>1, <2>4, <2>7
<1> QED
  BY <1>1, <1>2

(* A step that leaves the tables alone.                                    *)
LEMMA QuietStep == ASSUME orders' = orders, trades' = trades, positions' = positions PROVE LedgerStep
BY DEF LedgerStep, Quiet, SameLots

(* Nothing is held, realised or copied at first.                           *)
LEMMA LotInvInit == Init => LotTables /\ CopiesInv
<1> SUFFICES ASSUME Init PROVE LotTables /\ CopiesInv
  OBVIOUS
<1>1. /\ orders = <<>> /\ trades = <<>> /\ \A s \in Symbols : ~Held(s)
      /\ worker.at = "idle"
  BY DEF Init, DBInit, Held, NoPosition, Idle
<1>2. LotTables
  BY <1>1 DEF LotTables, LotsAreBought, TradesAreOfBought, NoneIsLost, SellsOfTheLot, ExitOrdersExist,
              SellClosesItsLotOnce, FilledBuys, PendingSells, PendingOrders
<1>3. CopiesInv
  BY <1>1 DEF CopiesInv, SettlesItsOwn, CopiesAreOfTheLot, CopiesAreSold, Copied
<1> QED
  BY <1>2, <1>3

(* every step of the two workers is one the tables bear, whatever they     *)
(* hold copies of                                                          *)
LEMMA EveryStepIsALedgerStep ==
  PendingInv /\ LotTables /\ CopiesInv /\ [Next]_vars => LedgerStep /\ CopiesInv'
<1> SUFFICES ASSUME PendingInv, LotTables, CopiesInv, [Next]_vars PROVE LedgerStep /\ CopiesInv'
  OBVIOUS
<1>a. DBTypeOK /\ worker \in WorkerState /\ realtime \in Symbols \cup {NoSymbol}
  BY DEF PendingInv, TypeOK
<1>b. /\ worker.at \in Labels /\ worker.sym \in Symbols \cup {NoSymbol} /\ worker.order \in Nat
      /\ worker.book \in [Symbols -> PositionRow] /\ worker.liq \in SUBSET Symbols
      /\ worker.hz \in Horizons /\ worker.bar \in Nat /\ worker.side \in Sides
  BY <1>a DEF WorkerState
<1>c. worker.at # "idle" => worker.sym \in Symbols /\ Mine \in PositionRow
  BY <1>b DEF PendingInv, BusyHasSymbol, At, Mine
<1>d. positions \in [Symbols -> PositionRow] /\ \A s \in Symbols : positions[s] \in PositionRow /\ positions[s].lot \in Nat
  BY <1>a DEF DBTypeOK, PositionRow
<1>h. ASSUME NEW l, Goto(l) PROVE worker'.at = l
  BY <1>a, <1>h DEF Goto, WorkerState
<1>i. ASSUME NEW l, Done(l) PROVE worker'.at = l
  BY <1>a, <1>i DEF Done, WorkerState
<1>j. ASSUME NEW l, Read(l) PROVE worker'.at = l
  BY <1>a, <1>j DEF Read, WorkerState
<1>k. ASSUME ReadOnly PROVE orders' = orders /\ trades' = trades /\ positions' = positions
  BY <1>k DEF ReadOnly, dbVars
<1>m. ASSUME worker' = Idle PROVE worker'.at = "idle"
  BY <1>m DEF Idle
<1>n. ASSUME orders' = orders, trades' = trades, positions' = positions, worker'.at \notin Copying
      PROVE  LedgerStep /\ CopiesInv'
  BY <1>n, QuietStep, CopiesForgotten
<1>1. CASE BeginHorizon
  <2>1. worker'.at = "idle" \/ worker'.at = "bar"
    BY <1>1, <1>a, <1>m DEF BeginHorizon, WorkerState
  <2> QED  BY <1>1, <1>n, <2>1 DEF BeginHorizon, Copying
<1>2. CASE NextBar
  <2>1. worker'.at = "exec"  BY <1>2, <1>a DEF NextBar, WorkerState
  <2> QED  BY <1>2, <1>k, <1>n, <2>1 DEF NextBar, Copying
<1>3. CASE EndBars
  BY <1>3, <1>k, <1>m, <1>n DEF EndBars, Copying
<1>4. CASE ReadPending
  <2>1. orders' = orders /\ trades' = trades /\ positions' = positions
    BY <1>4, <1>k DEF ReadPending
  <2>2. CASE PendingOrder(worker.sym) = 0
    BY <1>4, <1>h, <1>n, <2>1, <2>2 DEF ReadPending, Copying
  <2>3. CASE PendingOrder(worker.sym) # 0
    <3>1. /\ worker'.at = "settle" /\ worker'.order = PendingOrder(worker.sym)
          /\ worker'.book = positions /\ worker'.sym = worker.sym
      BY <1>4, <1>a, <2>3 DEF ReadPending, WorkerState
    <3>2. worker.sym \in Symbols
      BY <1>4, <1>c DEF ReadPending, At
    <3>3. PendingOrder(worker.sym) \in PendingOrders(worker.sym)
      <4>1. TypeOK /\ \A o, p \in PendingOrders(worker.sym) : o = p
        BY <3>2 DEF PendingInv, OnePendingOrder
      <4> QED
        BY <2>3, <3>2, <4>1, PendingOrderRow
    <3>4. Copied' \subseteq Symbols
      BY <3>1, <3>2 DEF Copied
    <3>5. CopiesInv'
      BY <2>1, <3>1, <3>3, <3>4, CopiesRead
    <3> QED
      BY <2>1, <3>5, QuietStep
  <2> QED  BY <2>2, <2>3
<1>5. CASE CancelPending
  <2>1. worker.order \in DOMAIN orders /\ CancelOrder(worker.order)
    BY <1>5 DEF CancelPending, PendingInv, OrderReadExists
  <2>2. LedgerStep
    BY <2>1 DEF LedgerStep, Cancels
  <2> QED  BY <1>5, <1>i, <2>2, CopiesForgotten DEF CancelPending, Copying
<1>6. CASE ExecuteBuy
  <2> DEFINE o == worker.order
             s == worker.sym
             row == [lot |-> o, entryOrder |-> o, held |-> 0, hz |-> FillHorizon(o), bar |-> worker.bar]
  <2>1. /\ worker.at = "settle" /\ orders[o].side = "BUY" /\ worker.book[s].lot = 0 /\ worker'.at = "protect"
        /\ FillBuyAtomic(o, OpenOf(worker.hz, worker.bar), Debited(worker.money, o), row)
    BY <1>6, <1>i DEF ExecuteBuy, At, Mine
  <2>2. o \in PendingOrders(s) /\ s \in Symbols /\ s \in Copied
    BY <1>c, <2>1 DEF CopiesInv, SettlesItsOwn, Copied
  <2>3. o \in DOMAIN orders /\ orders[o].status = "PENDING" /\ orders[o].symbol = s
    BY <2>2 DEF PendingOrders
  <2>4. ~Held(s)
    BY <2>1, <2>2 DEF CopiesInv, CopiesAreOfTheLot
  <2>5. OpenOf(worker.hz, worker.bar) \in Int
    BY <1>b, LabAssumption DEF OpenOf
  <2>6. row.lot = o
    OBVIOUS
  <2> HIDE DEF o, s, row
  <2>7. /\ MarkFilled(o, OpenOf(worker.hz, worker.bar)) /\ trades' = trades
        /\ positions' = [positions EXCEPT ![s] = row]
    BY <2>1, <2>3 DEF FillBuyAtomic
  <2>8. positions'[s].lot = o /\ SameLots(Symbols \ {s})
    BY <1>d, <2>2, <2>6, <2>7 DEF SameLots
  <2>9. Buys(s, o, OpenOf(worker.hz, worker.bar))
    BY <2>1, <2>2, <2>4, <2>5, <2>7, <2>8 DEF Buys
  <2> QED
    BY <2>1, <2>2, <2>3, <2>5, <2>9, CopiesForgotten DEF LedgerStep, Copying
<1>7. CASE ExecuteSell
  <2> DEFINE o == worker.order
             s == worker.sym
             open == OpenOf(worker.hz, worker.bar)
             t == [symbol |-> s, lot |-> Mine.lot, entryOrder |-> positions[s].entryOrder,
                   exitOrder |-> o, reason |-> "SIGNAL"]
  <2>1. /\ worker.at = "settle" /\ orders[o].side = "SELL" /\ worker.book[s].lot # 0 /\ worker'.at = "protect"
        /\ FillSellAtomic(o, open, Credited(worker.money), Mine)
    BY <1>7, <1>i DEF ExecuteSell, At, Mine
  <2>2. o \in PendingOrders(s) /\ s \in Symbols /\ s \in Copied
    BY <1>c, <2>1 DEF CopiesInv, SettlesItsOwn, Copied
  <2>3. o \in DOMAIN orders /\ orders[o].status = "PENDING" /\ orders[o].symbol = s /\ o \in PendingSells(s)
    BY <2>1, <2>2 DEF PendingOrders, PendingSells
  <2>4. /\ BoughtFor(worker.book[s].lot, s) /\ positions[s].lot \in {0, worker.book[s].lot}
        /\ worker.book[s].lot = orders[o].decided
    BY <2>1, <2>2, <2>3 DEF CopiesInv, CopiesAreOfTheLot, CopiesAreSold
  <2>5. open \in Int
    BY <1>b, LabAssumption DEF OpenOf
  <2>6. /\ MarkFilled(o, open) /\ trades' = Append(trades, t)
        /\ positions' = [positions EXCEPT ![s] = NoPosition]
    BY <2>1, <2>3 DEF FillSellAtomic, CloseRow
  <2>7. Mine.lot = worker.book[s].lot /\ Mine \in PositionRow
    BY <1>c, <2>1 DEF Mine
  <2>8. t \in TradeRow
    BY <1>b, <1>d, <2>2, <2>7 DEF TradeRow, PositionRow, ExitReasons
  <2>9. t.lot = worker.book[s].lot /\ t.symbol = s /\ t.exitOrder = o
    BY <2>7
  <2> HIDE DEF o, s, open, t
  <2>10. positions'[s].lot = 0 /\ SameLots(Symbols \ {s})
    BY <1>d, <2>2, <2>6 DEF SameLots, NoPosition
  <2>11. Closes(s, t, open)
    BY <2>3, <2>4, <2>5, <2>6, <2>8, <2>9, <2>10 DEF Closes, Inserts
  <2> QED
    BY <2>1, <2>2, <2>5, <2>8, <2>11, CopiesForgotten DEF LedgerStep, Copying
<1>8. CASE ReadPosition
  <2>1. orders' = orders /\ trades' = trades /\ positions' = positions
    BY <1>8, <1>k DEF ReadPosition
  <2>2. CASE ~Held(worker.sym)
    BY <1>8, <1>h, <1>n, <2>1, <2>2 DEF ReadPosition, Copying
  <2>3. CASE Held(worker.sym)
    <3>1. worker.sym \in Symbols
      BY <1>8, <1>c DEF ReadPosition, At
    <3>2. /\ worker'.at = "guard" /\ worker'.sym = worker.sym
          /\ worker'.book = [positions EXCEPT ![worker.sym] = [positions[worker.sym] EXCEPT !.held = @ + 1]]
      BY <1>8, <1>a, <1>d, <2>3, <3>1 DEF ReadPosition, WorkerState
    <3>3. worker'.book[worker.sym].lot = positions[worker.sym].lot
      BY <1>d, <3>1, <3>2 DEF PositionRow
    <3>4. Copied' = {worker.sym}
      BY <3>2 DEF Copied
    <3>5. CopiesInv'
      BY <2>1, <3>1, <3>2, <3>3, <3>4, CopiesRead
    <3> QED
      BY <2>1, <3>5, QuietStep
  <2> QED  BY <2>2, <2>3
<1>9. CASE KeepPosition
  <2> DEFINE s == worker.sym
             l == worker.book[s].lot
  <2>1. /\ worker.at = "guard" /\ worker'.at = "financing" /\ s \in Symbols /\ s \in Copied
        /\ UpsertPosition(s, Mine) /\ Mine.lot = l /\ Mine \in PositionRow
    BY <1>9, <1>c, <1>i DEF KeepPosition, At, Mine, Copied
  <2>2. /\ orders' = orders /\ trades' = trades
        /\ positions' = [positions EXCEPT ![s] = [Mine EXCEPT !.entryOrder = positions[s].entryOrder]]
    BY <2>1 DEF UpsertPosition
  <2>3. positions'[s].lot = l /\ SameLots(Symbols \ {s}) /\ l \in Nat
    BY <1>d, <2>1, <2>2 DEF SameLots, PositionRow
  <2> HIDE DEF s, l
  <2>4. CASE l = 0
    <3>1. positions[s].lot = 0
      BY <2>1, <2>4 DEF CopiesInv, CopiesAreOfTheLot, Held, l
    <3> QED
      BY <2>1, <2>2, <2>3, <2>4, <3>1, CopiesForgotten DEF LedgerStep, Quiet, SameLots, Copying
  <2>5. CASE l # 0
    <3>1. BoughtFor(l, s) /\ positions[s].lot \in {0, l} /\ \A o \in PendingSells(s) : l = orders[o].decided
      BY <2>1, <2>5 DEF CopiesInv, CopiesAreOfTheLot, CopiesAreSold, l
    <3>2. WritesBack(s, l)
      BY <2>2, <2>3, <3>1 DEF WritesBack
    <3> QED
      BY <2>1, <2>3, <3>2, CopiesForgotten DEF LedgerStep, Copying
  <2> QED  BY <2>4, <2>5
<1>10. ASSUME NEW s \in Copied, NEW reason \in ExitReasons, s \in Symbols,
              ClosePositionAtomic(s, Credited(worker.money), worker.book[s], reason)
       PROVE  /\ LedgerStep /\ orders' = orders
              /\ \A x \in Symbols : positions'[x].lot \in {0, positions[x].lot}
              /\ \A x \in Symbols \ {s} : positions'[x].lot = positions[x].lot
  <2>1. Held(s) => BoughtFor(worker.book[s].lot, s) /\ positions[s].lot = worker.book[s].lot
    BY DEF CopiesInv, CopiesAreOfTheLot, Held
  <2>2. worker.book[s] \in PositionRow
    BY <1>10, <1>b
  <2> QED
    BY <1>10, <1>a, <2>1, <2>2, CloseIsALedgerStep
<1>11. CASE ProtectiveExit
  <2>1. /\ worker.at = "guard" /\ worker.sym \in Symbols /\ worker'.at = "financing" /\ worker.sym \in Copied
        /\ Mine = worker.book[worker.sym]
    BY <1>11, <1>c, <1>i DEF ProtectiveExit, At, Copied, Mine
  <2>2. "PROTECTIVE" \in ExitReasons
    BY DEF ExitReasons
  <2>3. LedgerStep
    BY <1>10, <1>11, <2>1, <2>2 DEF ProtectiveExit
  <2> QED  BY <2>1, <2>3, CopiesForgotten DEF Copying
<1>12. CASE ReadFinancing
  BY <1>12, <1>h, <1>j, <1>k, <1>n DEF ReadFinancing, Copying
<1>13. CASE ChargeFinancing
  BY <1>13, <1>i, <1>n DEF ChargeFinancing, SetCash, Copying
<1>14. CASE CheckMargin
  <2>1. orders' = orders /\ trades' = trades /\ positions' = positions
    BY <1>14, <1>k DEF CheckMargin
  <2>2. CASE Goto("decide")
    BY <1>h, <1>n, <2>1, <2>2 DEF Copying
  <2>3. CASE ~Goto("decide")
    <3>1. worker'.at = "liquidate" /\ worker'.book = positions /\ worker'.liq = {s \in Symbols : Held(s)}
      BY <1>14, <1>a, <2>3 DEF CheckMargin, WorkerState
    <3>2. Copied' \subseteq Symbols
      BY <3>1 DEF Copied
    <3>3. CopiesInv'
      BY <2>1, <3>1, <3>2, CopiesRead
    <3> QED
      BY <2>1, <3>3, QuietStep
  <2> QED  BY <2>2, <2>3
<1>15. CASE ReadLiquidation
  <2>1. orders' = orders /\ trades' = trades /\ positions' = positions
    BY <1>15, <1>k DEF ReadLiquidation
  <2>2. /\ worker.at = "liquidate" /\ worker'.at = "liquidating"
        /\ worker'.liq = worker.liq /\ worker'.book = worker.book
    BY <1>15, <1>a DEF ReadLiquidation, WorkerState, At
  <2>3. Copied' = Copied
    BY <2>2 DEF Copied
  <2>4. CopiesInv'
    BY <2>1, <2>2, <2>3, CopiesKept
  <2> QED  BY <2>1, <2>4, QuietStep
<1>16. ASSUME NEW s \in Symbols, Liquidate(s)
       PROVE  LedgerStep /\ CopiesInv'
  <2>1. /\ worker.at = "liquidating" /\ s \in worker.liq /\ s \in Copied
        /\ ClosePositionAtomic(s, Credited(worker.money), worker.book[s], "LIQUIDATION")
        /\ worker'.at = "liquidate" /\ worker'.liq = worker.liq \ {s} /\ worker'.book = worker.book
    BY <1>16, <1>a DEF Liquidate, At, Copied, WorkerState
  <2>2. "LIQUIDATION" \in ExitReasons
    BY DEF ExitReasons
  <2>3. /\ LedgerStep /\ orders' = orders
        /\ \A x \in Symbols : positions'[x].lot \in {0, positions[x].lot}
    BY <1>10, <2>1, <2>2
  <2>4. Copied' \subseteq Copied /\ Copied \subseteq Symbols
    BY <1>b, <2>1 DEF Copied
  <2>5. CopiesInv'
    BY <2>1, <2>3, <2>4, CopiesKept
  <2> QED  BY <2>3, <2>5
<1>17. CASE EndLiquidation
  BY <1>17, <1>i, <1>k, <1>n DEF EndLiquidation, Copying
<1>18. ASSUME NEW side \in Sides, Decide(side)
       PROVE  LedgerStep /\ CopiesInv'
  <2>1. /\ orders' = orders /\ trades' = trades /\ positions' = positions
        /\ worker.sym \in Symbols
    BY <1>18, <1>c DEF Decide, At
  <2>2. worker'.at = "order" /\ worker'.book = positions /\ worker'.sym = worker.sym
    BY <1>18, <1>a DEF Decide, WorkerState
  <2>3. Copied' \subseteq Symbols
    BY <2>1, <2>2 DEF Copied
  <2>4. CopiesInv'
    BY <2>1, <2>2, <2>3, CopiesRead
  <2> QED  BY <2>1, <2>4, QuietStep
<1>19. CASE DecideNothing
  BY <1>19, <1>h, <1>n DEF DecideNothing, Copying
<1>20. CASE PlaceOrder
  <2> DEFINE s == worker.sym
             r == [symbol |-> worker.sym, side |-> worker.side, status |-> "PENDING",
                   created |-> worker.bar, filled |-> 0,
                   hz |-> IF worker.did THEN worker.hz ELSE Unknown, decided |-> Mine.lot]
  <2>1. /\ orders' = Append(orders, r) /\ trades' = trades /\ positions' = positions
        /\ worker.at = "order" /\ worker'.at = "advance" /\ s \in Symbols
        /\ Mine.lot = worker.book[s].lot /\ Mine \in PositionRow /\ s \in Copied
    BY <1>20, <1>c, <1>i DEF PlaceOrder, AddOrder, At, Mine, Copied
  <2>2. r \in OrderRow
    BY <1>b, <2>1 DEF OrderRow, PositionRow, Statuses
  <2>3. r.symbol = s /\ r.status = "PENDING" /\ r.decided = worker.book[s].lot
    BY <2>1
  <2>4. PendingOrders(s) = {}
    BY <2>1 DEF PendingInv, NonePendingWhileOrdering, At
  <2> HIDE DEF s, r
  <2>5. positions[s].lot \in {0, r.decided}
    BY <2>1, <2>3 DEF CopiesInv, CopiesAreOfTheLot, Held
  <2>6. Places(s, r)
    BY <2>1, <2>2, <2>3, <2>4, <2>5 DEF Places, SameLots
  <2> QED  BY <2>1, <2>2, <2>6, CopiesForgotten DEF LedgerStep, Copying
<1>21. CASE AdvanceCursor
  BY <1>21, <1>h, <1>n DEF AdvanceCursor, Copying
<1>22. CASE Abandon
  BY <1>22, <1>m, <1>n DEF Abandon, dbVars, Copying
<1>23. CASE Select
  <2>1. PICK s \in Symbols, ready \in SUBSET Horizons, winner \in Horizons :
          SelectHorizon(s, ready, winner)
    BY <1>23 DEF Select
  <2>2. worker'.at = "begin"  BY <1>a, <2>1 DEF SelectHorizon, WorkerState
  <2> QED  BY <1>n, <2>1, <2>2 DEF SelectHorizon, Copying
<1>f. ASSUME worker' = worker, orders' = orders,
             \A x \in Symbols : positions'[x].lot \in {0, positions[x].lot}
      PROVE  CopiesInv'
  <2>1. Copied' = Copied
    BY <1>f DEF Copied
  <2>2. CASE worker.at = "idle"
    <3>1. worker'.at = "idle"
      BY <1>f, <2>2
    <3> QED
      BY <3>1, CopiesForgotten DEF Copying
  <2>3. CASE worker.at # "idle"
    <3>1. Copied \subseteq Symbols
      BY <1>b, <1>c, <2>3 DEF Copied
    <3> QED
      BY <1>f, <2>1, <3>1, CopiesKept
  <2> QED  BY <2>2, <2>3
<1>24. ASSUME worker' = worker, UNCHANGED dbVars
       PROVE  LedgerStep /\ CopiesInv'
  <2>1. orders' = orders /\ trades' = trades /\ positions' = positions
    BY <1>24 DEF dbVars
  <2> QED  BY <1>24, <1>d, <1>f, <2>1, QuietStep
<1>25. CASE Tick
  BY <1>24, <1>25 DEF Tick
<1>26. ASSUME NEW s \in Symbols, RealtimeTrigger(s)
       PROVE  LedgerStep /\ CopiesInv'
  BY <1>24, <1>26 DEF RealtimeTrigger
<1>27. CASE RealtimeExit
  <2>1. realtime \in Symbols /\ worker' = worker /\ CloseRealtimePositionAtomic(realtime)
    BY <1>27, <1>a DEF RealtimeExit
  <2>2. "REALTIME" \in ExitReasons /\ positions[realtime] \in PositionRow
    BY <1>d, <2>1 DEF ExitReasons
  <2>3. ClosePositionAtomic(realtime, Credited(cash), positions[realtime], "REALTIME")
    BY <2>1 DEF CloseRealtimePositionAtomic, ClosePositionAtomic
  <2>4. Held(realtime) => BoughtFor(positions[realtime].lot, realtime)
    BY <2>1 DEF LotTables, LotsAreBought
  <2>5. /\ LedgerStep /\ orders' = orders
        /\ \A x \in Symbols : positions'[x].lot \in {0, positions[x].lot}
    BY <1>a, <2>1, <2>2, <2>3, <2>4, CloseIsALedgerStep
  <2> QED  BY <1>f, <2>1, <2>5
<1>28. CASE UNCHANGED vars
  <2>1. worker' = worker /\ UNCHANGED dbVars
    BY <1>28 DEF vars, dbVars
  <2> QED  BY <1>24, <2>1
<1> QED
  BY <1>1, <1>2, <1>3, <1>4, <1>5, <1>6, <1>7, <1>8, <1>9, <1>11, <1>12, <1>13, <1>14, <1>15, <1>16,
     <1>17, <1>18, <1>19, <1>20, <1>21, <1>22, <1>23, <1>25, <1>26, <1>27, <1>28
  DEF Next, BarNext, BarStep, RealtimeNext

LEMMA LotInvStep ==
  PendingInv /\ LotTables /\ CopiesInv /\ [Next]_vars => (LotTables /\ CopiesInv)'
<1> SUFFICES ASSUME PendingInv, LotTables, CopiesInv, [Next]_vars PROVE (LotTables /\ CopiesInv)'
  OBVIOUS
<1>1. LedgerStep /\ CopiesInv'
  BY EveryStepIsALedgerStep
<1>2. DBTypeOK /\ OnePendingOrder
  BY DEF PendingInv, TypeOK
<1> QED
  BY <1>1, <1>2, LedgerStepKeepsLots

(* LotTables says more than the property.                                  *)
LEMMA LotsAreAccounted == LotTables => LotHeldOrRealized
BY DEF LotTables, LotsAreBought, TradesAreOfBought, NoneIsLost, BoughtFor, LotHeldOrRealized

(* What was bought is held or was realised, and nothing else is, with the  *)
(* realtime worker closing positions under the bar worker's copies.        *)
THEOREM NoLotIsLost == Spec => []LotHeldOrRealized
BY PendingInvInit, PendingInvStep, LotInvInit, LotInvStep, LotsAreAccounted, PTL DEF Spec

(* A SELL that fills inserts one trade, of the lot it was decided for.     *)
THEOREM SellsCloseTheirLot == Spec => []SellClosesItsLotOnce
<1>1. LotTables => SellClosesItsLotOnce
  BY DEF LotTables
<1> QED
  BY <1>1, PendingInvInit, PendingInvStep, LotInvInit, LotInvStep, PTL DEF Spec
-----------------------------------------------------------------------------
(* The bar worker alone. Nobody else writes, so what it read is what is    *)
(* there (Alone), and its steps are those of an account that books every   *)
(* lot under its own order, sells it once and counts every flow (Settles). *)

SameEntries(S) == \A s \in S : positions'[s].entryOrder = positions[s].entryOrder

(* what a step of the bar worker does to the account when it is alone *)
Settles ==
  \/ Quiet /\ SameEntries(Symbols) /\ cash' = cash
  \/ \E o \in DOMAIN orders : Cancels(o)
  \/ \E s \in Symbols, o \in DOMAIN orders, open \in Int :
       /\ Buys(s, o, open) /\ cash' = Debited(cash, o)
       /\ positions'[s].entryOrder = o /\ SameEntries(Symbols \ {s})
  \/ \E s \in Symbols, t \in TradeRow, open \in Int :
       /\ Closes(s, t, open) /\ Held(s) /\ positions[s].lot = t.lot
       /\ t.entryOrder = positions[s].entryOrder
       /\ cash' = Credited(cash) /\ SameEntries(Symbols \ {s})
  \/ \E s \in Symbols, r \in OrderRow :
       /\ Places(s, r) /\ cash' = cash /\ SameEntries(Symbols)
       /\ Len(orders) < MaxOrders /\ (r.side = "SELL" <=> Held(s))

Settling == Quiet /\ SameEntries(Symbols) /\ cash' = cash

CopiesAreCurrent == \A s \in Copied : worker.book[s].lot = positions[s].lot
MoneyIsCurrent == worker.at \in Reading => worker.money = cash
OrdersWhatItMay ==
  worker.at = "order" => Len(orders) < MaxOrders /\ (worker.side = "SELL" <=> Held(worker.sym))
Alone == CopiesAreCurrent /\ MoneyIsCurrent /\ OrdersWhatItMay

EntryIsTheLot ==
  \A s \in Symbols :
    Held(s) => positions[s].entryOrder = positions[s].lot /\ TradesOf(positions[s].lot) = {}
SoldOnce ==
  \A o \in FilledBuys :
    positions[orders[o].symbol].lot # o =>
      \E i \in DOMAIN trades : TradesOf(o) = {i} /\ trades[i].entryOrder = o
AccountTables == EntryIsTheLot /\ SoldOnce /\ CashReflectsLedger

(* A step that leaves lots, entries and cash alone.                        *)
LEMMA SettlingKeepsAccount ==
  ASSUME AccountTables, DBTypeOK, Settling PROVE AccountTables'
<1>1. /\ orders' = orders /\ trades' = trades /\ cash' = cash
      /\ \A s \in Symbols : /\ positions'[s].lot = positions[s].lot
                            /\ positions'[s].entryOrder = positions[s].entryOrder
  BY DEF Settling, Quiet, SameLots, SameEntries
<1>2. FilledBuys' = FilledBuys /\ \A l : TradesOf(l)' = TradesOf(l)
  BY <1>1 DEF FilledBuys, TradesOf
<1>3. \A o \in FilledBuys : orders[o].symbol \in Symbols
  BY OrderIds
<1>4. EntryIsTheLot'
  BY <1>1, <1>2 DEF AccountTables, EntryIsTheLot, Held
<1>5. SoldOnce'
  BY <1>1, <1>2, <1>3 DEF AccountTables, SoldOnce
<1>6. CashReflectsLedger'
  BY <1>1, <1>2 DEF AccountTables, CashReflectsLedger
<1> QED
  BY <1>4, <1>5, <1>6 DEF AccountTables

LEMMA CancelKeepsAccount ==
  ASSUME AccountTables, DBTypeOK, NEW o \in DOMAIN orders, Cancels(o) PROVE AccountTables'
<1>1. /\ DOMAIN orders' = DOMAIN orders
      /\ \A p \in DOMAIN orders : /\ orders'[p].symbol = orders[p].symbol
                                  /\ orders'[p].side = orders[p].side
                                  /\ (orders'[p].status = "FILLED" <=> orders[p].status = "FILLED")
  <2>1. CASE orders[o].status # "PENDING"
    BY <2>1 DEF Cancels, CancelOrder
  <2>2. CASE orders[o].status = "PENDING"
    <3>1. orders' = [orders EXCEPT ![o] = [orders[o] EXCEPT !.status = "CANCELLED"]]
      BY <2>2 DEF Cancels, CancelOrder, DBTypeOK
    <3>2. DOMAIN orders' = DOMAIN orders /\ \A p \in DOMAIN orders : p # o => orders'[p] = orders[p]
      BY <3>1
    <3>3. /\ orders'[o].symbol = orders[o].symbol /\ orders'[o].side = orders[o].side
          /\ orders'[o].status = "CANCELLED"
      BY <3>1, OrderIds DEF OrderRow
    <3> QED
      BY <2>2, <3>2, <3>3
  <2> QED  BY <2>1, <2>2
<1>2. positions' = positions /\ trades' = trades /\ cash' = cash
  BY DEF Cancels, CancelOrder
<1>3. FilledBuys' = FilledBuys
  BY <1>1 DEF FilledBuys
<1>4. \A l : TradesOf(l)' = TradesOf(l)
  BY <1>2 DEF TradesOf
<1>5. EntryIsTheLot'
  BY <1>2, <1>4 DEF AccountTables, EntryIsTheLot, Held
<1>6. SoldOnce'
  BY <1>1, <1>2, <1>3, <1>4, OrderIds DEF AccountTables, SoldOnce
<1>7. CashReflectsLedger'
  BY <1>2, <1>3 DEF AccountTables, CashReflectsLedger
<1> QED
  BY <1>5, <1>6, <1>7 DEF AccountTables

(* A fill enters its lot and its debit together.                           *)
LEMMA BuyKeepsAccount ==
  ASSUME AccountTables, LotTables, DBTypeOK, NEW s \in Symbols, NEW o \in DOMAIN orders, NEW open \in Int,
         Buys(s, o, open), cash' = Debited(cash, o), positions'[s].entryOrder = o,
         SameEntries(Symbols \ {s})
  PROVE  AccountTables'
<1>1. /\ o \in PendingOrders(s) /\ orders[o].side = "BUY" /\ positions[s].lot = 0
      /\ MarkFilled(o, open) /\ trades' = trades /\ positions'[s].lot = o
      /\ \A x \in Symbols \ {s} : /\ positions'[x].lot = positions[x].lot
                                  /\ positions'[x].entryOrder = positions[x].entryOrder
  BY DEF Buys, SameLots, SameEntries, Held
<1>2. /\ orders[o].status = "PENDING" /\ orders[o].symbol = s
      /\ DOMAIN orders' = DOMAIN orders
      /\ \A p \in DOMAIN orders : p # o => orders'[p] = orders[p]
      /\ orders'[o].symbol = s /\ orders'[o].side = "BUY" /\ orders'[o].status = "FILLED"
  BY <1>1, FilledRow
<1>3. FilledBuys' = FilledBuys \cup {o} /\ o \notin FilledBuys
  BY <1>1, <1>2 DEF FilledBuys
<1>4. \A l : TradesOf(l)' = TradesOf(l)
  BY <1>1 DEF TradesOf
<1>5. TradesOf(o) = {}
  BY <1>3 DEF LotTables, TradesAreOfBought, TradesOf
<1>6. EntryIsTheLot'
  <2> SUFFICES ASSUME NEW x \in Symbols, Held(x)'
               PROVE  positions'[x].entryOrder = positions'[x].lot /\ TradesOf(positions[x].lot)' = {}
    BY DEF EntryIsTheLot
  <2>1. CASE x = s
    BY <1>1, <1>4, <1>5, <2>1
  <2>2. CASE x # s
    BY <1>1, <1>4, <2>2 DEF AccountTables, EntryIsTheLot, Held
  <2> QED  BY <2>1, <2>2
<1>7. SoldOnce'
  <2> SUFFICES ASSUME NEW p \in FilledBuys, positions'[orders'[p].symbol].lot # p
               PROVE  \E i \in DOMAIN trades' : TradesOf(p)' = {i} /\ trades'[i].entryOrder = p
    BY <1>1, <1>2, <1>3 DEF SoldOnce
  <2>1. p # o /\ p \in DOMAIN orders /\ p # 0 /\ orders'[p] = orders[p] /\ orders[p].symbol \in Symbols
    BY <1>2, <1>3, OrderIds
  <2>2. positions[orders[p].symbol].lot # p
    BY <1>1, <2>1
  <2> QED
    BY <1>1, <1>4, <2>2 DEF AccountTables, SoldOnce
<1>8. CashReflectsLedger'
  BY <1>1, <1>3 DEF AccountTables, CashReflectsLedger, Debited
<1> QED
  BY <1>6, <1>7, <1>8 DEF AccountTables

(* A close inserts the only trade of its lot and credits it.               *)
LEMMA CloseKeepsAccount ==
  ASSUME AccountTables, LotTables, DBTypeOK, NEW s \in Symbols, NEW t \in TradeRow, NEW open \in Int,
         Closes(s, t, open), Held(s), positions[s].lot = t.lot, t.entryOrder = positions[s].entryOrder,
         cash' = Credited(cash), SameEntries(Symbols \ {s})
  PROVE  AccountTables'
<1> DEFINE n == Len(trades) + 1
<1>1. /\ t.symbol = s /\ Inserts(t) /\ positions'[s].lot = 0
      /\ \A x \in Symbols \ {s} : /\ positions'[x].lot = positions[x].lot
                                  /\ positions'[x].entryOrder = positions[x].entryOrder
      /\ BoughtFor(t.lot, s)
  BY DEF Closes, SameLots, SameEntries
<1>2. /\ DOMAIN trades' = DOMAIN trades \cup {n} /\ n \notin DOMAIN trades
      /\ \A i \in DOMAIN trades : trades'[i] = trades[i]
      /\ trades'[n] = t
      /\ \A l : TradesOf(l)' = IF t.lot = l THEN TradesOf(l) \cup {n} ELSE TradesOf(l)
  BY <1>1, InsertedTrade
<1>3. /\ DOMAIN orders' = DOMAIN orders
      /\ \A p \in DOMAIN orders : orders'[p].symbol = orders[p].symbol
      /\ FilledBuys' = FilledBuys
  <2>1. CASE t.exitOrder = 0 /\ orders' = orders
    BY <2>1 DEF FilledBuys
  <2>2. CASE t.exitOrder \in PendingSells(s) /\ MarkFilled(t.exitOrder, open)
    <3> DEFINE o == t.exitOrder
    <3>1. o \in PendingOrders(s) /\ orders[o].side = "SELL"
      BY <2>2 DEF PendingSells
    <3> HIDE DEF o
    <3>2. /\ o \in DOMAIN orders /\ orders[o].symbol = s
          /\ DOMAIN orders' = DOMAIN orders
          /\ \A p \in DOMAIN orders : p # o => orders'[p] = orders[p]
          /\ orders'[o].symbol = s /\ orders'[o].side = "SELL"
      BY <2>2, <3>1, FilledRow DEF o
    <3>3. FilledBuys' = FilledBuys
      BY <3>1, <3>2 DEF FilledBuys
    <3> QED
      BY <3>2, <3>3
  <2> QED  BY <2>1, <2>2 DEF Closes
<1>4. cash' = [buys |-> FilledBuys, exits |-> DOMAIN trades \cup {n}]
  BY DEF AccountTables, CashReflectsLedger, Credited
<1> HIDE DEF n
<1>5. t.lot \in FilledBuys /\ orders[t.lot].symbol = s /\ TradesOf(t.lot) = {} /\ t.entryOrder = t.lot
  BY <1>1 DEF BoughtFor, AccountTables, EntryIsTheLot
<1>6. EntryIsTheLot'
  <2> SUFFICES ASSUME NEW x \in Symbols, Held(x)'
               PROVE  positions'[x].entryOrder = positions'[x].lot /\ TradesOf(positions[x].lot)' = {}
    BY DEF EntryIsTheLot
  <2>1. x # s /\ positions'[x].lot = positions[x].lot /\ Held(x)
        /\ positions'[x].entryOrder = positions[x].entryOrder
    BY <1>1 DEF Held
  <2>2. BoughtFor(positions[x].lot, x)
    BY <2>1 DEF LotTables, LotsAreBought
  <2>3. positions[x].lot # t.lot
    BY <1>5, <2>1, <2>2 DEF BoughtFor
  <2> QED
    BY <1>2, <2>1, <2>3 DEF AccountTables, EntryIsTheLot
<1>7. SoldOnce'
  <2> SUFFICES ASSUME NEW p \in FilledBuys, positions'[orders[p].symbol].lot # p
               PROVE  \E i \in DOMAIN trades' : TradesOf(p)' = {i} /\ trades'[i].entryOrder = p
    BY <1>3, OrderIds DEF SoldOnce
  <2>1. CASE p = t.lot
    BY <1>2, <1>5, <2>1
  <2>2. CASE p # t.lot
    <3>1. orders[p].symbol \in Symbols
      BY OrderIds
    <3>2. positions[orders[p].symbol].lot # p
      BY <1>1, <2>2, <3>1
    <3>3. PICK i \in DOMAIN trades : TradesOf(p) = {i} /\ trades[i].entryOrder = p
      BY <3>2 DEF AccountTables, SoldOnce
    <3> QED
      BY <1>2, <2>2, <3>3
  <2> QED  BY <2>1, <2>2
<1>8. CashReflectsLedger'
  BY <1>2, <1>3, <1>4 DEF CashReflectsLedger
<1> QED
  BY <1>6, <1>7, <1>8 DEF AccountTables

LEMMA PlaceKeepsAccount ==
  ASSUME AccountTables, DBTypeOK, NEW s \in Symbols, NEW r \in OrderRow, Places(s, r), cash' = cash,
         SameEntries(Symbols)
  PROVE  AccountTables'
<1> DEFINE n == Len(orders) + 1
<1>1. /\ r.status = "PENDING" /\ orders' = Append(orders, r) /\ trades' = trades
      /\ \A x \in Symbols : /\ positions'[x].lot = positions[x].lot
                            /\ positions'[x].entryOrder = positions[x].entryOrder
  BY DEF Places, SameLots, SameEntries
<1>2. /\ DOMAIN orders' = DOMAIN orders \cup {n} /\ n \notin DOMAIN orders
      /\ \A p \in DOMAIN orders : orders'[p] = orders[p]
      /\ orders'[n] = r
  BY <1>1, InsertRow DEF DBTypeOK
<1> HIDE DEF n
<1>3. FilledBuys' = FilledBuys
  BY <1>1, <1>2 DEF FilledBuys
<1>4. \A p \in FilledBuys : orders'[p] = orders[p] /\ orders[p].symbol \in Symbols
  BY <1>2, OrderIds
<1>5. \A l : TradesOf(l)' = TradesOf(l)
  BY <1>1 DEF TradesOf
<1>6. EntryIsTheLot'
  BY <1>1, <1>5 DEF AccountTables, EntryIsTheLot, Held
<1>7. SoldOnce'
  <2> SUFFICES ASSUME NEW p \in FilledBuys, positions'[orders'[p].symbol].lot # p
               PROVE  \E i \in DOMAIN trades' : TradesOf(p)' = {i} /\ trades'[i].entryOrder = p
    BY <1>3 DEF SoldOnce
  <2>1. positions[orders[p].symbol].lot # p
    BY <1>1, <1>4
  <2> QED
    BY <1>1, <1>5, <2>1 DEF AccountTables, SoldOnce
<1>8. CashReflectsLedger'
  BY <1>1, <1>3 DEF AccountTables, CashReflectsLedger
<1> QED
  BY <1>6, <1>7, <1>8 DEF AccountTables

LEMMA SettlesKeepsAccount ==
  ASSUME AccountTables, LotTables, DBTypeOK, Settles PROVE AccountTables'
<1>1. CASE Quiet /\ SameEntries(Symbols) /\ cash' = cash
  BY <1>1, SettlingKeepsAccount DEF Settling
<1>2. CASE \E o \in DOMAIN orders : Cancels(o)
  BY <1>2, CancelKeepsAccount
<1>3. CASE \E s \in Symbols, o \in DOMAIN orders, open \in Int :
             /\ Buys(s, o, open) /\ cash' = Debited(cash, o)
             /\ positions'[s].entryOrder = o /\ SameEntries(Symbols \ {s})
  BY <1>3, BuyKeepsAccount
<1>4. CASE \E s \in Symbols, t \in TradeRow, open \in Int :
             /\ Closes(s, t, open) /\ Held(s) /\ positions[s].lot = t.lot
             /\ t.entryOrder = positions[s].entryOrder
             /\ cash' = Credited(cash) /\ SameEntries(Symbols \ {s})
  BY <1>4, CloseKeepsAccount
<1>5. CASE \E s \in Symbols, r \in OrderRow :
             /\ Places(s, r) /\ cash' = cash /\ SameEntries(Symbols)
             /\ Len(orders) < MaxOrders /\ (r.side = "SELL" <=> Held(s))
  BY <1>5, PlaceKeepsAccount
<1> QED
  BY <1>1, <1>2, <1>3, <1>4, <1>5 DEF Settles

(* The worker holds no copy and no cash figure.                            *)
LEMMA AloneForgotten == ASSUME worker'.at \notin Copying \cup Reading PROVE Alone'
BY DEF Alone, CopiesAreCurrent, MoneyIsCurrent, OrdersWhatItMay, Copied, Copying, Reading

(* What was just read is what is there.                                    *)
LEMMA AloneRead ==
  ASSUME positions' = positions, cash' = cash, worker'.at # "order",
         \A s \in Copied' : worker'.book[s].lot = positions[s].lot,
         worker'.at \in Reading => worker'.money = cash
  PROVE  Alone'
BY DEF Alone, CopiesAreCurrent, MoneyIsCurrent, OrdersWhatItMay

LEMMA NothingSettles ==
  ASSUME orders' = orders, trades' = trades, positions' = positions, cash' = cash PROVE Settles
BY DEF Settles, Quiet, SameLots, SameEntries

(* close_position_atomic of the row that is there.                         *)
LEMMA CloseSettles ==
  ASSUME DBTypeOK, NEW s \in Symbols, NEW row \in PositionRow, NEW reason \in ExitReasons,
         ClosePositionAtomic(s, Credited(cash), row, reason),
         Held(s) => BoughtFor(row.lot, s) /\ positions[s].lot = row.lot
  PROVE  /\ Settles
         /\ \A x \in Symbols \ {s} : positions'[x] = positions[x]
<1>1. CASE ~Held(s)
  BY <1>1, NothingSettles DEF ClosePositionAtomic
<1>2. CASE Held(s)
  <2> DEFINE t == [symbol |-> s, lot |-> row.lot, entryOrder |-> positions[s].entryOrder,
                   exitOrder |-> 0, reason |-> reason]
  <2>1. /\ orders' = orders /\ trades' = Append(trades, t) /\ cash' = Credited(cash)
        /\ positions' = [positions EXCEPT ![s] = NoPosition]
    BY <1>2 DEF ClosePositionAtomic, CloseRow
  <2>2. positions[s] \in PositionRow /\ positions \in [Symbols -> PositionRow]
    BY DEF DBTypeOK
  <2>3. t \in TradeRow
    BY <2>2 DEF TradeRow, PositionRow
  <2>4. positions'[s].lot = 0 /\ \A x \in Symbols \ {s} : positions'[x] = positions[x]
    BY <2>1, <2>2 DEF NoPosition
  <2>5. /\ t.lot = row.lot /\ t.symbol = s /\ t.exitOrder = 0
        /\ t.entryOrder = positions[s].entryOrder
    OBVIOUS
  <2> HIDE DEF t
  <2>6. Closes(s, t, 0)
    BY <1>2, <2>1, <2>3, <2>4, <2>5 DEF Closes, Inserts, SameLots
  <2>7. SameEntries(Symbols \ {s})
    BY <2>4 DEF SameEntries
  <2>8. positions[s].lot = t.lot
    BY <1>2, <2>5
  <2>9. 0 \in Int
    OBVIOUS
  <2>10. \E x \in Symbols, y \in TradeRow, open \in Int :
          /\ Closes(x, y, open) /\ Held(x) /\ positions[x].lot = y.lot
          /\ y.entryOrder = positions[x].entryOrder
          /\ cash' = Credited(cash) /\ SameEntries(Symbols \ {x})
    BY <1>2, <2>1, <2>3, <2>5, <2>6, <2>7, <2>8, <2>9
  <2>11. Settles
    BY <2>10 DEF Settles
  <2> QED
    BY <2>4, <2>11
<1> QED
  BY <1>1, <1>2

LEMMA AloneInit == Init => Alone /\ AccountTables
<1> SUFFICES ASSUME Init PROVE Alone /\ AccountTables
  OBVIOUS
<1>1. /\ orders = <<>> /\ trades = <<>> /\ \A s \in Symbols : ~Held(s)
      /\ worker.at = "idle" /\ cash = [buys |-> {}, exits |-> {}]
  BY DEF Init, DBInit, Held, NoPosition, Idle, NoFlows
<1>2. AccountTables
  BY <1>1 DEF AccountTables, EntryIsTheLot, SoldOnce, CashReflectsLedger, FilledBuys
<1>3. Alone
  BY <1>1 DEF Alone, CopiesAreCurrent, MoneyIsCurrent, OrdersWhatItMay, Copied, Reading
<1> QED
  BY <1>2, <1>3

(* with nobody else writing, what the bar worker read is what is there     *)
LEMMA EveryBarStepSettles ==
  PendingInv /\ CopiesInv /\ Alone /\ [BarNext]_vars => Settles /\ Alone'
<1> SUFFICES ASSUME PendingInv, CopiesInv, Alone, [BarNext]_vars PROVE Settles /\ Alone'
  OBVIOUS
<1>a. DBTypeOK /\ worker \in WorkerState
  BY DEF PendingInv, TypeOK
<1>b. /\ worker.at \in Labels /\ worker.sym \in Symbols \cup {NoSymbol} /\ worker.order \in Nat
      /\ worker.book \in [Symbols -> PositionRow] /\ worker.liq \in SUBSET Symbols
      /\ worker.hz \in Horizons /\ worker.bar \in Nat /\ worker.side \in Sides
  BY <1>a DEF WorkerState
<1>c. worker.at # "idle" => worker.sym \in Symbols /\ Mine \in PositionRow
  BY <1>b DEF PendingInv, BusyHasSymbol, At, Mine
<1>d. positions \in [Symbols -> PositionRow] /\ \A s \in Symbols : positions[s] \in PositionRow /\ positions[s].lot \in Nat
  BY <1>a DEF DBTypeOK, PositionRow
<1>e. worker.at \in Reading => worker.money = cash
  BY DEF Alone, MoneyIsCurrent
<1>f. \A s \in Copied : worker.book[s].lot = positions[s].lot
  BY DEF Alone, CopiesAreCurrent
<1>h. ASSUME NEW l, Goto(l) PROVE worker'.at = l
  BY <1>a, <1>h DEF Goto, WorkerState
<1>i. ASSUME NEW l, Done(l) PROVE worker'.at = l
  BY <1>a, <1>i DEF Done, WorkerState
<1>k. ASSUME ReadOnly
      PROVE  orders' = orders /\ trades' = trades /\ positions' = positions /\ cash' = cash
  BY <1>k DEF ReadOnly, dbVars
<1>m. ASSUME worker' = Idle PROVE worker'.at = "idle"
  BY <1>m DEF Idle
<1>n. ASSUME orders' = orders, trades' = trades, positions' = positions, cash' = cash,
             worker'.at \notin Copying \cup Reading
      PROVE  Settles /\ Alone'
  BY <1>n, NothingSettles, AloneForgotten
<1>1. CASE BeginHorizon
  <2>1. worker'.at = "idle" \/ worker'.at = "bar"
    BY <1>1, <1>a, <1>m DEF BeginHorizon, WorkerState
  <2> QED  BY <1>1, <1>n, <2>1 DEF BeginHorizon, Copying, Reading
<1>2. CASE NextBar
  <2>1. worker'.at = "exec"  BY <1>2, <1>a DEF NextBar, WorkerState
  <2> QED  BY <1>2, <1>k, <1>n, <2>1 DEF NextBar, Copying, Reading
<1>3. CASE EndBars
  BY <1>3, <1>k, <1>m, <1>n DEF EndBars, Copying, Reading
<1>4. CASE ReadPending
  <2>1. orders' = orders /\ trades' = trades /\ positions' = positions /\ cash' = cash
    BY <1>4, <1>k DEF ReadPending
  <2>2. CASE PendingOrder(worker.sym) = 0
    BY <1>4, <1>h, <1>n, <2>1, <2>2 DEF ReadPending, Copying, Reading
  <2>3. CASE PendingOrder(worker.sym) # 0
    <3>1. worker'.at = "settle" /\ worker'.book = positions /\ worker'.money = cash
      BY <1>4, <1>a, <2>3 DEF ReadPending, WorkerState
    <3> QED
      BY <2>1, <3>1, NothingSettles, AloneRead
  <2> QED  BY <2>2, <2>3
<1>5. CASE CancelPending
  <2>1. worker.order \in DOMAIN orders /\ CancelOrder(worker.order)
    BY <1>5 DEF CancelPending, PendingInv, OrderReadExists
  <2>2. Settles
    BY <2>1 DEF Settles, Cancels
  <2> QED  BY <1>5, <1>i, <2>2, AloneForgotten DEF CancelPending, Copying, Reading
<1>6. CASE ExecuteBuy
  <2> DEFINE o == worker.order
             s == worker.sym
             row == [lot |-> o, entryOrder |-> o, held |-> 0, hz |-> FillHorizon(o), bar |-> worker.bar]
  <2>1. /\ worker.at = "settle" /\ orders[o].side = "BUY" /\ worker.book[s].lot = 0 /\ worker'.at = "protect"
        /\ FillBuyAtomic(o, OpenOf(worker.hz, worker.bar), Debited(worker.money, o), row)
    BY <1>6, <1>i DEF ExecuteBuy, At, Mine
  <2>2. o \in PendingOrders(s) /\ s \in Symbols /\ s \in Copied
    BY <1>c, <2>1 DEF CopiesInv, SettlesItsOwn, Copied
  <2>3. o \in DOMAIN orders /\ orders[o].status = "PENDING" /\ orders[o].symbol = s
    BY <2>2 DEF PendingOrders
  <2>4. ~Held(s)
    BY <2>1, <2>2 DEF CopiesInv, CopiesAreOfTheLot
  <2>5. OpenOf(worker.hz, worker.bar) \in Int /\ worker.money = cash
    BY <1>b, <1>e, <2>1, LabAssumption DEF OpenOf, Reading
  <2>6. row.lot = o /\ row.entryOrder = o
    OBVIOUS
  <2> HIDE DEF o, s, row
  <2>7. /\ MarkFilled(o, OpenOf(worker.hz, worker.bar)) /\ trades' = trades /\ cash' = Debited(cash, o)
        /\ positions' = [positions EXCEPT ![s] = row]
    BY <2>1, <2>3, <2>5 DEF FillBuyAtomic
  <2>8. /\ positions'[s].lot = o /\ SameLots(Symbols \ {s})
        /\ positions'[s].entryOrder = o /\ SameEntries(Symbols \ {s})
    BY <1>d, <2>2, <2>6, <2>7 DEF SameLots, SameEntries
  <2>9. Buys(s, o, OpenOf(worker.hz, worker.bar))
    BY <2>1, <2>2, <2>4, <2>5, <2>7, <2>8 DEF Buys
  <2>10. Settles
    BY <2>2, <2>3, <2>5, <2>7, <2>8, <2>9 DEF Settles
  <2> QED
    BY <2>1, <2>10, AloneForgotten DEF Copying, Reading
<1>7. CASE ExecuteSell
  <2> DEFINE o == worker.order
             s == worker.sym
             open == OpenOf(worker.hz, worker.bar)
             t == [symbol |-> s, lot |-> Mine.lot, entryOrder |-> positions[s].entryOrder,
                   exitOrder |-> o, reason |-> "SIGNAL"]
  <2>1. /\ worker.at = "settle" /\ orders[o].side = "SELL" /\ worker.book[s].lot # 0 /\ worker'.at = "protect"
        /\ FillSellAtomic(o, open, Credited(worker.money), Mine)
    BY <1>7, <1>i DEF ExecuteSell, At, Mine
  <2>2. o \in PendingOrders(s) /\ s \in Symbols /\ s \in Copied
    BY <1>c, <2>1 DEF CopiesInv, SettlesItsOwn, Copied
  <2>3. o \in DOMAIN orders /\ orders[o].status = "PENDING" /\ orders[o].symbol = s /\ o \in PendingSells(s)
    BY <2>1, <2>2 DEF PendingOrders, PendingSells
  <2>4. /\ BoughtFor(worker.book[s].lot, s) /\ positions[s].lot = worker.book[s].lot
        /\ worker.book[s].lot = orders[o].decided /\ Held(s)
    BY <1>f, <2>1, <2>2, <2>3 DEF CopiesInv, CopiesAreOfTheLot, CopiesAreSold, Held
  <2>5. open \in Int /\ worker.money = cash
    BY <1>b, <1>e, <2>1, LabAssumption DEF OpenOf, Reading
  <2>6. /\ MarkFilled(o, open) /\ trades' = Append(trades, t) /\ cash' = Credited(cash)
        /\ positions' = [positions EXCEPT ![s] = NoPosition]
    BY <2>1, <2>3, <2>5 DEF FillSellAtomic, CloseRow
  <2>7. Mine.lot = worker.book[s].lot /\ Mine \in PositionRow
    BY <1>c, <2>1 DEF Mine
  <2>8. t \in TradeRow
    BY <1>b, <1>d, <2>2, <2>7 DEF TradeRow, PositionRow, ExitReasons
  <2>9. /\ t.lot = worker.book[s].lot /\ t.symbol = s /\ t.exitOrder = o
        /\ t.entryOrder = positions[s].entryOrder
    BY <2>7
  <2> HIDE DEF o, s, open, t
  <2>10. positions'[s].lot = 0 /\ SameLots(Symbols \ {s}) /\ SameEntries(Symbols \ {s})
    BY <1>d, <2>2, <2>6 DEF SameLots, SameEntries, NoPosition
  <2>11. Closes(s, t, open)
    BY <2>3, <2>4, <2>5, <2>6, <2>8, <2>9, <2>10 DEF Closes, Inserts
  <2>12. Settles
    BY <2>2, <2>4, <2>5, <2>6, <2>8, <2>9, <2>10, <2>11 DEF Settles
  <2> QED
    BY <2>1, <2>12, AloneForgotten DEF Copying, Reading
<1>8. CASE ReadPosition
  <2>1. orders' = orders /\ trades' = trades /\ positions' = positions /\ cash' = cash
    BY <1>8, <1>k DEF ReadPosition
  <2>2. CASE ~Held(worker.sym)
    BY <1>8, <1>h, <1>n, <2>1, <2>2 DEF ReadPosition, Copying, Reading
  <2>3. CASE Held(worker.sym)
    <3>1. worker.sym \in Symbols
      BY <1>8, <1>c DEF ReadPosition, At
    <3>2. /\ worker'.at = "guard" /\ worker'.sym = worker.sym /\ worker'.money = cash
          /\ worker'.book = [positions EXCEPT ![worker.sym] = [positions[worker.sym] EXCEPT !.held = @ + 1]]
      BY <1>8, <1>a, <1>d, <2>3, <3>1 DEF ReadPosition, WorkerState
    <3>3. worker'.book[worker.sym].lot = positions[worker.sym].lot
      BY <1>d, <3>1, <3>2 DEF PositionRow
    <3>4. Copied' = {worker.sym}
      BY <3>2 DEF Copied
    <3> QED
      BY <2>1, <3>2, <3>3, <3>4, NothingSettles, AloneRead
  <2> QED  BY <2>2, <2>3
<1>9. CASE KeepPosition
  <2> DEFINE s == worker.sym
  <2>1. /\ worker.at = "guard" /\ worker'.at = "financing" /\ s \in Symbols /\ s \in Copied
        /\ UpsertPosition(s, Mine) /\ Mine.lot = worker.book[s].lot /\ Mine \in PositionRow
    BY <1>9, <1>c, <1>i DEF KeepPosition, At, Mine, Copied
  <2>2. /\ orders' = orders /\ trades' = trades /\ cash' = cash
        /\ positions' = [positions EXCEPT ![s] = [Mine EXCEPT !.entryOrder = positions[s].entryOrder]]
    BY <2>1 DEF UpsertPosition
  <2>3. Mine.lot = positions[s].lot
    BY <1>f, <2>1
  <2> HIDE DEF s
  <2>4. SameLots(Symbols) /\ SameEntries(Symbols)
    BY <1>d, <2>1, <2>2, <2>3 DEF SameLots, SameEntries, PositionRow
  <2>5. Settles
    BY <2>2, <2>4 DEF Settles, Quiet
  <2> QED  BY <2>1, <2>5, AloneForgotten DEF Copying, Reading
<1>10. ASSUME NEW s \in Copied, NEW reason \in ExitReasons, s \in Symbols, worker.at \in Reading,
              ClosePositionAtomic(s, Credited(worker.money), worker.book[s], reason)
       PROVE  /\ Settles
              /\ \A x \in Symbols \ {s} : positions'[x] = positions[x]
  <2>1. Held(s) => BoughtFor(worker.book[s].lot, s) /\ positions[s].lot = worker.book[s].lot
    BY <1>f DEF CopiesInv, CopiesAreOfTheLot, Held
  <2>2. worker.book[s] \in PositionRow
    BY <1>10, <1>b
  <2>3. ClosePositionAtomic(s, Credited(cash), worker.book[s], reason)
    BY <1>10, <1>e
  <2> QED
    BY <1>10, <1>a, <2>1, <2>2, <2>3, CloseSettles
<1>11. CASE ProtectiveExit
  <2>1. /\ worker.at = "guard" /\ worker.sym \in Symbols /\ worker'.at = "financing" /\ worker.sym \in Copied
        /\ Mine = worker.book[worker.sym] /\ worker.at \in Reading
    BY <1>11, <1>c, <1>i DEF ProtectiveExit, At, Copied, Mine, Reading
  <2>2. "PROTECTIVE" \in ExitReasons
    BY DEF ExitReasons
  <2>3. Settles
    BY <1>10, <1>11, <2>1, <2>2 DEF ProtectiveExit
  <2> QED  BY <2>1, <2>3, AloneForgotten DEF Copying, Reading
<1>12. CASE ReadFinancing
  <2>1. orders' = orders /\ trades' = trades /\ positions' = positions /\ cash' = cash
    BY <1>12, <1>k DEF ReadFinancing
  <2>2. CASE Goto("margin")
    BY <1>h, <1>n, <2>1, <2>2 DEF Copying, Reading
  <2>3. CASE Read("charge")
    <3>1. worker'.at = "charge" /\ worker'.money = cash /\ worker'.book = positions
      BY <1>a, <2>3 DEF Read, WorkerState
    <3> QED
      BY <2>1, <3>1, NothingSettles, AloneRead
  <2> QED  BY <1>12, <2>2, <2>3 DEF ReadFinancing
<1>13. CASE ChargeFinancing
  <2>1. cash' = cash /\ worker'.at = "margin"
    BY <1>13, <1>e, <1>i DEF ChargeFinancing, SetCash, At, Reading
  <2> QED  BY <1>13, <1>n, <2>1 DEF ChargeFinancing, SetCash, Copying, Reading
<1>14. CASE CheckMargin
  <2>1. orders' = orders /\ trades' = trades /\ positions' = positions /\ cash' = cash
    BY <1>14, <1>k DEF CheckMargin
  <2>2. CASE Goto("decide")
    BY <1>h, <1>n, <2>1, <2>2 DEF Copying, Reading
  <2>3. CASE ~Goto("decide")
    <3>1. worker'.at = "liquidate" /\ worker'.book = positions
      BY <1>14, <1>a, <2>3 DEF CheckMargin, WorkerState
    <3> QED
      BY <2>1, <3>1, NothingSettles, AloneRead DEF Reading
  <2> QED  BY <2>2, <2>3
<1>15. CASE ReadLiquidation
  <2>1. orders' = orders /\ trades' = trades /\ positions' = positions /\ cash' = cash
    BY <1>15, <1>k DEF ReadLiquidation
  <2>2. /\ worker.at = "liquidate" /\ worker'.at = "liquidating" /\ worker'.money = cash
        /\ worker'.liq = worker.liq /\ worker'.book = worker.book
    BY <1>15, <1>a DEF ReadLiquidation, WorkerState, At
  <2>3. Copied' = Copied
    BY <2>2 DEF Copied
  <2> QED  BY <1>f, <2>1, <2>2, <2>3, NothingSettles, AloneRead
<1>16. ASSUME NEW s \in Symbols, Liquidate(s)
       PROVE  Settles /\ Alone'
  <2>1. /\ worker.at = "liquidating" /\ s \in worker.liq /\ s \in Copied /\ worker.at \in Reading
        /\ ClosePositionAtomic(s, Credited(worker.money), worker.book[s], "LIQUIDATION")
        /\ worker'.at = "liquidate" /\ worker'.liq = worker.liq \ {s} /\ worker'.book = worker.book
    BY <1>16, <1>a DEF Liquidate, At, Copied, WorkerState, Reading
  <2>2. "LIQUIDATION" \in ExitReasons
    BY DEF ExitReasons
  <2>3. Settles /\ \A x \in Symbols \ {s} : positions'[x] = positions[x]
    BY <1>10, <2>1, <2>2
  <2>4. Copied' = Copied \ {s} /\ Copied \subseteq Symbols
    BY <1>b, <2>1 DEF Copied
  <2>5. Alone'
    BY <1>f, <2>1, <2>3, <2>4 DEF Alone, CopiesAreCurrent, MoneyIsCurrent, OrdersWhatItMay, Reading
  <2> QED  BY <2>3, <2>5
<1>17. CASE EndLiquidation
  BY <1>17, <1>i, <1>k, <1>n DEF EndLiquidation, Copying, Reading
<1>18. ASSUME NEW side \in Sides, Decide(side)
       PROVE  Settles /\ Alone'
  <2>1. /\ orders' = orders /\ trades' = trades /\ positions' = positions /\ cash' = cash
        /\ Len(orders) < MaxOrders /\ (side = "SELL" <=> Held(worker.sym))
    BY <1>18 DEF Decide
  <2>2. worker'.at = "order" /\ worker'.book = positions /\ worker'.sym = worker.sym /\ worker'.side = side
    BY <1>18, <1>a DEF Decide, WorkerState
  <2>3. Alone'
    BY <2>1, <2>2 DEF Alone, CopiesAreCurrent, MoneyIsCurrent, OrdersWhatItMay, Reading, Held
  <2> QED  BY <2>1, <2>3, NothingSettles
<1>19. CASE DecideNothing
  BY <1>19, <1>h, <1>n DEF DecideNothing, Copying, Reading
<1>20. CASE PlaceOrder
  <2> DEFINE s == worker.sym
             r == [symbol |-> worker.sym, side |-> worker.side, status |-> "PENDING",
                   created |-> worker.bar, filled |-> 0,
                   hz |-> IF worker.did THEN worker.hz ELSE Unknown, decided |-> Mine.lot]
  <2>1. /\ orders' = Append(orders, r) /\ trades' = trades /\ positions' = positions /\ cash' = cash
        /\ worker.at = "order" /\ worker'.at = "advance" /\ s \in Symbols
        /\ Mine.lot = worker.book[s].lot /\ Mine \in PositionRow /\ s \in Copied
    BY <1>20, <1>c, <1>i DEF PlaceOrder, AddOrder, At, Mine, Copied
  <2>2. r \in OrderRow
    BY <1>b, <2>1 DEF OrderRow, PositionRow, Statuses
  <2>3. r.symbol = s /\ r.status = "PENDING" /\ r.decided = worker.book[s].lot /\ r.side = worker.side
    BY <2>1
  <2>4. PendingOrders(s) = {}
    BY <2>1 DEF PendingInv, NonePendingWhileOrdering, At
  <2>5. Len(orders) < MaxOrders /\ (r.side = "SELL" <=> Held(s))
    BY <2>1, <2>3 DEF Alone, OrdersWhatItMay
  <2> HIDE DEF s, r
  <2>6. positions[s].lot \in {0, r.decided}
    BY <2>1, <2>3 DEF CopiesInv, CopiesAreOfTheLot, Held
  <2>7. Places(s, r)
    BY <2>1, <2>2, <2>3, <2>4, <2>6 DEF Places, SameLots
  <2>8. Settles
    BY <2>1, <2>2, <2>5, <2>7 DEF Settles, SameEntries
  <2> QED  BY <2>1, <2>8, AloneForgotten DEF Copying, Reading
<1>21. CASE AdvanceCursor
  BY <1>21, <1>h, <1>n DEF AdvanceCursor, Copying, Reading
<1>22. CASE Abandon
  BY <1>22, <1>m, <1>n DEF Abandon, dbVars, Copying, Reading
<1>23. CASE Select
  <2>1. PICK s \in Symbols, ready \in SUBSET Horizons, winner \in Horizons :
          SelectHorizon(s, ready, winner)
    BY <1>23 DEF Select
  <2>2. worker'.at = "begin"  BY <1>a, <2>1 DEF SelectHorizon, WorkerState
  <2> QED  BY <1>n, <2>1, <2>2 DEF SelectHorizon, Copying, Reading
<1>24. ASSUME worker' = worker, UNCHANGED dbVars
       PROVE  Settles /\ Alone'
  <2>1. orders' = orders /\ trades' = trades /\ positions' = positions /\ cash' = cash
    BY <1>24 DEF dbVars
  <2>2. Copied' = Copied
    BY <1>24 DEF Copied
  <2>3. Alone'
    BY <1>24, <2>1, <2>2 DEF Alone, CopiesAreCurrent, MoneyIsCurrent, OrdersWhatItMay, Held
  <2> QED  BY <2>1, <2>3, NothingSettles
<1>25. CASE Tick
  BY <1>24, <1>25 DEF Tick
<1>26. CASE UNCHANGED vars
  <2>1. worker' = worker /\ UNCHANGED dbVars
    BY <1>26 DEF vars, dbVars
  <2> QED  BY <1>24, <2>1
<1> QED
  BY <1>1, <1>2, <1>3, <1>4, <1>5, <1>6, <1>7, <1>8, <1>9, <1>11, <1>12, <1>13, <1>14, <1>15, <1>16,
     <1>17, <1>18, <1>19, <1>20, <1>21, <1>22, <1>23, <1>25, <1>26
  DEF BarNext, BarStep

AloneInv == PendingInv /\ LotTables /\ CopiesInv /\ Alone /\ AccountTables

LEMMA AloneInvInit == Init => AloneInv
BY PendingInvInit, LotInvInit, AloneInit DEF AloneInv

LEMMA AloneInvStep == AloneInv /\ [BarNext]_vars => AloneInv'
<1> SUFFICES ASSUME AloneInv, [BarNext]_vars PROVE AloneInv'
  OBVIOUS
<1>1. PendingInv /\ LotTables /\ CopiesInv /\ Alone /\ AccountTables /\ [Next]_vars
  BY DEF AloneInv, Next
<1>2. PendingInv' /\ LotTables' /\ CopiesInv'
  BY <1>1, PendingInvStep, LotInvStep
<1>3. Settles /\ Alone' /\ DBTypeOK
  BY <1>1, EveryBarStepSettles DEF PendingInv, TypeOK
<1>4. AccountTables'
  BY <1>1, <1>3, SettlesKeepsAccount
<1> QED
  BY <1>2, <1>3, <1>4 DEF AloneInv

LEMMA AccountIsKept == AloneInv => CashReflectsLedger /\ LotAccountedOnce
<1> SUFFICES ASSUME AloneInv PROVE LotAccountedOnce
  BY DEF AloneInv, AccountTables
<1>1. LotTables /\ AccountTables /\ DBTypeOK
  BY DEF AloneInv, PendingInv, TypeOK
<1>2. \A s \in Symbols : Held(s) => positions[s].lot \in FilledBuys
  BY <1>1 DEF LotTables, LotsAreBought, BoughtFor
<1>3. ASSUME NEW o \in FilledBuys, positions[orders[o].symbol].lot = o
      PROVE  positions[orders[o].symbol].entryOrder = o /\ TradesOf(o) = {}
  <2>1. o # 0 /\ orders[o].symbol \in Symbols
    BY <1>1, OrderIds
  <2> QED
    BY <1>1, <1>3, <2>1 DEF AccountTables, EntryIsTheLot, Held
<1>4. ASSUME NEW o \in FilledBuys, positions[orders[o].symbol].lot # o
      PROVE  \E i \in TradesOf(o) : TradesOf(o) = {i} /\ trades[i].entryOrder = o
  BY <1>1, <1>4 DEF AccountTables, SoldOnce
<1> QED
  BY <1>2, <1>3, <1>4 DEF LotAccountedOnce

(* With the bar worker alone the cash figure is the ledger's.              *)
THEOREM CashIsTheLedger == BarSpec => []CashReflectsLedger
BY AloneInvInit, AloneInvStep, AccountIsKept, PTL DEF BarSpec

(* With the bar worker alone a bought lot is held under its order or       *)
(* realised exactly once.                                                  *)
THEOREM LotsAreAccountedOnce == BarSpec => []LotAccountedOnce
BY AloneInvInit, AloneInvStep, AccountIsKept, PTL DEF BarSpec
-----------------------------------------------------------------------------
(* The bar worker alone implements PaperAccount. MWorking, MOpen,          *)
(* MRealized and MCredited are the refinement mapping of                   *)
(* SimulationLab!Account, and MWork, MDrop, MEnter and MExit its actions   *)
(* read through the mapping.                                               *)

WorkingIsThePending ==
  \A s \in Symbols :
    /\ PendingOrders(s) = {} => WorkingOrder(s) = [side |-> "NONE", id |-> 0]
    /\ \A o \in PendingOrders(s) : WorkingOrder(s) = [side |-> orders[o].side, id |-> o]

(* The order WorkingOrder shows is the only one pending.                   *)
LEMMA WorkingKnown == AloneInv => WorkingIsThePending
<1> SUFFICES ASSUME AloneInv, NEW s \in Symbols
             PROVE  /\ PendingOrders(s) = {} => WorkingOrder(s) = [side |-> "NONE", id |-> 0]
                    /\ \A o \in PendingOrders(s) : WorkingOrder(s) = [side |-> orders[o].side, id |-> o]
  BY DEF WorkingIsThePending
<1>1. TypeOK /\ \A o, p \in PendingOrders(s) : o = p
  BY DEF AloneInv, PendingInv, OnePendingOrder
<1>2. /\ PendingOrder(s) = 0 <=> PendingOrders(s) = {}
      /\ PendingOrder(s) # 0 => PendingOrder(s) \in PendingOrders(s)
  BY <1>1, PendingOrderRow
<1>3. \A o \in PendingOrders(s) : PendingOrder(s) = o
  BY <1>1, <1>2
<1> QED
  BY <1>2, <1>3 DEF WorkingOrder

(* the tables as the abstract account sees them *)
MWorking == [s \in Symbols |-> WorkingOrder(s)]
MOpen == [s \in Symbols |-> positions[s].lot]
MRealized == [i \in DOMAIN trades |-> trades[i].lot]
MCredited == {trades[i].lot : i \in cash.exits}

Tables == AloneInv /\ WorkingIsThePending

(* Symbols whose pending orders do not change keep their working order.    *)
LEMMA SameWorking ==
  ASSUME WorkingIsThePending, WorkingIsThePending', NEW S \in SUBSET Symbols,
         \A x \in S : /\ PendingOrders(x)' = PendingOrders(x)
                      /\ \A o \in PendingOrders(x) : orders'[o].side = orders[o].side
  PROVE  \A x \in S : WorkingOrder(x)' = WorkingOrder(x)
<1> SUFFICES ASSUME NEW x \in S PROVE WorkingOrder(x)' = WorkingOrder(x)
  OBVIOUS
<1>1. CASE PendingOrders(x) = {}
  BY <1>1 DEF WorkingIsThePending
<1>2. CASE PendingOrders(x) # {}
  BY <1>2 DEF WorkingIsThePending
<1> QED
  BY <1>1, <1>2

(* The symbol whose order is filled or cancelled works none.               *)
LEMMA FreedWorking ==
  ASSUME WorkingIsThePending, WorkingIsThePending', NEW s \in Symbols, PendingOrders(s)' = {},
         \A x \in Symbols \ {s} : /\ PendingOrders(x)' = PendingOrders(x)
                                  /\ \A o \in PendingOrders(x) : orders'[o].side = orders[o].side
  PROVE  MWorking' = [MWorking EXCEPT ![s] = [side |-> "NONE", id |-> 0]]
<1>1. \A x \in Symbols \ {s} : WorkingOrder(x)' = WorkingOrder(x)
  BY SameWorking
<1>2. WorkingOrder(s)' = [side |-> "NONE", id |-> 0]
  BY DEF WorkingIsThePending
<1> QED
  BY <1>1, <1>2 DEF MWorking

(* The lots realised grow by the one of the trade inserted.                *)
LEMMA RealizedAppend ==
  ASSUME DBTypeOK, NEW t \in TradeRow, Inserts(t)
  PROVE  MRealized' = Append(MRealized, t.lot)
<1>1. trades \in Seq(TradeRow) /\ trades' = Append(trades, t) /\ Len(trades) \in Nat
  BY DEF DBTypeOK, Inserts
<1>2. DOMAIN trades = 1..Len(trades) /\ DOMAIN trades' = 1..(Len(trades) + 1)
  BY <1>1
<1>3. \A i \in 1..Len(trades) : trades'[i] = trades[i]
  BY <1>1
<1>4. trades'[Len(trades) + 1] = t
  BY <1>1
<1>5. \A i \in 1..Len(trades) : trades[i].lot \in Nat
  <2>1. \A i \in 1..Len(trades) : trades[i] \in TradeRow
    BY <1>1
  <2> QED
    BY <2>1 DEF TradeRow
<1>6. MRealized = [i \in 1..Len(trades) |-> trades[i].lot]
  BY <1>2 DEF MRealized
<1>7. MRealized \in Seq(Nat) /\ Len(MRealized) = Len(trades)
  BY <1>1, <1>5, <1>6
<1>8. Append(MRealized, t.lot) =
        [i \in 1..(Len(trades) + 1) |-> IF i = Len(trades) + 1 THEN t.lot ELSE MRealized[i]]
  BY <1>7
<1>9. MRealized' = [i \in 1..(Len(trades) + 1) |-> trades'[i].lot]
  BY <1>2 DEF MRealized
<1>10. ASSUME NEW i \in 1..(Len(trades) + 1)
       PROVE  trades'[i].lot = IF i = Len(trades) + 1 THEN t.lot ELSE MRealized[i]
  BY <1>1, <1>3, <1>4, <1>6
<1> QED
  BY <1>8, <1>9, <1>10

NothingWorks == [side |-> "NONE", id |-> 0]
MWork(s) ==
  /\ MWorking[s] = NothingWorks
  /\ \E w \in [side : {"BUY", "SELL"}, id : 1..MaxOrders] :
       /\ w.id \notin cash.buys /\ \A t \in Symbols : MWorking[t].id # w.id
       /\ (w.side = "SELL") <=> (MOpen[s] # 0)
       /\ MWorking' = [MWorking EXCEPT ![s] = w]
  /\ UNCHANGED <<MOpen, MRealized, cash.buys, MCredited>>
MDrop(s) ==
  /\ MWorking[s] # NothingWorks
  /\ MWorking' = [MWorking EXCEPT ![s] = NothingWorks]
  /\ UNCHANGED <<MOpen, MRealized, cash.buys, MCredited>>
MEnter(s) ==
  /\ MWorking[s].side = "BUY" /\ MOpen[s] = 0
  /\ MOpen' = [MOpen EXCEPT ![s] = MWorking[s].id]
  /\ cash.buys' = cash.buys \cup {MWorking[s].id}
  /\ MWorking' = [MWorking EXCEPT ![s] = NothingWorks]
  /\ UNCHANGED <<MRealized, MCredited>>
MExit(s) ==
  /\ MOpen[s] # 0
  /\ MOpen' = [MOpen EXCEPT ![s] = 0]
  /\ MRealized' = Append(MRealized, MOpen[s])
  /\ MCredited' = MCredited \cup {MOpen[s]}
  /\ \/ UNCHANGED MWorking
     \/ MWorking[s].side = "SELL" /\ MWorking' = [MWorking EXCEPT ![s] = NothingWorks]
  /\ UNCHANGED cash.buys
AccountStep ==
  \/ UNCHANGED <<MWorking, MOpen, MRealized, cash.buys, MCredited>>
  \/ \E s \in Symbols : MWork(s) \/ MDrop(s) \/ MEnter(s) \/ MExit(s)

(* The actions read through the mapping are those of PaperAccount.         *)
LEMMA Maps == AccountStep => [Account!Next]_(Account!vars)
BY DEF AccountStep, MWork, MDrop, MEnter, MExit, NothingWorks, Account!Next, Account!vars, Account!Work, Account!Drop, Account!Enter, Account!Exit,
       Account!Free, Account!NoOrder, Account!Working, MWorking, MOpen, MRealized, MCredited

LEMMA MapsInit == Init => Account!Init
<1> SUFFICES ASSUME Init PROVE Account!Init
  OBVIOUS
<1>1. orders = <<>> /\ trades = <<>> /\ \A s \in Symbols : positions[s].lot = 0
  BY DEF Init, DBInit, NoPosition
<1>2. cash.buys = {} /\ cash.exits = {}
  BY DEF Init, DBInit, NoFlows
<1>3. \A s \in Symbols : PendingOrders(s) = {}
  BY <1>1 DEF PendingOrders
<1>4. \A s \in Symbols : WorkingOrder(s) = [side |-> "NONE", id |-> 0]
  BY <1>3 DEF WorkingOrder, PendingOrder
<1>5. [i \in DOMAIN trades |-> trades[i].lot] = <<>>
  BY <1>1
<1> QED
  BY <1>1, <1>2, <1>4, <1>5 DEF Account!Init, Account!NoOrder

(* What the bar worker does to its tables is a step of the account.        *)
LEMMA SettlesMaps ==
  ASSUME Tables, Tables', Settles PROVE AccountStep
<1>a. /\ PendingInv /\ LotTables /\ AccountTables /\ DBTypeOK /\ WorkingIsThePending /\ WorkingIsThePending'
      /\ OnePendingOrder /\ CashReflectsLedger /\ CashReflectsLedger' /\ cash \in Flows
  BY DEF Tables, AloneInv, PendingInv, TypeOK, AccountTables, DBTypeOK
<1>b. cash.buys = FilledBuys /\ cash.exits = DOMAIN trades
  BY <1>a DEF CashReflectsLedger
<1>c. /\ MCredited = {trades[i].lot : i \in DOMAIN trades}
      /\ MCredited' = {trades'[i].lot : i \in DOMAIN trades'}
  BY <1>a DEF CashReflectsLedger, MCredited
<1>d. ASSUME NEW S \in SUBSET Symbols, orders' = orders
      PROVE  \A x \in S : WorkingOrder(x)' = WorkingOrder(x)
  <2>1. \A x \in S : /\ PendingOrders(x)' = PendingOrders(x)
                     /\ \A o \in PendingOrders(x) : orders'[o].side = orders[o].side
    BY <1>d DEF PendingOrders
  <2> QED
    BY <1>a, <1>d, <2>1, SameWorking
<1>1. CASE Quiet /\ SameEntries(Symbols) /\ cash' = cash
  <2>1. orders' = orders /\ trades' = trades /\ cash' = cash
        /\ \A s \in Symbols : positions'[s].lot = positions[s].lot
    BY <1>1 DEF Quiet, SameLots
  <2>2. MWorking' = MWorking
    BY <1>d, <2>1 DEF MWorking
  <2>3. MOpen' = MOpen /\ MRealized' = MRealized /\ MCredited' = MCredited
    BY <2>1 DEF MOpen, MRealized, MCredited
  <2> QED
    BY <2>1, <2>2, <2>3 DEF AccountStep
<1>2. ASSUME NEW o \in DOMAIN orders, Cancels(o)
      PROVE  AccountStep
  <2>1. positions' = positions /\ trades' = trades /\ cash' = cash
    BY <1>2 DEF Cancels, CancelOrder
  <2>2. MOpen' = MOpen /\ MRealized' = MRealized /\ MCredited' = MCredited
    BY <2>1 DEF MOpen, MRealized, MCredited
  <2>3. PICK s \in Symbols : orders[o].symbol = s
    BY <1>a, OrderIds
  <2>4. CASE orders[o].status # "PENDING"
    <3>1. orders' = orders
      BY <1>2, <2>4 DEF Cancels, CancelOrder
    <3>2. MWorking' = MWorking
      BY <1>d, <3>1 DEF MWorking
    <3> QED
      BY <2>1, <2>2, <3>2 DEF AccountStep
  <2>5. CASE orders[o].status = "PENDING"
    <3>1. orders' = [orders EXCEPT ![o] = [orders[o] EXCEPT !.status = "CANCELLED"]]
      BY <1>2, <1>a, <2>5 DEF Cancels, CancelOrder, DBTypeOK
    <3>2. /\ DOMAIN orders' = DOMAIN orders
          /\ \A p \in DOMAIN orders : p # o => orders'[p] = orders[p]
          /\ orders'[o].status = "CANCELLED"
      <4>1. DOMAIN orders' = DOMAIN orders /\ \A p \in DOMAIN orders : p # o => orders'[p] = orders[p]
        BY <3>1
      <4>2. orders'[o] = [orders[o] EXCEPT !.status = "CANCELLED"] /\ orders[o] \in OrderRow
        BY <1>a, <3>1, OrderIds
      <4> QED
        BY <4>1, <4>2 DEF OrderRow
    <3>3. o \in PendingOrders(s) /\ \A p \in PendingOrders(s) : p = o
      BY <1>a, <2>3, <2>5 DEF PendingOrders, OnePendingOrder
    <3>4. PendingOrders(s)' = {}
      BY <3>2, <3>3 DEF PendingOrders
    <3>5. \A x \in Symbols \ {s} : /\ PendingOrders(x)' = PendingOrders(x)
                                   /\ \A p \in PendingOrders(x) : orders'[p].side = orders[p].side
      <4> SUFFICES ASSUME NEW x \in Symbols \ {s}
                   PROVE  /\ PendingOrders(x)' = PendingOrders(x)
                          /\ \A p \in PendingOrders(x) : orders'[p].side = orders[p].side
        OBVIOUS
      <4>1. o \notin PendingOrders(x) /\ o \notin PendingOrders(x)'
        BY <2>3, <3>2 DEF PendingOrders
      <4> QED
        BY <3>2, <4>1 DEF PendingOrders
    <3>6. MWorking' = [MWorking EXCEPT ![s] = NothingWorks]
      BY <1>a, <2>3, <3>4, <3>5, FreedWorking DEF NothingWorks
    <3>7. MWorking[s] # NothingWorks
      <4>1. MWorking[s] = [side |-> orders[o].side, id |-> o] /\ o # 0
        BY <1>a, <2>3, <3>3, OrderIds DEF MWorking, WorkingIsThePending, NothingWorks
      <4> QED
        BY <4>1 DEF NothingWorks
    <3>8. MDrop(s)
      BY <2>1, <2>2, <3>6, <3>7 DEF MDrop
    <3> QED
      BY <2>3, <3>8 DEF AccountStep
  <2> QED
    BY <2>4, <2>5
(* the order that was filled is the one its symbol was working             *)
<1>3. ASSUME NEW s \in Symbols, NEW o \in PendingOrders(s), NEW open \in Int, MarkFilled(o, open)
      PROVE  /\ MWorking[s] = [side |-> orders[o].side, id |-> o]
             /\ MWorking' = [MWorking EXCEPT ![s] = NothingWorks]
             /\ FilledBuys' = IF orders[o].side = "BUY" THEN FilledBuys \cup {o} ELSE FilledBuys
  <2>1. /\ o \in DOMAIN orders /\ orders[o].status = "PENDING" /\ orders[o].symbol = s
        /\ DOMAIN orders' = DOMAIN orders
        /\ \A p \in DOMAIN orders : p # o => orders'[p] = orders[p]
        /\ orders'[o].symbol = s /\ orders'[o].side = orders[o].side
        /\ orders'[o].status = "FILLED"
    BY <1>3, <1>a, FilledRow
  <2>2. \A p \in PendingOrders(s) : p = o
    BY <1>a DEF OnePendingOrder
  <2>3. PendingOrders(s)' = {}
    BY <2>1, <2>2 DEF PendingOrders
  <2>4. \A x \in Symbols \ {s} : /\ PendingOrders(x)' = PendingOrders(x)
                                 /\ \A p \in PendingOrders(x) : orders'[p].side = orders[p].side
    <3> SUFFICES ASSUME NEW x \in Symbols \ {s}
                 PROVE  /\ PendingOrders(x)' = PendingOrders(x)
                        /\ \A p \in PendingOrders(x) : orders'[p].side = orders[p].side
      OBVIOUS
    <3>1. o \notin PendingOrders(x)
      BY <2>1 DEF PendingOrders
    <3> QED
      BY <2>1, <3>1 DEF PendingOrders
  <2>5. MWorking' = [MWorking EXCEPT ![s] = NothingWorks]
    BY <1>a, <2>3, <2>4, FreedWorking DEF NothingWorks
  <2>6. MWorking[s] = [side |-> orders[o].side, id |-> o]
    BY <1>a DEF MWorking, WorkingIsThePending, NothingWorks
  <2>7. FilledBuys' = IF orders[o].side = "BUY" THEN FilledBuys \cup {o} ELSE FilledBuys
    BY <2>1 DEF FilledBuys
  <2> QED
    BY <2>5, <2>6, <2>7
<1>4. ASSUME NEW s \in Symbols, NEW o \in DOMAIN orders, NEW open \in Int, Buys(s, o, open),
             cash' = Debited(cash, o)
      PROVE  AccountStep
  <2>1. /\ o \in PendingOrders(s) /\ orders[o].side = "BUY" /\ positions[s].lot = 0
        /\ MarkFilled(o, open) /\ trades' = trades /\ positions'[s].lot = o
        /\ \A x \in Symbols \ {s} : positions'[x].lot = positions[x].lot
    BY <1>4 DEF Buys, SameLots, Held
  <2>2. /\ MWorking[s] = [side |-> "BUY", id |-> o]
        /\ MWorking' = [MWorking EXCEPT ![s] = NothingWorks]
    BY <1>3, <2>1
  <2>3. MOpen[s] = 0 /\ MOpen' = [MOpen EXCEPT ![s] = o]
    BY <2>1 DEF MOpen
  <2>4. cash.buys' = cash.buys \cup {o} /\ cash'.exits = cash.exits
    BY <1>4, <1>a DEF Debited, Flows
  <2>5. MRealized' = MRealized /\ MCredited' = MCredited
    BY <2>1, <2>4 DEF MRealized, MCredited
  <2>6. MWorking[s].side = "BUY" /\ MWorking[s].id = o
    BY <2>2
  <2>7. MEnter(s)
    BY <2>2, <2>3, <2>4, <2>5, <2>6 DEF MEnter
  <2> QED
    BY <2>7 DEF AccountStep
<1>5. ASSUME NEW s \in Symbols, NEW t \in TradeRow, NEW open \in Int, Closes(s, t, open), Held(s),
             positions[s].lot = t.lot, cash' = Credited(cash)
      PROVE  AccountStep
  <2> DEFINE n == Len(trades) + 1
  <2>1. /\ Inserts(t) /\ positions'[s].lot = 0
        /\ \A x \in Symbols \ {s} : positions'[x].lot = positions[x].lot
    BY <1>5 DEF Closes, SameLots
  <2>2. MOpen[s] = t.lot /\ MOpen[s] # 0 /\ MOpen' = [MOpen EXCEPT ![s] = 0]
    BY <1>5, <2>1 DEF MOpen, Held
  <2>3. MRealized' = Append(MRealized, t.lot)
    BY <1>a, <2>1, RealizedAppend
  <2>4. /\ DOMAIN trades' = DOMAIN trades \cup {n}
        /\ \A i \in DOMAIN trades : trades'[i] = trades[i]
        /\ trades'[n] = t
    BY <1>a, <2>1, InsertedTrade
  <2>5. cash.buys' = cash.buys
    BY <1>5, <1>a DEF Credited, Flows
  <2> HIDE DEF n
  <2>6. MCredited' = MCredited \cup {t.lot}
    BY <1>c, <2>4
  <2>7. \/ MWorking' = MWorking
        \/ /\ MWorking[s].side = "SELL"
           /\ MWorking' = [MWorking EXCEPT ![s] = NothingWorks]
    <3>1. CASE orders' = orders
      BY <1>d, <3>1 DEF MWorking
    <3>2. CASE t.exitOrder \in PendingSells(s) /\ MarkFilled(t.exitOrder, open)
      <4>1. t.exitOrder \in PendingOrders(s) /\ orders[t.exitOrder].side = "SELL"
        BY <3>2 DEF PendingSells
      <4>2. /\ MWorking[s] = [side |-> orders[t.exitOrder].side, id |-> t.exitOrder]
            /\ MWorking' = [MWorking EXCEPT ![s] = NothingWorks]
        BY <1>3, <3>2, <4>1
      <4>3. MWorking[s].side = "SELL"
        BY <4>1, <4>2
      <4> QED
        BY <4>2, <4>3
    <3> QED
      BY <1>5, <3>1, <3>2 DEF Closes
  <2>8. MExit(s)
    BY <2>2, <2>3, <2>5, <2>6, <2>7 DEF MExit
  <2> QED
    BY <2>8 DEF AccountStep
<1>6. ASSUME NEW s \in Symbols, NEW r \in OrderRow, Places(s, r), cash' = cash,
             Len(orders) < MaxOrders, r.side = "SELL" <=> Held(s)
      PROVE  AccountStep
  <2> DEFINE n == Len(orders) + 1
             w == [side |-> r.side, id |-> n]
  <2>1. /\ r.symbol = s /\ r.status = "PENDING" /\ PendingOrders(s) = {}
        /\ orders' = Append(orders, r) /\ trades' = trades
        /\ \A x \in Symbols : positions'[x].lot = positions[x].lot
    BY <1>6 DEF Places, SameLots
  <2>2. /\ DOMAIN orders' = DOMAIN orders \cup {n} /\ n \notin DOMAIN orders
        /\ \A p \in DOMAIN orders : orders'[p] = orders[p]
        /\ orders'[n] = r
    BY <1>a, <2>1, InsertRow DEF DBTypeOK
  <2>3. n \in 1..MaxOrders /\ n # 0
    BY <1>6, <1>a, OrderIds, LabAssumption
  <2>4. r.side \in {"BUY", "SELL"}
    BY DEF OrderRow, Sides
  <2>5. w \in [side : {"BUY", "SELL"}, id : 1..MaxOrders] /\ w.id = n /\ w.side = r.side
    BY <2>3, <2>4
  <2> HIDE DEF n, w
  <2>6. MWorking[s] = NothingWorks
    BY <1>a, <2>1 DEF MWorking, WorkingIsThePending, NothingWorks
  <2>7. w.id \notin cash.buys
    BY <1>b, <2>2, <2>5 DEF FilledBuys
  <2>8. \A x \in Symbols : MWorking[x].id # w.id
    <3> SUFFICES ASSUME NEW x \in Symbols PROVE MWorking[x].id # n
      BY <2>5
    <3>1. CASE PendingOrders(x) = {}
      BY <1>a, <2>3, <3>1 DEF MWorking, WorkingIsThePending, NothingWorks
    <3>2. CASE PendingOrders(x) # {}
      <4>1. PICK p \in PendingOrders(x) : TRUE
        BY <3>2
      <4>2. MWorking[x].id = p /\ p \in DOMAIN orders
        BY <1>a, <4>1 DEF MWorking, WorkingIsThePending, PendingOrders
      <4> QED
        BY <2>2, <4>2
    <3> QED
      BY <3>1, <3>2
  <2>9. (w.side = "SELL") <=> (MOpen[s] # 0)
    BY <1>6, <2>5 DEF MOpen, Held
  <2>10. WorkingOrder(s)' = w
    <3>1. n \in PendingOrders(s)'
      BY <2>1, <2>2 DEF PendingOrders
    <3>2. WorkingOrder(s)' = [side |-> orders'[n].side, id |-> n]
      BY <1>a, <3>1 DEF WorkingIsThePending
    <3> QED
      BY <2>2, <3>2 DEF w
  <2>11. \A x \in Symbols \ {s} : WorkingOrder(x)' = WorkingOrder(x)
    <3>1. \A x \in Symbols \ {s} : /\ PendingOrders(x)' = PendingOrders(x)
                                   /\ \A p \in PendingOrders(x) : orders'[p].side = orders[p].side
      <4> SUFFICES ASSUME NEW x \in Symbols \ {s}
                   PROVE  /\ PendingOrders(x)' = PendingOrders(x)
                          /\ \A p \in PendingOrders(x) : orders'[p].side = orders[p].side
        OBVIOUS
      <4> QED
        BY <2>1, <2>2 DEF PendingOrders
    <3>2. Symbols \ {s} \in SUBSET Symbols
      OBVIOUS
    <3> QED
      BY <1>a, <3>1, <3>2, SameWorking
  <2>12. MWorking' = [MWorking EXCEPT ![s] = w]
    BY <2>10, <2>11 DEF MWorking
  <2>13. MOpen' = MOpen /\ MRealized' = MRealized /\ MCredited' = MCredited /\ cash.buys' = cash.buys
    BY <1>6, <2>1 DEF MOpen, MRealized, MCredited
  <2>14. MWork(s)
    BY <2>5, <2>6, <2>7, <2>8, <2>9, <2>12, <2>13 DEF MWork
  <2> QED
    BY <2>14 DEF AccountStep
<1> QED
  BY <1>1, <1>2, <1>4, <1>5, <1>6 DEF Settles

LEMMA BarStepMaps == Tables /\ Tables' /\ [BarNext]_vars => [Account!Next]_(Account!vars)
<1> SUFFICES ASSUME Tables, Tables', [BarNext]_vars PROVE [Account!Next]_(Account!vars)
  OBVIOUS
<1>1. Settles
  BY EveryBarStepSettles DEF Tables, AloneInv
<1> QED
  BY <1>1, SettlesMaps, Maps

(* Every step of the bar worker alone is a step of the abstract account or *)
(* leaves it alone, for every set of symbols and horizons and every bound. *)
THEOREM TheBarWorkerIsTheAccount == BarSpec => ImplementsAccount
<1>1. AloneInv => Tables
  BY WorkingKnown DEF Tables
<1> QED
  BY <1>1, AloneInvInit, AloneInvStep, MapsInit, BarStepMaps, PTL DEF BarSpec, ImplementsAccount, Account!Spec

-----------------------------------------------------------------------------
(* The clock of each horizon.  While no bar is abandoned, the horizon that *)
(* owns a symbol visits its bars one by one (BarsFollow): the cursors lie  *)
(* on the grid of their horizon's bars, the bar under way is the first     *)
(* after the cursor, and what owns the symbol - its position, its pending  *)
(* order - is of the horizon under way (OwnerWorks, OneOwner).  Hence no   *)
(* order or decision lies ahead of what its horizon has processed          *)
(* (OrdersBehind, DecisionsBehind), and a position is as old as the bars   *)
(* processed since it was opened (AgesCount).  A cursor may jump only for  *)
(* a horizon that owns nothing; an abandoned bar breaks AgesCount, which   *)
(* is why both properties are conditional.                                 *)

(* Arithmetic of bars: multiples of a period. *)
(* Division with remainder of a natural. *)
LEMMA Quotient ==
  ASSUME NEW p \in Nat \ {0}, NEW a \in Nat
  PROVE  /\ a % p \in 0..(p - 1) /\ a \div p \in Nat
         /\ a = p * (a \div p) + (a % p)
<1>1. a % p \in 0..(p - 1)
  OBVIOUS
<1>2. a \div p \in Int
  OBVIOUS
<1>3. a = p * (a \div p) + (a % p)
  OBVIOUS
<1>4. a \div p >= 0
  <2>1. SUFFICES ASSUME a \div p <= -1 PROVE FALSE
    BY <1>2
  <2> DEFINE q == a \div p
  <2>2. q \in Int /\ q <= -1 /\ a = p * q + (a % p)
    BY <1>2, <1>3, <2>1
  <2> HIDE DEF q
  <2>3. p * q <= -p
    <3>1. p * (-1 - q) >= 0
      BY <2>2
    <3> QED
      BY <2>2, <3>1
  <2> QED
    BY <1>1, <2>2, <2>3
<1> QED
  BY <1>1, <1>2, <1>3, <1>4

(* Of two multiples the larger is larger by a period at least. *)
LEMMA MonoMul ==
  ASSUME NEW p \in Nat \ {0}, NEW q \in Int, NEW r \in Int, q < r
  PROVE  p * q + p <= p * r
<1>1. p * (r - q - 1) >= 0
  OBVIOUS
<1> QED
  BY <1>1

LEMMA ModZero ==
  ASSUME NEW p \in Nat \ {0}, NEW a \in Nat, a % p = 0
  PROVE  \E q \in Nat : a = p * q
<1> DEFINE q == a \div p
<1>1. q \in Nat /\ a = p * q + (a % p)
  BY Quotient
<1> HIDE DEF q
<1>2. p * q \in Nat
  BY <1>1
<1>3. a = p * q
  BY <1>1, <1>2
<1> QED
  BY <1>1, <1>3

(* Between two multiples there is room for one more, or they are adjacent. *)
LEMMA Multiples ==
  ASSUME NEW p \in Nat \ {0}, NEW a \in Nat, NEW b \in Nat, a % p = 0, b % p = 0, a < b
  PROVE  b - p \in Nat /\ a <= b - p /\ (b - p) % p = 0
<1>1. PICK q \in Nat : a = p * q
  BY ModZero
<1>2. PICK r \in Nat : b = p * r
  BY ModZero
<1>3. q < r
  <2>1. r < q => b < a
    BY <1>1, <1>2, MonoMul
  <2>2. r # q
    BY <1>1, <1>2
  <2> QED
    BY <2>1, <2>2
<1>4. p * q + p <= p * r
  BY <1>3, MonoMul
<1>5. r - 1 \in Nat /\ b - p = p * (r - 1)
  BY <1>1, <1>2, <1>3
<1>6. (b - p) % p = 0
  BY <1>5
<1> QED
  BY <1>1, <1>2, <1>4, <1>6

(* What LatestBar computes is the last multiple there is. *)
LEMMA LastMultiple ==
  ASSUME NEW p \in Nat \ {0}, NEW n \in Nat
  PROVE  /\ n - (n % p) \in 0..n /\ (n - (n % p)) % p = 0
         /\ \A a \in Nat : a <= n /\ a % p = 0 => a <= n - (n % p)
<1> DEFINE q == n \div p
           m == n % p
<1>1. q \in Nat /\ m \in 0..(p - 1) /\ n = p * q + m
  BY Quotient
<1> HIDE DEF q, m
<1>2. p * q \in Nat
  BY <1>1
<1>3. n - m = p * q
  BY <1>1, <1>2
<1>4. (n - m) % p = 0
  BY <1>1, <1>3
<1>5. ASSUME NEW a \in Nat, a <= n, a % p = 0 PROVE a <= n - m
  <2>1. PICK r \in Nat : a = p * r
    BY <1>5, ModZero
  <2>2. q < r => p * q + p <= p * r
    BY <1>1, MonoMul
  <2>3. r < q => p * r + p <= p * q
    BY <1>1, MonoMul
  <2> QED
    BY <1>1, <1>2, <1>3, <1>5, <2>1, <2>2, <2>3
<1>6. n - m \in 0..n
  BY <1>1, <1>2, <1>3
<1> QED
  BY <1>4, <1>5, <1>6 DEF m

(* The bar worker: at a symbol, in its loop over bars, within a bar; and   *)
(* the labels at which the position's row already counts the bar.          *)
Busy == worker.at # "idle"
InLoop == worker.at \notin {"idle", "begin"}
InBar == InLoop /\ worker.at # "bar"
CountedLabels ==
  {"financing", "charge", "margin", "liquidate", "liquidating", "decide", "order", "advance"}
Counted == worker.at \in CountedLabels
(* the last bar of the loop taken up *)
From == IF InBar THEN worker.bar ELSE cursor[worker.hz][worker.sym]

(* a cursor is 0 or a closed bar of its horizon *)
CursorsOnGrid ==
  \A h \in Horizons, s \in Symbols : cursor[h][s] \in 0..now /\ cursor[h][s] % Period[h] = 0

(* the bars still to come follow the one under way without a gap *)
BarsFollow ==
  /\ InLoop => cursor[worker.hz][worker.sym] > 0
  /\ InLoop => \A b \in worker.bars :
       /\ b \in 1..now /\ b % Period[worker.hz] = 0 /\ b > From
       /\ OpenOf(worker.hz, b) \in worker.bars \cup {From}
  /\ InBar => /\ worker.bar \in 1..now /\ worker.bar % Period[worker.hz] = 0
              /\ OpenOf(worker.hz, worker.bar) = cursor[worker.hz][worker.sym]

(* what owns the symbol under way is of the horizon under way *)
OwnerWorks ==
  Busy => /\ Held(worker.sym) => positions[worker.sym].hz = worker.hz
          /\ \A o \in PendingOrders(worker.sym) : orders[o].hz = worker.hz

(* an order knows its horizon, and it is that of the position *)
OneOwner ==
  \A s \in Symbols : \A o \in PendingOrders(s) :
    orders[o].hz \in Horizons /\ (Held(s) => orders[o].hz = positions[s].hz)

(* how far a horizon's decisions and orders for a symbol may go *)
PassedBy(w, c, h, s) ==
  IF w.at \in {"order", "advance"} /\ w.sym = s /\ w.hz = h THEN w.bar ELSE c[h][s]
Passed(h, s) == PassedBy(worker, cursor, h, s)
NextPassed(h, s) == PassedBy(worker', cursor', h, s)

(* no order was decided on a bar its horizon did not reach *)
OrdersBehind ==
  \A s \in Symbols : \A o \in PendingOrders(s) :
    /\ orders[o].created % Period[orders[o].hz] = 0
    /\ orders[o].created <= Passed(orders[o].hz, s)

(* nor was a decision taken, so the one of the bar under way is new *)
DecisionsBehind ==
  /\ \A d \in decisions : d.bar <= Passed(d.hz, d.symbol)
  /\ At("order") => worker.did = TRUE

(* the bar up to which the age of a position of h counts *)
MarkBy(w, c, h, s) == IF w.at \in CountedLabels /\ w.sym = s THEN w.bar ELSE c[h][s]
AgeMark(h, s) == MarkBy(worker, cursor, h, s)
NextMark(h, s) == MarkBy(worker', cursor', h, s)
CountedTo(p) == p.bar + (p.held - 1) * Period[p.hz]
(* bars_held counts the bars from the fill up to there *)
AgesCount ==
  /\ \A s \in Symbols : Held(s) =>
       LET p == positions[s] IN
       /\ CountedTo(p) = AgeMark(p.hz, s)
       /\ cursor[p.hz][s] > 0
  /\ At("guard") => Mine.hz = worker.hz /\ CountedTo(Mine) = worker.bar

HorizonParts ==
  /\ CursorsOnGrid /\ BarsFollow /\ OwnerWorks /\ OneOwner
  /\ OrdersBehind /\ DecisionsBehind /\ AgesCount
HorizonInv == crashes = 0 => HorizonParts


-----------------------------------------------------------------------------
(* The worker goes on with the same bar. *)
Keeps ==
  /\ worker'.sym = worker.sym /\ worker'.hz = worker.hz
  /\ worker'.bars = worker.bars /\ worker'.bar = worker.bar

LEMMA MovesKeep ==
  ASSUME worker \in WorkerState, NEW l, Goto(l) \/ Done(l) \/ Read(l)
  PROVE  Keeps /\ worker'.at = l
<1>1. CASE Goto(l)
  BY <1>1 DEF Goto, Keeps, WorkerState
<1>2. CASE Done(l)
  BY <1>2 DEF Done, Keeps, WorkerState
<1>3. CASE Read(l)
  BY <1>3 DEF Read, Keeps, WorkerState
<1> QED
  BY <1>1, <1>2, <1>3

(* The bar before a later bar of the horizon is not before the earlier.    *)
LEMMA GridStep ==
  ASSUME NEW h \in Horizons, NEW a \in Nat, NEW b \in Nat,
         a % Period[h] = 0, b % Period[h] = 0, a < b
  PROVE  OpenOf(h, b) \in Nat /\ a <= OpenOf(h, b) /\ OpenOf(h, b) % Period[h] = 0
<1>1. Period[h] \in Nat \ {0}
  BY LabAssumption
<1> QED
  BY <1>1, Multiples DEF OpenOf

(* The latest closed bar is on the grid, and no bar of it is later.        *)
LEMMA LatestOnGrid ==
  ASSUME NEW h \in Horizons, now \in Nat
  PROVE  /\ LatestBar(h) \in 0..now /\ LatestBar(h) % Period[h] = 0
         /\ \A a \in Nat : a <= now /\ a % Period[h] = 0 => a <= LatestBar(h)
<1>1. Period[h] \in Nat \ {0}
  BY LabAssumption
<1> QED
  BY <1>1, LastMultiple DEF LatestBar

-----------------------------------------------------------------------------
(* What keeps each part of it. *)

LEMMA CursorsKept ==
  ASSUME CursorsOnGrid, cursor' = cursor, now \in Nat, now' \in Nat, now <= now'
  PROVE  CursorsOnGrid'
BY DEF CursorsOnGrid

LEMMA BarsKept ==
  ASSUME BarsFollow, cursor' = cursor, now \in Nat, now' \in Nat, now <= now',
         InLoop' => InLoop /\ Keeps /\ (InBar' <=> InBar)
  PROVE  BarsFollow'
<1> USE DEF Keeps
<1>1. InLoop' => From' = From
  BY DEF From
<1>2. InLoop' => cursor'[worker'.hz][worker'.sym] > 0
  BY DEF BarsFollow
<1>3. ASSUME InLoop', NEW b \in worker'.bars
      PROVE  /\ b \in 1..now' /\ b % Period[worker'.hz] = 0 /\ b > From'
             /\ OpenOf(worker'.hz, b) \in worker'.bars \cup {From'}
  BY <1>1, <1>3 DEF BarsFollow
<1>4. ASSUME InBar'
      PROVE  /\ worker'.bar \in 1..now' /\ worker'.bar % Period[worker'.hz] = 0
             /\ OpenOf(worker'.hz, worker'.bar) = cursor'[worker'.hz][worker'.sym]
  BY <1>4 DEF BarsFollow, InBar
<1>5. (\A b \in worker.bars :
         /\ b \in 1..now /\ b % Period[worker.hz] = 0 /\ b > From
         /\ OpenOf(worker.hz, b) \in worker.bars \cup {From})'
      <=> \A b \in worker'.bars :
         /\ b \in 1..now' /\ b % Period[worker'.hz] = 0 /\ b > From'
         /\ OpenOf(worker'.hz, b) \in worker'.bars \cup {From'}
  BY DEF OpenOf
<1> QED
  BY <1>2, <1>3, <1>4, <1>5 DEF BarsFollow, OpenOf

(* Of orders and positions, only those of the worker's symbol and horizon are new. *)
LEMMA OwnersKept ==
  ASSUME OwnerWorks, OneOwner,
         \A s \in Symbols : \A o \in PendingOrders(s)' :
           \/ o \in PendingOrders(s) /\ orders'[o].hz = orders[o].hz
           \/ Busy /\ s = worker.sym /\ orders'[o].hz = worker.hz,
         \A s \in Symbols : positions'[s].lot # 0 =>
           \/ Held(s) /\ positions'[s].hz = positions[s].hz
           \/ Busy /\ s = worker.sym /\ positions'[s].hz = worker.hz,
         Busy => worker.sym \in Symbols, worker.hz \in Horizons,
         Busy' => Busy /\ worker'.sym = worker.sym /\ worker'.hz = worker.hz
  PROVE  OwnerWorks' /\ OneOwner'
<1>1. OwnerWorks'
  BY DEF OwnerWorks, Held
<1>2. ASSUME NEW s \in Symbols, NEW o \in PendingOrders(s)'
      PROVE  orders'[o].hz \in Horizons /\ (positions'[s].lot # 0 => orders'[o].hz = positions'[s].hz)
  BY <1>2 DEF OwnerWorks, OneOwner, Held
<1>3. OneOwner'
  BY <1>2 DEF OneOwner, Held
<1> QED
  BY <1>1, <1>3

(* A pending order stays behind when its horizon goes forward.             *)
LEMMA OrdersKept ==
  ASSUME OrdersBehind,
         \A s \in Symbols : \A o \in PendingOrders(s)' :
           \/ o \in PendingOrders(s) /\ orders'[o] = orders[o]
           \/ /\ orders'[o].created % Period[orders'[o].hz] = 0
              /\ orders'[o].created <= NextPassed(orders'[o].hz, s),
         \A s \in Symbols : \A o \in PendingOrders(s) :
           orders[o].created \in Nat /\ orders[o].hz \in Horizons,
         \A h \in Horizons, s \in Symbols :
           /\ Passed(h, s) \in Nat /\ NextPassed(h, s) \in Nat /\ Passed(h, s) <= NextPassed(h, s)
  PROVE  OrdersBehind'
<1>1. ASSUME NEW s \in Symbols, NEW o \in PendingOrders(s)'
      PROVE  /\ orders'[o].created % Period[orders'[o].hz] = 0
             /\ orders'[o].created <= NextPassed(orders'[o].hz, s)
  <2>1. CASE o \in PendingOrders(s) /\ orders'[o] = orders[o]
    <3>1. /\ orders[o].created % Period[orders[o].hz] = 0
          /\ orders[o].created <= Passed(orders[o].hz, s)
      BY <2>1 DEF OrdersBehind
    <3>2. orders[o].hz \in Horizons /\ orders[o].created \in Nat
      BY <2>1
    <3>3. PICK h \in Horizons : h = orders[o].hz
      BY <3>2
    <3>4. /\ Passed(h, s) \in Nat /\ NextPassed(h, s) \in Nat /\ Passed(h, s) <= NextPassed(h, s)
      OBVIOUS
    <3>5. orders[o].created <= NextPassed(h, s)
      BY <3>1, <3>2, <3>3, <3>4
    <3> QED
      BY <2>1, <3>1, <3>3, <3>5
  <2> QED
    BY <1>1, <2>1
<1> QED
  BY <1>1 DEF OrdersBehind, Passed, NextPassed

(* So does a decision.                                                     *)
LEMMA DecisionsKept ==
  ASSUME DecisionsBehind, decisions \subseteq [hz : Horizons, symbol : Symbols, bar : Nat],
         \A d \in decisions' : d \in decisions \/ d.bar <= NextPassed(d.hz, d.symbol),
         \A h \in Horizons, s \in Symbols :
           /\ Passed(h, s) \in Nat /\ NextPassed(h, s) \in Nat /\ Passed(h, s) <= NextPassed(h, s),
         worker'.at = "order" => worker'.did = TRUE
  PROVE  DecisionsBehind'
<1>1. ASSUME NEW d \in decisions' PROVE d.bar <= NextPassed(d.hz, d.symbol)
  <2>1. CASE d \in decisions
    <3>1. d.hz \in Horizons /\ d.symbol \in Symbols /\ d.bar \in Nat /\ d.bar <= Passed(d.hz, d.symbol)
      BY <2>1 DEF DecisionsBehind
    <3> DEFINE h == d.hz
               s == d.symbol
    <3>2. /\ Passed(h, s) \in Nat /\ NextPassed(h, s) \in Nat /\ Passed(h, s) <= NextPassed(h, s)
      BY <3>1
    <3> QED
      BY <3>1, <3>2
  <2> QED
    BY <1>1, <2>1
<1> QED
  BY <1>1 DEF DecisionsBehind, At, Passed, NextPassed

(* A position is left as old as its mark says, or written so.              *)
LEMMA AgesKept ==
  ASSUME AgesCount,
         \A s \in Symbols : positions'[s].lot # 0 =>
           LET h == positions'[s].hz IN
           \/ positions'[s] = positions[s] /\ NextMark(h, s) = AgeMark(h, s) /\ cursor'[h][s] = cursor[h][s]
           \/ CountedTo(positions'[s]) = NextMark(h, s) /\ cursor'[h][s] > 0,
         \/ worker'.at # "guard" \/ worker' = worker
         \/ worker'.book[worker'.sym].hz = worker'.hz
            /\ CountedTo(worker'.book[worker'.sym]) = worker'.bar
  PROVE  AgesCount'
<1>2. ASSUME NEW s \in Symbols, positions'[s].lot # 0
      PROVE  /\ CountedTo(positions'[s]) = NextMark(positions'[s].hz, s)
             /\ cursor'[positions'[s].hz][s] > 0
  <2>1. CASE /\ positions'[s] = positions[s] /\ NextMark(positions'[s].hz, s) = AgeMark(positions'[s].hz, s)
             /\ cursor'[positions'[s].hz][s] = cursor[positions'[s].hz][s]
    BY <1>2, <2>1 DEF AgesCount, Held
  <2> QED
    BY <1>2, <2>1
<1>3. worker'.at = "guard" =>
        /\ worker'.book[worker'.sym].hz = worker'.hz
        /\ CountedTo(worker'.book[worker'.sym]) = worker'.bar
  BY DEF AgesCount, At, Mine
<1> QED
  BY <1>2, <1>3 DEF AgesCount, Held, At, Mine, CountedTo, AgeMark, NextMark

-----------------------------------------------------------------------------
(* What the types give a step. *)
LEMMA TablesTyped ==
  ASSUME PendingInv
  PROVE  /\ DBTypeOK /\ worker \in WorkerState /\ now \in Nat /\ crashes \in Nat
         /\ worker.hz \in Horizons /\ worker.bar \in Nat /\ worker.bars \subseteq Nat
         /\ worker.order \in Nat /\ worker.side \in Sides /\ worker.liq \subseteq Symbols
         /\ worker.at # "idle" => worker.sym \in Symbols /\ Mine \in PositionRow
         /\ \A s \in Symbols : positions[s] \in PositionRow
         /\ decisions \subseteq [hz : Horizons, symbol : Symbols, bar : Nat]
         /\ \A h \in Horizons : Period[h] \in Nat \ {0}
<1>1. /\ DBTypeOK /\ worker \in WorkerState /\ now \in Nat /\ crashes \in Nat
      /\ worker.at # "idle" => worker.sym \in Symbols
  BY DEF PendingInv, TypeOK, BusyHasSymbol, At
<1>2. /\ worker.hz \in Horizons /\ worker.bar \in Nat /\ worker.bars \subseteq Nat
      /\ worker.order \in Nat /\ worker.side \in Sides /\ worker.liq \subseteq Symbols
      /\ worker.book \in [Symbols -> PositionRow]
  BY <1>1 DEF WorkerState
<1>3. /\ \A s \in Symbols : positions[s] \in PositionRow
      /\ decisions \subseteq [hz : Horizons, symbol : Symbols, bar : Nat]
  BY <1>1 DEF DBTypeOK
<1>4. worker.at # "idle" => Mine \in PositionRow
  BY <1>1, <1>2 DEF Mine
<1> QED
  BY <1>1, <1>2, <1>3, <1>4, LabAssumption

LEMMA PendingTyped ==
  ASSUME PendingInv, OneOwner
  PROVE  \A s \in Symbols : \A o \in PendingOrders(s) :
           /\ orders[o] \in OrderRow /\ orders[o].symbol = s
           /\ orders[o].created \in Nat /\ orders[o].hz \in Horizons
<1>1. \A o \in DOMAIN orders : orders[o] \in OrderRow
  BY TablesTyped DEF DBTypeOK
<1>2. \A o \in DOMAIN orders : orders[o].created \in Nat
  BY <1>1 DEF OrderRow
<1> QED
  BY <1>1, <1>2 DEF PendingOrders, OneOwner

(* A cursor that goes back nowhere leaves no order or decision ahead. *)
LEMMA PassedGrows ==
  ASSUME PendingInv, CursorsOnGrid, BarsFollow, worker'.bar \in Nat,
         \A h \in Horizons, s \in Symbols : cursor'[h][s] \in Nat /\ cursor[h][s] <= cursor'[h][s],
         worker.at \in {"order", "advance"} =>
           \/ worker'.at \in {"order", "advance"} /\ Keeps
           \/ cursor'[worker.hz][worker.sym] = worker.bar,
         worker'.at \in {"order", "advance"} => InBar /\ Keeps /\ cursor' = cursor
  PROVE  \A h \in Horizons, s \in Symbols :
           Passed(h, s) \in Nat /\ NextPassed(h, s) \in Nat /\ Passed(h, s) <= NextPassed(h, s)
<1> TAKE h \in Horizons, s \in Symbols
<1> USE DEF Passed, NextPassed, PassedBy, Keeps
<1>1. cursor[h][s] \in Nat /\ worker.bar \in Nat
  BY TablesTyped DEF CursorsOnGrid
<1>2. InBar /\ worker.sym = s /\ worker.hz = h => cursor[h][s] <= worker.bar
  <2>1. Period[h] \in Nat \ {0}
    BY TablesTyped
  <2> QED
    BY <1>1, <2>1 DEF BarsFollow, OpenOf
<1>3. worker.at \in {"order", "advance"} => InBar
  BY DEF InBar, InLoop
<1>4. CASE worker'.at \in {"order", "advance"} /\ worker'.sym = s /\ worker'.hz = h
  BY <1>1, <1>2, <1>4
<1>5. CASE ~(worker'.at \in {"order", "advance"} /\ worker'.sym = s /\ worker'.hz = h)
  BY <1>1, <1>5
<1> QED
  BY <1>4, <1>5

(* Steps that decide nothing and open nothing. *)
OnlySettles ==
  \A s \in Symbols : \A o \in PendingOrders(s)' :
    o \in PendingOrders(s) /\ orders'[o] = orders[o]
OnlyCloses == \A s \in Symbols : positions'[s].lot # 0 => positions'[s] = positions[s]
MovesOn ==
  /\ Keeps /\ InBar /\ worker.at \notin {"order", "advance"}
  /\ worker'.at \notin {"idle", "begin", "bar", "guard", "order", "advance"}
  /\ Counted => worker'.at \in CountedLabels
  /\ worker'.at \in CountedLabels => Counted \/ positions'[worker.sym].lot = 0
Calm ==
  /\ now' \in Nat /\ now <= now' /\ cursor' = cursor /\ decisions' = decisions
  /\ OnlySettles /\ OnlyCloses
  /\ \/ worker' = worker
     \/ worker.at = "bar" /\ worker'.at = "idle" /\ worker'.bar \in Nat
     \/ MovesOn

(* They keep every part.                                                   *)
LEMMA CalmKeeps ==
  ASSUME PendingInv, HorizonParts, Calm
  PROVE  HorizonParts'
<1> USE DEF HorizonParts, Calm, OnlySettles, OnlyCloses, MovesOn
<1>1. /\ now \in Nat /\ worker.hz \in Horizons /\ worker.bar \in Nat
      /\ Busy => worker.sym \in Symbols
  BY TablesTyped DEF Busy
<1>2. CursorsOnGrid'
  BY <1>1, CursorsKept
<1>3. BarsFollow'
  <2>1. InLoop' => InLoop /\ Keeps /\ (InBar' <=> InBar)
    BY DEF InLoop, InBar, Keeps
  <2> QED
    BY <1>1, <2>1, BarsKept
<1>4. OwnerWorks' /\ OneOwner'
  <2>1. \A s \in Symbols : \A o \in PendingOrders(s)' :
          \/ o \in PendingOrders(s) /\ orders'[o].hz = orders[o].hz
          \/ Busy /\ s = worker.sym /\ orders'[o].hz = worker.hz
    OBVIOUS
  <2>2. \A s \in Symbols : positions'[s].lot # 0 =>
          \/ Held(s) /\ positions'[s].hz = positions[s].hz
          \/ Busy /\ s = worker.sym /\ positions'[s].hz = worker.hz
    BY DEF Held
  <2>3. Busy' => Busy /\ worker'.sym = worker.sym /\ worker'.hz = worker.hz
    BY DEF Busy, Keeps, InBar, InLoop
  <2> QED
    BY <1>1, <2>1, <2>2, <2>3, OwnersKept
<1>5. \A h \in Horizons, s \in Symbols :
        Passed(h, s) \in Nat /\ NextPassed(h, s) \in Nat /\ Passed(h, s) <= NextPassed(h, s)
  <2>1. \A h \in Horizons, s \in Symbols : cursor'[h][s] \in Nat /\ cursor[h][s] <= cursor'[h][s]
    BY DEF CursorsOnGrid
  <2>2. worker.at \in {"order", "advance"} => worker' = worker
    OBVIOUS
  <2>3. worker'.at \in {"order", "advance"} => worker' = worker
    OBVIOUS
  <2>4. worker'.at \in {"order", "advance"} => InBar /\ Keeps /\ cursor' = cursor
    BY <2>3 DEF InBar, InLoop, Keeps
  <2>5. worker.at \in {"order", "advance"} => worker'.at \in {"order", "advance"} /\ Keeps
    BY <2>2 DEF Keeps
  <2>6. worker'.bar \in Nat
    BY <1>1 DEF Keeps
  <2> QED
    BY <2>1, <2>4, <2>5, <2>6, PassedGrows
<1>6. OrdersBehind'
  <2>1. \A s \in Symbols : \A o \in PendingOrders(s) :
          orders[o].created \in Nat /\ orders[o].hz \in Horizons
    BY PendingTyped
  <2> QED
    BY <1>5, <2>1, OrdersKept
<1>7. DecisionsBehind'
  <2>1. worker'.at = "order" => worker'.did = TRUE
    BY DEF DecisionsBehind, At
  <2> QED
    BY <1>5, <2>1, TablesTyped, DecisionsKept
<1>8. AgesCount'
  <2>1. ASSUME NEW s \in Symbols, positions'[s].lot # 0
        PROVE  LET h == positions'[s].hz IN
               positions'[s] = positions[s] /\ NextMark(h, s) = AgeMark(h, s) /\ cursor'[h][s] = cursor[h][s]
    <3>1. worker'.at \in CountedLabels /\ worker'.sym = s <=> Counted /\ worker.sym = s
      BY <2>1 DEF Counted, CountedLabels, Keeps
    <3>2. worker'.at \in CountedLabels => worker'.bar = worker.bar
      BY DEF Keeps, CountedLabels
    <3> QED
      BY <2>1, <3>1, <3>2 DEF NextMark, AgeMark, MarkBy, Counted
  <2> QED
    BY <2>1, AgesKept
<1> QED
  BY <1>2, <1>3, <1>4, <1>6, <1>7, <1>8

(* Cancelling or filling an order leaves the other pending ones alone.     *)
LEMMA OthersAreSettled ==
  ASSUME DBTypeOK, NEW o \in DOMAIN orders,
         CancelOrder(o) \/ \E open \in Int : MarkFilled(o, open)
  PROVE  OnlySettles
<1>1. CASE CancelOrder(o)
  <2>1. CASE orders[o].status = "PENDING"
    <3>1. orders' = [orders EXCEPT ![o].status = "CANCELLED"]
      BY <1>1, <2>1 DEF CancelOrder
    <3>2. DOMAIN orders' = DOMAIN orders /\ \A p \in DOMAIN orders : p # o => orders'[p] = orders[p]
      BY <3>1
    <3>3. orders'[o].status # "PENDING"
      BY <1>1, <2>1, CancelledRows
    <3> QED
      BY <3>2, <3>3 DEF OnlySettles, PendingOrders
  <2>2. CASE orders[o].status # "PENDING"
    BY <1>1, <2>2 DEF CancelOrder, OnlySettles, PendingOrders
  <2> QED
    BY <2>1, <2>2
<1>2. ASSUME NEW open \in Int, MarkFilled(o, open) PROVE OnlySettles
  <2>1. DOMAIN orders' = DOMAIN orders /\ \A p \in DOMAIN orders : p # o => orders'[p] = orders[p]
    BY <1>2 DEF MarkFilled
  <2>2. orders'[o].status # "PENDING"
    BY <1>2, MarkedRows
  <2> QED
    BY <2>1, <2>2 DEF OnlySettles, PendingOrders
<1> QED
  BY <1>1, <1>2

(* Closing a position touches no order.                                    *)
LEMMA RowIsClosed ==
  ASSUME DBTypeOK, NEW s \in Symbols, NEW m, NEW row, NEW reason,
         ClosePositionAtomic(s, m, row, reason)
  PROVE  /\ OnlySettles /\ OnlyCloses /\ positions'[s].lot = 0
         /\ UNCHANGED <<orders, cursor, decisions>>
<1>1. UNCHANGED <<orders, cursor, decisions>>
  BY DEF ClosePositionAtomic
<1>2. OnlySettles
  BY <1>1 DEF OnlySettles, PendingOrders
<1>3. OnlyCloses /\ positions'[s].lot = 0
  <2>1. CASE Held(s)
    <3>1. positions' = [positions EXCEPT ![s] = NoPosition]
      BY <2>1 DEF ClosePositionAtomic, CloseRow
    <3> QED
      BY <3>1 DEF DBTypeOK, NoPosition, OnlyCloses
  <2>2. CASE ~Held(s)
    BY <2>2 DEF ClosePositionAtomic, OnlyCloses, Held
  <2> QED
    BY <2>1, <2>2
<1> QED
  BY <1>1, <1>2, <1>3

(* Most steps of the worker are of this kind.                              *)
CalmStep ==
  \/ EndBars \/ ReadPending \/ CancelPending \/ ExecuteSell
  \/ ReadPosition /\ ~Held(worker.sym)
  \/ ProtectiveExit \/ ReadFinancing \/ ChargeFinancing \/ CheckMargin
  \/ ReadLiquidation \/ (\E s \in Symbols : Liquidate(s)) \/ EndLiquidation
  \/ RealtimeNext \/ Tick \/ UNCHANGED vars

LEMMA CalmSteps == ASSUME PendingInv, CalmStep PROVE Calm
<1>a. /\ DBTypeOK /\ worker \in WorkerState /\ now \in Nat /\ worker.bar \in Nat
      /\ worker.hz \in Horizons
      /\ worker.at # "idle" => worker.sym \in Symbols
  BY TablesTyped
<1>b. ASSUME ReadOnly \/ UNCHANGED <<dbVars, now>>
      PROVE  /\ now' \in Nat /\ now <= now' /\ cursor' = cursor /\ decisions' = decisions
             /\ OnlySettles /\ OnlyCloses /\ positions' = positions
  BY <1>a, <1>b DEF ReadOnly, OnlyWorker, dbVars, OnlySettles, OnlyCloses, PendingOrders
<1>c. ASSUME NEW l, Goto(l) \/ Done(l) \/ Read(l) PROVE Keeps /\ worker'.at = l
  BY <1>a, <1>c, MovesKeep
<1>d. OnlyWorker => now' \in Nat /\ now <= now'
  BY <1>a DEF OnlyWorker
<1> USE DEF At, InBar, InLoop, Counted, CountedLabels
<1>1. CASE EndBars
  BY <1>1, <1>b DEF EndBars, Calm, Idle
<1>2. CASE ReadPending
  <2>1. Keeps /\ worker'.at \in {"protect", "settle"}
    <3>1. CASE PendingOrder(worker.sym) = 0
      BY <1>2, <1>c, <3>1 DEF ReadPending
    <3>2. CASE PendingOrder(worker.sym) # 0
      BY <1>2, <1>a, <3>2 DEF ReadPending, WorkerState, Keeps
    <3> QED
      BY <3>1, <3>2
  <2> QED
    BY <1>2, <1>b, <2>1 DEF ReadPending, Calm, MovesOn
<1>3. CASE CancelPending
  <2>1. worker.order \in DOMAIN orders /\ CancelOrder(worker.order)
    BY <1>3 DEF CancelPending, PendingInv, OrderReadExists
  <2>2. OnlySettles
    BY <1>a, <2>1, OthersAreSettled
  <2>3. UNCHANGED <<positions, cursor, decisions>>
    BY <2>1 DEF CancelOrder
  <2>4. Keeps /\ worker'.at = "protect"
    BY <1>3, <1>c DEF CancelPending
  <2> QED
    BY <1>3, <1>d, <2>2, <2>3, <2>4 DEF CancelPending, Calm, OnlyCloses, MovesOn
<1>4. CASE ExecuteSell
  <2> DEFINE o == worker.order
             open == OpenOf(worker.hz, worker.bar)
  <2>1. /\ o \in DOMAIN orders /\ FillSellAtomic(o, open, Credited(worker.money), Mine)
        /\ worker.sym \in Symbols /\ At("settle")
    BY <1>4, <1>a DEF ExecuteSell, PendingInv, OrderReadExists
  <2>2. open \in Int
    <3>1. Period[worker.hz] \in Nat
      BY <1>a, TablesTyped
    <3> QED
      BY <1>a, <3>1 DEF OpenOf
  <2>3. UNCHANGED <<cursor, decisions>>
    BY <2>1 DEF FillSellAtomic
  <2>4. OnlySettles /\ OnlyCloses
    <3>1. CASE orders[o].status = "PENDING"
      <4>1. MarkFilled(o, open) /\ positions' = [positions EXCEPT ![orders[o].symbol] = NoPosition]
        BY <2>1, <3>1 DEF FillSellAtomic, CloseRow
      <4>2. orders[o] \in OrderRow
        BY <1>a, <2>1 DEF DBTypeOK
      <4>3. orders[o].symbol \in Symbols
        BY <4>2 DEF OrderRow
      <4>4. OnlySettles
        BY <1>a, <2>1, <2>2, <4>1, OthersAreSettled
      <4>5. OnlyCloses
        BY <1>a, <4>1, <4>3 DEF OnlyCloses, DBTypeOK, NoPosition
      <4> QED
        BY <4>4, <4>5
    <3>2. CASE orders[o].status # "PENDING"
      BY <2>1, <3>2 DEF FillSellAtomic, OnlySettles, OnlyCloses, PendingOrders
    <3> QED
      BY <3>1, <3>2
  <2>5. Keeps /\ worker'.at = "protect"
    BY <1>4, <1>c DEF ExecuteSell
  <2> QED
    BY <1>4, <1>d, <2>1, <2>3, <2>4, <2>5 DEF ExecuteSell, Calm, MovesOn
<1>5. CASE ReadPosition /\ ~Held(worker.sym)
  <2>1. Keeps /\ worker'.at = "financing"
    BY <1>5, <1>c DEF ReadPosition
  <2> QED
    BY <1>5, <1>b, <2>1 DEF ReadPosition, Calm, MovesOn, Held
<1>6. CASE ProtectiveExit
  <2>1. Keeps /\ worker'.at = "financing"
    BY <1>6, <1>c DEF ProtectiveExit
  <2>2. worker.sym \in Symbols /\ ClosePositionAtomic(worker.sym, Credited(worker.money), Mine, "PROTECTIVE")
    BY <1>6, <1>a DEF ProtectiveExit
  <2>3. /\ OnlySettles /\ OnlyCloses /\ positions'[worker.sym].lot = 0
        /\ UNCHANGED <<orders, cursor, decisions>>
    BY <1>a, <2>2, RowIsClosed
  <2> QED
    BY <1>6, <1>d, <2>1, <2>3 DEF ProtectiveExit, Calm, MovesOn
<1>7. CASE ReadFinancing
  <2>1. Keeps /\ worker'.at \in {"margin", "charge"}
    BY <1>7, <1>c DEF ReadFinancing
  <2> QED
    BY <1>7, <1>b, <2>1 DEF ReadFinancing, Calm, MovesOn
<1>8. CASE ChargeFinancing
  <2>1. Keeps /\ worker'.at = "margin"
    BY <1>8, <1>c DEF ChargeFinancing
  <2>2. UNCHANGED <<orders, positions, cursor, decisions>>
    BY <1>8 DEF ChargeFinancing, SetCash
  <2> QED
    BY <1>8, <1>d, <2>1, <2>2 DEF ChargeFinancing, Calm, MovesOn, OnlySettles, OnlyCloses, PendingOrders
<1>9. CASE CheckMargin
  <2>1. Keeps /\ worker'.at \in {"decide", "liquidate"}
    <3>1. CASE Goto("decide")
      BY <1>c, <3>1
    <3>2. CASE worker' = [worker EXCEPT !.at = "liquidate", !.book = positions,
                                        !.liq = {s \in Symbols : Held(s)}]
      BY <1>a, <3>2 DEF WorkerState, Keeps
    <3> QED
      BY <1>9, <3>1, <3>2 DEF CheckMargin
  <2> QED
    BY <1>9, <1>b, <2>1 DEF CheckMargin, Calm, MovesOn
<1>10. CASE ReadLiquidation
  <2>1. Keeps /\ worker'.at = "liquidating"
    BY <1>10, <1>a DEF ReadLiquidation, WorkerState, Keeps
  <2> QED
    BY <1>10, <1>b, <2>1 DEF ReadLiquidation, Calm, MovesOn
<1>11. ASSUME NEW s \in Symbols, Liquidate(s) PROVE Calm
  <2>1. Keeps /\ worker'.at = "liquidate"
    BY <1>11, <1>a DEF Liquidate, WorkerState, Keeps
  <2>2. ClosePositionAtomic(s, Credited(worker.money), worker.book[s], "LIQUIDATION")
    BY <1>11 DEF Liquidate
  <2>3. OnlySettles /\ OnlyCloses /\ UNCHANGED <<orders, cursor, decisions>>
    BY <1>a, <2>2, RowIsClosed
  <2> QED
    BY <1>11, <1>d, <2>1, <2>3 DEF Liquidate, Calm, MovesOn
<1>12. CASE EndLiquidation
  <2>1. Keeps /\ worker'.at = "decide"
    BY <1>12, <1>c DEF EndLiquidation
  <2> QED
    BY <1>12, <1>b, <2>1 DEF EndLiquidation, Calm, MovesOn
<1>13. CASE RealtimeNext
  <2>1. ASSUME NEW s \in Symbols, RealtimeTrigger(s) PROVE Calm
    BY <2>1, <1>b DEF RealtimeTrigger, Calm
  <2>2. CASE RealtimeExit
    <3>1. realtime \in Symbols
      BY <2>2 DEF RealtimeExit, PendingInv, TypeOK
    <3>2. OnlyCloses /\ UNCHANGED <<orders, cursor, decisions>>
      <4>1. CloseRealtimePositionAtomic(realtime)
        BY <2>2 DEF RealtimeExit
      <4>2. CASE Held(realtime)
        <5>1. positions' = [positions EXCEPT ![realtime] = NoPosition]
          BY <4>1, <4>2 DEF CloseRealtimePositionAtomic, CloseRow
        <5> QED
          BY <1>a, <3>1, <4>1, <5>1 DEF CloseRealtimePositionAtomic, DBTypeOK, NoPosition, OnlyCloses
      <4>3. CASE ~Held(realtime)
        BY <4>1, <4>3 DEF CloseRealtimePositionAtomic, OnlyCloses
      <4> QED
        BY <4>2, <4>3
    <3> QED
      BY <2>2, <1>a, <3>2 DEF RealtimeExit, Calm, OnlySettles, PendingOrders
  <2> QED
    BY <1>13, <2>1, <2>2 DEF RealtimeNext
<1>14. CASE Tick
  BY <1>14, <1>a DEF Tick, dbVars, Calm, OnlySettles, OnlyCloses, PendingOrders
<1>15. CASE UNCHANGED vars
  BY <1>15, <1>a DEF vars, Calm, OnlySettles, OnlyCloses, PendingOrders
<1> QED
  BY <1>1, <1>2, <1>3, <1>4, <1>5, <1>6, <1>7, <1>8, <1>9, <1>10, <1>11, <1>12, <1>13, <1>14, <1>15
     DEF CalmStep

(* A step that writes only cursors and the worker's locals. *)
LEMMA CursorStepKeeps ==
  ASSUME PendingInv, HorizonParts, UNCHANGED <<orders, positions, decisions>>,
         CursorsOnGrid', BarsFollow', OwnerWorks', worker'.bar \in Nat,
         \A h \in Horizons, s \in Symbols : cursor'[h][s] \in Nat /\ cursor[h][s] <= cursor'[h][s],
         worker.at = "advance" => cursor'[worker.hz][worker.sym] = worker.bar,
         worker.at # "order", worker'.at \notin {"order", "advance"},
         \A s \in Symbols : Held(s) =>
           /\ NextMark(positions[s].hz, s) = AgeMark(positions[s].hz, s)
           /\ cursor'[positions[s].hz][s] > 0,
         \/ worker'.at # "guard"
         \/ /\ worker'.book[worker'.sym].hz = worker'.hz
            /\ CountedTo(worker'.book[worker'.sym]) = worker'.bar
  PROVE  HorizonParts'
<1> USE DEF HorizonParts
<1>1. OneOwner'
  BY DEF OneOwner, PendingOrders, Held
<1>2. \A h \in Horizons, s \in Symbols :
        Passed(h, s) \in Nat /\ NextPassed(h, s) \in Nat /\ Passed(h, s) <= NextPassed(h, s)
  BY PassedGrows
<1>3. OrdersBehind'
  <2>1. \A s \in Symbols : \A o \in PendingOrders(s) :
          orders[o].created \in Nat /\ orders[o].hz \in Horizons
    BY PendingTyped
  <2>2. \A s \in Symbols : \A o \in PendingOrders(s)' :
          o \in PendingOrders(s) /\ orders'[o] = orders[o]
    BY DEF PendingOrders
  <2> QED
    BY <1>2, <2>1, <2>2, OrdersKept
<1>4. DecisionsBehind'
  BY <1>2, TablesTyped, DecisionsKept
<1>5. AgesCount'
  <2>1. ASSUME NEW s \in Symbols, positions'[s].lot # 0
        PROVE  LET h == positions'[s].hz IN
               CountedTo(positions'[s]) = NextMark(h, s) /\ cursor'[h][s] > 0
    BY <2>1 DEF AgesCount, Held
  <2> QED
    BY <2>1, AgesKept
<1> QED
  BY <1>1, <1>3, <1>4, <1>5

(* The cursors a position or an order was not left at may jump. *)
LEMMA SelectKeeps ==
  ASSUME PendingInv, HorizonParts,
         NEW s \in Symbols, NEW ready \in SUBSET Horizons, NEW winner \in Horizons,
         SelectHorizon(s, ready, winner)
  PROVE  HorizonParts'
<1> USE DEF HorizonParts
<1>1. /\ worker.at = "idle" /\ UNCHANGED <<orders, positions, decisions, now>>
      /\ LockedHorizon(s) \in Horizons => winner = LockedHorizon(s)
  BY DEF SelectHorizon, At, OnlyWorker
<1>2. worker'.at = "begin" /\ worker'.sym = s /\ worker'.hz = winner /\ worker'.bar = worker.bar
  BY TablesTyped DEF SelectHorizon, WorkerState
<1>3. cursor' = [h \in Horizons |->
                   IF h \in ready \ {winner}
                   THEN [cursor[h] EXCEPT ![s] = LatestBar(h)] ELSE cursor[h]]
  BY DEF SelectHorizon
<1>4. ASSUME NEW h \in Horizons, NEW r \in Symbols
      PROVE  \/ cursor'[h][r] = cursor[h][r]
             \/ h # winner /\ r = s /\ cursor'[h][r] = LatestBar(h)
  BY <1>3, TablesTyped DEF DBTypeOK
<1>5. ASSUME NEW h \in Horizons, NEW r \in Symbols
      PROVE  /\ cursor'[h][r] \in 0..now /\ cursor'[h][r] % Period[h] = 0
             /\ cursor[h][r] \in Nat /\ cursor[h][r] <= cursor'[h][r]
  <2>1. cursor[h][r] \in 0..now /\ cursor[h][r] % Period[h] = 0 /\ now \in Nat
    BY TablesTyped DEF CursorsOnGrid
  <2>2. /\ LatestBar(h) \in 0..now /\ LatestBar(h) % Period[h] = 0
        /\ cursor[h][r] <= LatestBar(h)
    BY <2>1, LatestOnGrid
  <2> QED
    BY <1>4, <2>1, <2>2
<1>6. CursorsOnGrid'
  BY <1>1, <1>5 DEF CursorsOnGrid
<1>7. BarsFollow'
  BY <1>2 DEF BarsFollow, InLoop, InBar
<1>8. \A r \in Symbols : Held(r) => positions[r].hz \in Horizons
  BY TablesTyped DEF PositionRow
<1>9. Held(s) => positions[s].hz = winner
  BY <1>1, <1>8 DEF LockedHorizon
<1>10. ASSUME NEW o \in PendingOrders(s) PROVE orders[o].hz = winner
  <2>1. CASE Held(s)
    BY <1>9, <1>10, <2>1 DEF OneOwner
  <2>2. CASE ~Held(s)
    <3>1. TypeOK /\ \A p, q \in PendingOrders(s) : p = q
      BY DEF PendingInv, OnePendingOrder
    <3>2. PendingOrder(s) # 0 /\ PendingOrder(s) = o
      BY <1>10, <3>1, PendingOrderRow
    <3>3. orders[o].hz \in Horizons
      BY <1>10 DEF OneOwner
    <3> QED
      BY <1>1, <2>2, <3>2, <3>3 DEF LockedHorizon
  <2> QED
    BY <2>1, <2>2
<1>11. OwnerWorks'
  BY <1>1, <1>2, <1>9, <1>10 DEF OwnerWorks, Busy, Held, PendingOrders
<1>12. ASSUME NEW r \in Symbols, Held(r)
       PROVE  /\ NextMark(positions[r].hz, r) = AgeMark(positions[r].hz, r)
              /\ cursor'[positions[r].hz][r] > 0
  <2>1. positions[r].hz \in Horizons /\ cursor[positions[r].hz][r] > 0
    BY <1>8, <1>12 DEF AgesCount
  <2>2. cursor'[positions[r].hz][r] = cursor[positions[r].hz][r]
    BY <1>4, <1>9, <1>12, <2>1
  <2> QED
    BY <1>1, <1>2, <2>1, <2>2 DEF NextMark, AgeMark, MarkBy, CountedLabels
<1>13. worker'.bar \in Nat
  BY <1>2, TablesTyped
<1>14. \A h \in Horizons, r \in Symbols : cursor'[h][r] \in Nat /\ cursor[h][r] <= cursor'[h][r]
  BY <1>5
<1> QED
  BY <1>1, <1>2, <1>6, <1>7, <1>11, <1>12, <1>13, <1>14, CursorStepKeeps

(* What BarsFollow says of the bar under way, once and for all. *)
LEMMA BarUnderWay ==
  ASSUME PendingInv, HorizonParts, InBar
  PROVE  /\ cursor[worker.hz][worker.sym] > 0 /\ worker.bar \in 1..now
         /\ worker.bar % Period[worker.hz] = 0
         /\ cursor[worker.hz][worker.sym] = worker.bar - Period[worker.hz]
         /\ cursor[worker.hz][worker.sym] < worker.bar
         /\ worker.sym \in Symbols /\ worker.hz \in Horizons
         /\ now \in Nat /\ cursor[worker.hz][worker.sym] \in Nat
<1>1. /\ cursor[worker.hz][worker.sym] > 0 /\ worker.bar \in 1..now
      /\ worker.bar % Period[worker.hz] = 0
      /\ cursor[worker.hz][worker.sym] = worker.bar - Period[worker.hz]
  BY DEF HorizonParts, BarsFollow, OpenOf, InBar
<1>2. /\ worker.sym \in Symbols /\ worker.hz \in Horizons /\ now \in Nat
      /\ Period[worker.hz] \in Nat \ {0}
  BY TablesTyped DEF InBar, InLoop
<1>3. cursor[worker.hz][worker.sym] \in Nat
  BY <1>2 DEF HorizonParts, CursorsOnGrid
<1> QED
  BY <1>1, <1>2, <1>3

(* The first run registers the latest bar; a later one takes the bars after *)
(* the cursor, which leave no gap because they are all there are.          *)
LEMMA BeginKeeps ==
  ASSUME PendingInv, HorizonParts, BeginHorizon
  PROVE  HorizonParts'
<1> USE DEF HorizonParts
<1> DEFINE h0 == worker.hz
           s0 == worker.sym
           last == cursor[h0][s0]
<1>1. /\ worker.at = "begin" /\ UNCHANGED <<orders, positions, decisions, now>>
      /\ h0 \in Horizons /\ s0 \in Symbols /\ now \in Nat /\ worker.bar \in Nat
      /\ worker \in WorkerState /\ DBTypeOK
  BY TablesTyped DEF BeginHorizon, At, OnlyWorker
<1>2. \A h \in Horizons, r \in Symbols : cursor[h][r] \in 0..now /\ cursor[h][r] % Period[h] = 0
  BY DEF CursorsOnGrid
<1>3. \A r \in Symbols : Held(r) => positions[r].hz \in Horizons /\ cursor[positions[r].hz][r] > 0
  BY TablesTyped DEF PositionRow, AgesCount
<1>4. CASE last = 0
  <2>1. worker' = Idle /\ cursor' = [cursor EXCEPT ![h0][s0] = LatestBar(h0)]
    BY <1>4 DEF BeginHorizon, SetLastProcessed
  <2>2. /\ LatestBar(h0) \in 0..now /\ LatestBar(h0) % Period[h0] = 0
    BY <1>1, LatestOnGrid
  <2>3. ASSUME NEW h \in Horizons, NEW r \in Symbols
        PROVE  cursor'[h][r] = IF h = h0 /\ r = s0 THEN LatestBar(h0) ELSE cursor[h][r]
    BY <1>1, <2>1 DEF DBTypeOK
  <2>4. ASSUME NEW h \in Horizons, NEW r \in Symbols
        PROVE  /\ cursor'[h][r] \in 0..now /\ cursor'[h][r] % Period[h] = 0
               /\ cursor[h][r] \in Nat /\ cursor[h][r] <= cursor'[h][r]
    <3>1. cursor[h][r] \in 0..now /\ cursor[h][r] % Period[h] = 0
      BY <1>2
    <3> QED
      BY <1>1, <1>4, <2>2, <2>3, <3>1
  <2>5. CursorsOnGrid'
    BY <1>1, <2>4 DEF CursorsOnGrid
  <2>6. worker'.at = "idle" /\ worker'.bar = 0
    BY <2>1 DEF Idle
  <2>7. BarsFollow' /\ OwnerWorks'
    BY <2>6 DEF BarsFollow, InLoop, InBar, OwnerWorks, Busy
  <2>8. ASSUME NEW r \in Symbols, Held(r)
        PROVE  /\ NextMark(positions[r].hz, r) = AgeMark(positions[r].hz, r)
               /\ cursor'[positions[r].hz][r] > 0
    <3>1. cursor'[positions[r].hz][r] = cursor[positions[r].hz][r]
      BY <1>3, <1>4, <2>3, <2>8
    <3> QED
      BY <1>1, <1>3, <2>6, <2>8, <3>1 DEF NextMark, AgeMark, MarkBy, CountedLabels
  <2>9. \A h \in Horizons, r \in Symbols : cursor'[h][r] \in Nat /\ cursor[h][r] <= cursor'[h][r]
    BY <1>1, <2>4
  <2> QED
    BY <1>1, <2>5, <2>6, <2>7, <2>8, <2>9, CursorStepKeeps
<1>5. CASE last # 0
  <2>1. /\ cursor' = cursor
        /\ worker' = [worker EXCEPT !.at = "bar", !.bars = {b \in ClosedBars(h0) : b > last}]
    BY <1>5 DEF BeginHorizon
  <2>2. /\ worker'.at = "bar" /\ worker'.sym = s0 /\ worker'.hz = h0 /\ worker'.bar = worker.bar
        /\ worker'.bars = {b \in ClosedBars(h0) : b > last}
    BY <1>1, <2>1 DEF WorkerState
  <2>3. CursorsOnGrid'
    BY <1>1, <2>1, CursorsKept
  <2>4. last \in 1..now /\ last % Period[h0] = 0
    BY <1>1, <1>2, <1>5
  <2>5. From' = last
    BY <2>1, <2>2 DEF From, InBar, InLoop
  <2>6. ASSUME NEW b \in worker'.bars
        PROVE  /\ b \in 1..now /\ b % Period[h0] = 0 /\ b > last
               /\ OpenOf(h0, b) \in worker'.bars \cup {last}
    <3>1. b \in 1..now /\ b % Period[h0] = 0 /\ b > last
      BY <2>2, <2>6 DEF ClosedBars
    <3>2. /\ OpenOf(h0, b) \in Nat /\ last <= OpenOf(h0, b) /\ OpenOf(h0, b) % Period[h0] = 0
      BY <1>1, <2>4, <3>1, GridStep
    <3>3. OpenOf(h0, b) <= b
      <4>1. Period[h0] \in Nat
        BY <1>1, TablesTyped
      <4> QED
        BY <3>1, <4>1 DEF OpenOf
    <3>4. OpenOf(h0, b) # last => OpenOf(h0, b) \in worker'.bars
      BY <1>1, <2>2, <2>4, <3>1, <3>2, <3>3 DEF ClosedBars
    <3> QED
      BY <3>1, <3>4
  <2>7. BarsFollow'
    <3>1. \A b \in worker'.bars :
            /\ b \in 1..now' /\ b % Period[worker'.hz] = 0 /\ b > From'
            /\ OpenOf(worker'.hz, b) \in worker'.bars \cup {From'}
      BY <1>1, <2>2, <2>5, <2>6
    <3>2. cursor'[worker'.hz][worker'.sym] > 0
      BY <2>1, <2>2, <2>4
    <3> QED
      BY <2>2, <3>1, <3>2 DEF BarsFollow, InBar, OpenOf
  <2>8. OwnerWorks'
    BY <1>1, <2>2 DEF OwnerWorks, Busy, Held, PendingOrders
  <2>9. \A h \in Horizons, r \in Symbols : cursor'[h][r] \in Nat /\ cursor[h][r] <= cursor'[h][r]
    BY <1>1, <1>2, <2>1
  <2>10. ASSUME NEW r \in Symbols, Held(r)
         PROVE  /\ NextMark(positions[r].hz, r) = AgeMark(positions[r].hz, r)
                /\ cursor'[positions[r].hz][r] > 0
    BY <1>1, <1>3, <2>1, <2>2, <2>10 DEF NextMark, AgeMark, MarkBy, CountedLabels
  <2>11. /\ worker'.bar \in Nat /\ worker.at \notin {"order", "advance"}
         /\ worker'.at \notin {"order", "advance", "guard"}
    BY <1>1, <2>2
  <2> QED
    BY <1>1, <2>3, <2>7, <2>8, <2>9, <2>10, <2>11, CursorStepKeeps
<1> QED
  BY <1>4, <1>5

(* The row taken is the first after the cursor, for the rows leave no gap. *)
LEMMA NextBarKeeps ==
  ASSUME PendingInv, HorizonParts, NextBar
  PROVE  HorizonParts'
<1> USE DEF HorizonParts
<1> DEFINE h0 == worker.hz
           s0 == worker.sym
           last == cursor[h0][s0]
<1>1. /\ worker.at = "bar" /\ UNCHANGED <<orders, positions, decisions, now, cursor>>
      /\ h0 \in Horizons /\ s0 \in Symbols /\ now \in Nat /\ Period[h0] \in Nat \ {0}
      /\ worker \in WorkerState /\ worker.bars \subseteq Nat
  BY TablesTyped DEF NextBar, At, ReadOnly, OnlyWorker, dbVars
<1>2. PICK b \in worker.bars :
        /\ \A c \in worker.bars : b <= c
        /\ worker' = [worker EXCEPT !.at = "exec", !.bar = b, !.bars = worker.bars \ {b}]
  BY DEF NextBar
<1>3. /\ worker'.at = "exec" /\ worker'.sym = s0 /\ worker'.hz = h0 /\ worker'.bar = b
      /\ worker'.bars = worker.bars \ {b} /\ b \in Nat
  BY <1>1, <1>2 DEF WorkerState
<1>4. From = last /\ last > 0 /\ last \in 0..now
  BY <1>1 DEF From, InBar, InLoop, BarsFollow, CursorsOnGrid
<1>5. \A c \in worker.bars :
        /\ c \in 1..now /\ c % Period[h0] = 0 /\ c > last
        /\ c - Period[h0] \in worker.bars \cup {last}
  BY <1>1, <1>4 DEF BarsFollow, InLoop, OpenOf
<1>6. b - Period[h0] = last
  <2>1. b - Period[h0] \notin worker.bars
    BY <1>1, <1>2, <1>3
  <2> QED
    BY <1>2, <1>5, <2>1
<1>7. ASSUME NEW c \in worker'.bars
      PROVE  /\ c \in 1..now /\ c % Period[h0] = 0 /\ c > b
             /\ OpenOf(h0, c) \in worker'.bars \cup {b}
  <2>1. c \in worker.bars /\ c # b /\ c \in Nat
    BY <1>1, <1>3, <1>7
  <2>2. c > b
    BY <1>2, <1>3, <2>1
  <2>3. c - Period[h0] # last
    BY <1>1, <1>3, <1>6, <2>1
  <2> QED
    BY <1>3, <1>5, <2>1, <2>2, <2>3 DEF OpenOf
<1>8. From' = b
  BY <1>3 DEF From, InBar, InLoop
<1>9. BarsFollow'
  <2>1. \A c \in worker'.bars :
          /\ c \in 1..now' /\ c % Period[worker'.hz] = 0 /\ c > From'
          /\ OpenOf(worker'.hz, c) \in worker'.bars \cup {From'}
    BY <1>1, <1>3, <1>7, <1>8
  <2>2. cursor'[worker'.hz][worker'.sym] > 0
    BY <1>1, <1>3, <1>4
  <2>3. /\ worker'.bar \in 1..now' /\ worker'.bar % Period[worker'.hz] = 0
        /\ worker'.bar - Period[worker'.hz] = cursor'[worker'.hz][worker'.sym]
    BY <1>1, <1>2, <1>3, <1>5, <1>6
  <2> QED
    BY <2>1, <2>2, <2>3 DEF BarsFollow, OpenOf
<1>10. CursorsOnGrid'
  BY <1>1, CursorsKept
<1>11. OwnerWorks'
  BY <1>1, <1>3 DEF OwnerWorks, Busy, Held, PendingOrders
<1>12. \A h \in Horizons, r \in Symbols : cursor'[h][r] \in Nat /\ cursor[h][r] <= cursor'[h][r]
  BY <1>1 DEF CursorsOnGrid
<1>13. \A r \in Symbols : Held(r) =>
         /\ NextMark(positions[r].hz, r) = AgeMark(positions[r].hz, r)
         /\ cursor'[positions[r].hz][r] > 0
  BY <1>1, <1>3 DEF NextMark, AgeMark, MarkBy, CountedLabels, AgesCount
<1>14. worker'.bar \in Nat /\ worker.at \notin {"order", "advance"}
       /\ worker'.at \notin {"order", "advance", "guard"}
  BY <1>1, <1>3
<1> QED
  BY <1>1, <1>9, <1>10, <1>11, <1>12, <1>13, <1>14, CursorStepKeeps

(* One bar more is one period more.                                        *)
LEMMA OneMore ==
  ASSUME NEW p \in Nat, NEW held \in Nat, NEW bar \in Int
  PROVE  bar + ((held + 1) - 1) * p = (bar + (held - 1) * p) + p
OBVIOUS

(* The copy of the position counts the bar under way. *)
LEMMA ReadKeeps ==
  ASSUME PendingInv, HorizonParts, ReadPosition, Held(worker.sym)
  PROVE  HorizonParts'
<1> USE DEF HorizonParts
<1> DEFINE h0 == worker.hz
           s0 == worker.sym
<1>1. /\ worker.at = "protect" /\ UNCHANGED <<orders, positions, decisions, now, cursor>>
      /\ h0 \in Horizons /\ s0 \in Symbols /\ now \in Nat /\ Period[h0] \in Nat
      /\ worker \in WorkerState /\ positions \in [Symbols -> PositionRow]
      /\ worker.bar \in Nat
  BY TablesTyped DEF ReadPosition, At, ReadOnly, OnlyWorker, dbVars, DBTypeOK
<1>2. worker' = [worker EXCEPT !.at = "guard", !.money = cash,
                       !.book = [positions EXCEPT ![s0].held = positions[s0].held + 1]]
  BY DEF ReadPosition
<1>3. /\ worker'.at = "guard" /\ worker'.sym = s0 /\ worker'.hz = h0 /\ worker'.bar = worker.bar
      /\ worker'.bars = worker.bars
      /\ worker'.book = [positions EXCEPT ![s0].held = positions[s0].held + 1]
  BY <1>1, <1>2 DEF WorkerState
<1>4. positions[s0] \in PositionRow
  BY <1>1
<1>5. worker'.book[s0] = [positions[s0] EXCEPT !.held = positions[s0].held + 1]
  BY <1>1, <1>3
<1>6. /\ worker'.book[s0].held = positions[s0].held + 1 /\ worker'.book[s0].hz = positions[s0].hz
      /\ worker'.book[s0].bar = positions[s0].bar
      /\ positions[s0].held \in Nat /\ positions[s0].bar \in Nat
  BY <1>4, <1>5 DEF PositionRow
<1>7. positions[s0].hz = h0
  BY <1>1 DEF OwnerWorks, Busy
<1>8. positions[s0].bar + (positions[s0].held - 1) * Period[h0] = cursor[h0][s0]
  BY <1>1, <1>7 DEF AgesCount, CountedTo, AgeMark, MarkBy, CountedLabels
<1>9. worker.bar = cursor[h0][s0] + Period[h0] /\ cursor[h0][s0] > 0
  <2>1. InBar
    BY <1>1 DEF InBar, InLoop
  <2>2. cursor[h0][s0] > 0 /\ cursor[h0][s0] = worker.bar - Period[h0]
    BY <2>1, BarUnderWay
  <2> QED
    BY <1>1, <2>2
<1>10. CountedTo(worker'.book[s0]) = worker.bar
  <2> DEFINE p == Period[h0]
             held == positions[s0].held
             bar == positions[s0].bar
  <2>1. p \in Nat /\ held \in Nat /\ bar \in Nat
    BY <1>1, <1>6
  <2>2. CountedTo(worker'.book[s0]) = bar + ((held + 1) - 1) * p
    BY <1>6, <1>7 DEF CountedTo
  <2>3. bar + (held - 1) * p + p = worker.bar
    BY <1>8, <1>9
  <2> HIDE DEF p, held, bar
  <2>4. bar + ((held + 1) - 1) * p = (bar + (held - 1) * p) + p
    BY <2>1, OneMore
  <2> QED
    BY <2>2, <2>3, <2>4
<1>11. CursorsOnGrid'
  BY <1>1, CursorsKept
<1>12. BarsFollow'
  <2>1. InLoop' => InLoop /\ Keeps /\ (InBar' <=> InBar)
    BY <1>1, <1>3 DEF InLoop, InBar, Keeps
  <2> QED
    BY <1>1, <2>1, BarsKept
<1>13. OwnerWorks'
  BY <1>1, <1>3 DEF OwnerWorks, Busy, Held, PendingOrders
<1>14. \A h \in Horizons, r \in Symbols : cursor'[h][r] \in Nat /\ cursor[h][r] <= cursor'[h][r]
  BY <1>1 DEF CursorsOnGrid
<1>15. \A r \in Symbols : Held(r) =>
         /\ NextMark(positions[r].hz, r) = AgeMark(positions[r].hz, r)
         /\ cursor'[positions[r].hz][r] > 0
  BY <1>1, <1>3 DEF NextMark, AgeMark, MarkBy, CountedLabels, AgesCount
<1>16. worker'.bar \in Nat /\ worker.at \notin {"order", "advance"}
       /\ worker'.at \notin {"order", "advance"}
  BY <1>1, <1>3
<1>17. /\ worker'.book[worker'.sym].hz = worker'.hz
       /\ CountedTo(worker'.book[worker'.sym]) = worker'.bar
  BY <1>3, <1>6, <1>7, <1>10
<1> QED
  BY <1>1, <1>11, <1>12, <1>13, <1>14, <1>15, <1>16, <1>17, CursorStepKeeps

(* The last write of a bar: what was counted and decided is now behind. *)
LEMMA AdvanceKeeps ==
  ASSUME PendingInv, HorizonParts, AdvanceCursor
  PROVE  HorizonParts'
<1> USE DEF HorizonParts
<1> DEFINE h0 == worker.hz
           s0 == worker.sym
<1>1. /\ worker.at = "advance" /\ UNCHANGED <<orders, positions, decisions, now>>
      /\ h0 \in Horizons /\ s0 \in Symbols /\ now \in Nat
      /\ worker \in WorkerState /\ DBTypeOK
      /\ cursor' = [cursor EXCEPT ![h0][s0] = worker.bar]
  BY TablesTyped DEF AdvanceCursor, At, OnlyWorker, SetLastProcessed
<1>2. Keeps /\ worker'.at = "bar"
  BY <1>1, MovesKeep DEF AdvanceCursor
<1>3. InBar
  BY <1>1 DEF InBar, InLoop
<1>4. /\ worker.bar \in 1..now /\ worker.bar % Period[h0] = 0 /\ cursor[h0][s0] < worker.bar
  BY <1>3, BarUnderWay
<1>5. ASSUME NEW h \in Horizons, NEW r \in Symbols
      PROVE  cursor'[h][r] = IF h = h0 /\ r = s0 THEN worker.bar ELSE cursor[h][r]
  BY <1>1 DEF DBTypeOK
<1>6. ASSUME NEW h \in Horizons, NEW r \in Symbols
      PROVE  /\ cursor'[h][r] \in 0..now /\ cursor'[h][r] % Period[h] = 0
             /\ cursor[h][r] \in Nat /\ cursor[h][r] <= cursor'[h][r]
  <2>1. cursor[h][r] \in 0..now /\ cursor[h][r] % Period[h] = 0
    BY DEF CursorsOnGrid
  <2> QED
    BY <1>1, <1>4, <1>5, <2>1
<1>7. CursorsOnGrid'
  BY <1>1, <1>6 DEF CursorsOnGrid
<1>8. From' = worker.bar /\ From = worker.bar /\ cursor'[h0][s0] = worker.bar
  BY <1>1, <1>2, <1>3, <1>5 DEF From, InBar, InLoop, Keeps
<1>9. BarsFollow'
  <2>1. \A b \in worker'.bars :
          /\ b \in 1..now' /\ b % Period[worker'.hz] = 0 /\ b > From'
          /\ OpenOf(worker'.hz, b) \in worker'.bars \cup {From'}
    BY <1>1, <1>2, <1>3, <1>8 DEF BarsFollow, InBar, Keeps
  <2>2. cursor'[worker'.hz][worker'.sym] > 0
    BY <1>2, <1>4, <1>8 DEF Keeps
  <2> QED
    BY <1>2, <2>1, <2>2 DEF BarsFollow, InBar, OpenOf
<1>10. OwnerWorks'
  BY <1>1, <1>2 DEF OwnerWorks, Busy, Held, PendingOrders, Keeps
<1>11. ASSUME NEW r \in Symbols, Held(r)
       PROVE  /\ NextMark(positions[r].hz, r) = AgeMark(positions[r].hz, r)
              /\ cursor'[positions[r].hz][r] > 0
  <2>1. positions[r].hz \in Horizons /\ cursor[positions[r].hz][r] > 0
    BY <1>11, TablesTyped DEF AgesCount, PositionRow
  <2>2. r = s0 => positions[r].hz = h0
    BY <1>1, <1>11 DEF OwnerWorks, Busy
  <2>3. CASE r = s0
    BY <1>1, <1>2, <1>4, <1>8, <2>2, <2>3 DEF NextMark, AgeMark, MarkBy, CountedLabels
  <2>4. CASE r # s0
    BY <1>1, <1>2, <1>5, <2>1, <2>4 DEF NextMark, AgeMark, MarkBy, CountedLabels
  <2> QED
    BY <2>3, <2>4
<1>12. worker'.bar \in Nat /\ worker.at # "order" /\ worker'.at \notin {"order", "advance", "guard"}
  BY <1>1, <1>2, <1>4 DEF Keeps
<1>13. \A h \in Horizons, r \in Symbols : cursor'[h][r] \in Nat /\ cursor[h][r] <= cursor'[h][r]
  BY <1>1, <1>6
<1> QED
  BY <1>1, <1>7, <1>8, <1>9, <1>10, <1>11, <1>12, <1>13, CursorStepKeeps

(* A step within a bar may open only what is the symbol's and the          *)
(* horizon's under way, and what it opens is as old as the bar says.       *)
LEMMA InBarStepKeeps ==
  ASSUME PendingInv, HorizonParts, InBar, Keeps, now' = now, cursor' = cursor,
         worker'.at \notin {"idle", "begin", "bar", "guard"},
         worker.at \in {"order", "advance"} => worker'.at \in {"order", "advance"},
         worker'.at = "order" => worker'.did = TRUE,
         \A s \in Symbols : \A o \in PendingOrders(s)' :
           \/ o \in PendingOrders(s) /\ orders'[o] = orders[o]
           \/ /\ s = worker.sym /\ worker'.at \in {"order", "advance"}
              /\ orders'[o].hz = worker.hz /\ orders'[o].created = worker.bar,
         \A d \in decisions' :
           \/ d \in decisions
           \/ /\ worker'.at \in {"order", "advance"}
              /\ d.hz = worker.hz /\ d.symbol = worker.sym /\ d.bar = worker.bar,
         \A s \in Symbols : positions'[s].lot # 0 =>
           \/ /\ positions'[s] = positions[s]
              /\ s = worker.sym => (worker'.at \in CountedLabels <=> Counted)
           \/ /\ s = worker.sym /\ positions'[s].hz = worker.hz
              /\ CountedTo(positions'[s]) =
                   IF worker'.at \in CountedLabels THEN worker.bar ELSE cursor[worker.hz][s]
  PROVE  HorizonParts'
<1> USE DEF HorizonParts, Keeps
<1> DEFINE h0 == worker.hz
           s0 == worker.sym
<1>1. /\ cursor[h0][s0] > 0 /\ worker.bar \in 1..now /\ worker.bar % Period[h0] = 0
      /\ s0 \in Symbols /\ h0 \in Horizons /\ now \in Nat /\ Busy
  BY BarUnderWay DEF Busy, InBar, InLoop
<1>2. CursorsOnGrid'
  BY <1>1, CursorsKept
<1>3. BarsFollow'
  <2>1. InLoop' => InLoop /\ Keeps /\ (InBar' <=> InBar)
    BY DEF InLoop, InBar
  <2> QED
    BY <1>1, <2>1, BarsKept
<1>4. OwnerWorks' /\ OneOwner'
  <2>1. \A s \in Symbols : \A o \in PendingOrders(s)' :
          \/ o \in PendingOrders(s) /\ orders'[o].hz = orders[o].hz
          \/ Busy /\ s = worker.sym /\ orders'[o].hz = worker.hz
    BY <1>1
  <2>2. \A s \in Symbols : positions'[s].lot # 0 =>
          \/ Held(s) /\ positions'[s].hz = positions[s].hz
          \/ Busy /\ s = worker.sym /\ positions'[s].hz = worker.hz
    BY <1>1 DEF Held
  <2>3. Busy' => Busy /\ worker'.sym = worker.sym /\ worker'.hz = worker.hz
    BY <1>1
  <2> QED
    BY <1>1, <2>1, <2>2, <2>3, OwnersKept
<1>5. \A h \in Horizons, s \in Symbols :
        Passed(h, s) \in Nat /\ NextPassed(h, s) \in Nat /\ Passed(h, s) <= NextPassed(h, s)
  <2>1. \A h \in Horizons, s \in Symbols : cursor'[h][s] \in Nat /\ cursor[h][s] <= cursor'[h][s]
    BY DEF CursorsOnGrid
  <2>2. worker'.bar \in Nat
    BY <1>1
  <2> QED
    BY <2>1, <2>2, PassedGrows
<1>6. worker'.at \in {"order", "advance"} => NextPassed(h0, s0) = worker.bar
  BY DEF NextPassed, PassedBy
<1>7. OrdersBehind'
  <2>1. \A s \in Symbols : \A o \in PendingOrders(s) :
          orders[o].created \in Nat /\ orders[o].hz \in Horizons
    BY PendingTyped
  <2>2. ASSUME NEW s \in Symbols, NEW o \in PendingOrders(s)'
        PROVE  \/ o \in PendingOrders(s) /\ orders'[o] = orders[o]
               \/ /\ orders'[o].created % Period[orders'[o].hz] = 0
                  /\ orders'[o].created <= NextPassed(orders'[o].hz, s)
    BY <1>1, <1>6, <2>2
  <2> QED
    BY <1>5, <2>1, <2>2, OrdersKept
<1>8. DecisionsBehind'
  <2>1. \A d \in decisions' : d \in decisions \/ d.bar <= NextPassed(d.hz, d.symbol)
    BY <1>1, <1>6
  <2> QED
    BY <1>5, <2>1, TablesTyped, DecisionsKept
<1>9. AgesCount'
  <2>1. ASSUME NEW s \in Symbols, positions'[s].lot # 0
        PROVE  LET h == positions'[s].hz IN
               \/ /\ positions'[s] = positions[s] /\ NextMark(h, s) = AgeMark(h, s)
                  /\ cursor'[h][s] = cursor[h][s]
               \/ CountedTo(positions'[s]) = NextMark(h, s) /\ cursor'[h][s] > 0
    <3>1. CASE positions'[s] = positions[s] /\ (s = s0 => (worker'.at \in CountedLabels <=> Counted))
      BY <3>1 DEF NextMark, AgeMark, MarkBy, Counted
    <3>2. CASE /\ s = s0 /\ positions'[s].hz = h0
               /\ CountedTo(positions'[s]) =
                    IF worker'.at \in CountedLabels THEN worker.bar ELSE cursor[h0][s]
      BY <1>1, <3>2 DEF NextMark, MarkBy
    <3> QED
      BY <2>1, <3>1, <3>2
  <2> QED
    BY <2>1, AgesKept
<1> QED
  BY <1>2, <1>3, <1>4, <1>7, <1>8, <1>9

(* A position not counted yet is one period before its bar.                *)
LEMMA BeforeFirst ==
  ASSUME NEW p \in Nat, NEW bar \in Int
  PROVE  bar + (0 - 1) * p = bar - p
OBVIOUS

(* A filled entry starts at the bar of its own horizon it is filled on. *)
LEMMA BuyKeeps ==
  ASSUME PendingInv, CopiesInv, HorizonParts, ExecuteBuy
  PROVE  HorizonParts'
<1> DEFINE h0 == worker.hz
           s0 == worker.sym
           o == worker.order
           open == OpenOf(h0, worker.bar)
           row == [lot |-> o, entryOrder |-> o, held |-> 0, hz |-> FillHorizon(o), bar |-> worker.bar]
<1>1. /\ worker.at = "settle" /\ UNCHANGED <<decisions, now, cursor>>
      /\ FillBuyAtomic(o, open, Debited(worker.money, o), row)
  BY DEF ExecuteBuy, At, OnlyWorker, FillBuyAtomic
<1>2. /\ h0 \in Horizons /\ s0 \in Symbols /\ worker \in WorkerState /\ DBTypeOK
      /\ Period[h0] \in Nat /\ worker.bar \in Nat
  BY <1>1, TablesTyped
<1>3. o \in PendingOrders(s0) /\ o \in DOMAIN orders /\ orders[o].status = "PENDING"
      /\ orders[o].symbol = s0
  BY <1>1 DEF CopiesInv, SettlesItsOwn, PendingOrders
<1>4. orders[o].hz = h0
  BY <1>1, <1>3 DEF HorizonParts, OwnerWorks, Busy
<1>5. FillHorizon(o) = h0
  BY <1>2, <1>4, DBAssumption DEF FillHorizon
<1>6. MarkFilled(o, open) /\ positions' = [positions EXCEPT ![s0] = row]
  BY <1>1, <1>3 DEF FillBuyAtomic
<1>7. open \in Int
  BY <1>2 DEF OpenOf
<1>8. OnlySettles
  BY <1>2, <1>3, <1>6, <1>7, OthersAreSettled
<1>9. Keeps /\ worker'.at = "protect"
  BY <1>2, MovesKeep DEF ExecuteBuy
<1>10. InBar
  BY <1>1 DEF InBar, InLoop
<1>11. cursor[h0][s0] = worker.bar - Period[h0]
  BY <1>10, BarUnderWay
<1>12. CountedTo(row) = cursor[h0][s0]
  <2>1. CountedTo(row) = worker.bar + (0 - 1) * Period[h0]
    BY <1>5 DEF CountedTo
  <2> QED
    BY <1>2, <1>11, <2>1, BeforeFirst
<1>13. ASSUME NEW s \in Symbols, positions'[s].lot # 0
       PROVE  \/ /\ positions'[s] = positions[s]
                 /\ s = worker.sym => (worker'.at \in CountedLabels <=> Counted)
              \/ /\ s = worker.sym /\ positions'[s].hz = worker.hz
                 /\ CountedTo(positions'[s]) =
                      IF worker'.at \in CountedLabels THEN worker.bar ELSE cursor[worker.hz][s]
  <2>1. CASE s = s0
    <3>1. positions'[s] = row
      BY <1>2, <1>6, <2>1 DEF DBTypeOK
    <3>2. row.hz = h0
      BY <1>5
    <3> QED
      BY <1>9, <1>12, <2>1, <3>1, <3>2 DEF CountedLabels
  <2>2. CASE s # s0
    BY <1>2, <1>6, <2>2 DEF DBTypeOK
  <2> QED
    BY <2>1, <2>2
<1>14. \A s \in Symbols : \A p \in PendingOrders(s)' : p \in PendingOrders(s) /\ orders'[p] = orders[p]
  BY <1>8 DEF OnlySettles
<1>15. /\ worker'.at \notin {"idle", "begin", "bar", "guard"}
       /\ worker.at \in {"order", "advance"} => worker'.at \in {"order", "advance"}
       /\ worker'.at = "order" => worker'.did = TRUE
  BY <1>1, <1>9
<1> HIDE DEF row, open, o
<1> QED
  BY <1>1, <1>9, <1>10, <1>13, <1>14, <1>15, InBarStepKeeps

(* The row written back is the copy that counted the bar. *)
LEMMA KeepKeeps ==
  ASSUME PendingInv, HorizonParts, KeepPosition
  PROVE  HorizonParts'
<1> DEFINE h0 == worker.hz
           s0 == worker.sym
           row == [Mine EXCEPT !.entryOrder = positions[s0].entryOrder]
<1>1. /\ worker.at = "guard" /\ UNCHANGED <<orders, decisions, now, cursor>>
      /\ positions' = [positions EXCEPT ![s0] = row]
  BY DEF KeepPosition, UpsertPosition, At, OnlyWorker
<1>2. /\ h0 \in Horizons /\ s0 \in Symbols /\ worker \in WorkerState /\ DBTypeOK
      /\ Mine \in PositionRow
  BY <1>1, TablesTyped
<1>3. Keeps /\ worker'.at = "financing"
  BY <1>2, MovesKeep DEF KeepPosition
<1>4. row.hz = Mine.hz /\ row.bar = Mine.bar /\ row.held = Mine.held
  BY <1>2 DEF PositionRow
<1>5. Mine.hz = h0 /\ CountedTo(Mine) = worker.bar
  BY <1>1 DEF HorizonParts, AgesCount, At
<1>6. row.hz = h0 /\ CountedTo(row) = worker.bar
  BY <1>4, <1>5 DEF CountedTo
<1>7. InBar
  BY <1>1 DEF InBar, InLoop
<1>8. positions'[s0] = row /\ \A s \in Symbols : s # s0 => positions'[s] = positions[s]
  BY <1>1, <1>2 DEF DBTypeOK
<1> HIDE DEF row
<1>9. ASSUME NEW s \in Symbols, positions'[s].lot # 0
      PROVE  \/ /\ positions'[s] = positions[s]
                /\ s = worker.sym => (worker'.at \in CountedLabels <=> Counted)
             \/ /\ s = worker.sym /\ positions'[s].hz = worker.hz
                /\ CountedTo(positions'[s]) =
                     IF worker'.at \in CountedLabels THEN worker.bar ELSE cursor[worker.hz][s]
  BY <1>3, <1>6, <1>8 DEF CountedLabels
<1>10. \A s \in Symbols : \A p \in PendingOrders(s)' : p \in PendingOrders(s) /\ orders'[p] = orders[p]
  BY <1>1 DEF PendingOrders
<1>11. /\ worker'.at \notin {"idle", "begin", "bar", "guard"}
       /\ worker.at \in {"order", "advance"} => worker'.at \in {"order", "advance"}
       /\ worker'.at = "order" => worker'.did = TRUE
  BY <1>1, <1>3
<1> QED
  BY <1>1, <1>3, <1>7, <1>9, <1>10, <1>11, InBarStepKeeps

(* The bar under way was not decided before: the decisions are behind. *)
LEMMA DecideKeeps ==
  ASSUME PendingInv, HorizonParts, DecideNothing \/ \E side \in Sides : Decide(side)
  PROVE  HorizonParts'
<1> DEFINE h0 == worker.hz
           s0 == worker.sym
           d0 == [hz |-> h0, symbol |-> s0, bar |-> worker.bar]
<1>1. /\ worker.at = "decide" /\ UNCHANGED <<orders, positions, now, cursor>>
      /\ decisions' = decisions \cup {d0}
  BY DEF DecideNothing, Decide, AddDecision, At, OnlyWorker
<1>2. worker \in WorkerState
  BY TablesTyped
<1>3. InBar
  BY <1>1 DEF InBar, InLoop
<1>4. d0 \notin decisions
  <2>1. /\ cursor[h0][s0] < worker.bar /\ worker.bar \in Nat /\ cursor[h0][s0] \in Nat
    BY <1>3, BarUnderWay
  <2>2. Passed(h0, s0) = cursor[h0][s0]
    BY <1>1 DEF Passed, PassedBy
  <2>3. d0 \in decisions => d0.bar <= Passed(d0.hz, d0.symbol)
    BY DEF HorizonParts, DecisionsBehind
  <2> QED
    BY <2>1, <2>2, <2>3
<1>5. /\ Keeps /\ worker'.at \in {"order", "advance"}
      /\ worker'.at = "order" => worker'.did = TRUE
  <2>1. CASE DecideNothing
    BY <1>2, <2>1, MovesKeep DEF DecideNothing
  <2>2. ASSUME NEW side \in Sides, Decide(side)
        PROVE  Keeps /\ worker'.at = "order" /\ worker'.did = TRUE
    <3>1. worker' = [worker EXCEPT !.at = "order", !.side = side, !.book = positions,
                       !.did = d0 \notin decisions]
      BY <2>2 DEF Decide
    <3>2. worker' = [worker EXCEPT !.at = "order", !.side = side, !.book = positions, !.did = TRUE]
      BY <1>4, <3>1
    <3> QED
      BY <1>2, <3>2 DEF WorkerState, Keeps
  <2> QED
    BY <2>1, <2>2
<1>6. \A d \in decisions' :
        \/ d \in decisions
        \/ /\ worker'.at \in {"order", "advance"}
           /\ d.hz = worker.hz /\ d.symbol = worker.sym /\ d.bar = worker.bar
  BY <1>1, <1>5
<1>7. \A s \in Symbols : positions'[s].lot # 0 =>
        /\ positions'[s] = positions[s]
        /\ s = worker.sym => (worker'.at \in CountedLabels <=> Counted)
  BY <1>1, <1>5 DEF Counted, CountedLabels
<1>8. \A s \in Symbols : \A p \in PendingOrders(s)' : p \in PendingOrders(s) /\ orders'[p] = orders[p]
  BY <1>1 DEF PendingOrders
<1>9. /\ worker'.at \notin {"idle", "begin", "bar", "guard"}
      /\ worker.at \in {"order", "advance"} => worker'.at \in {"order", "advance"}
  BY <1>1, <1>5
<1> HIDE DEF d0
<1> QED
  BY <1>1, <1>3, <1>5, <1>6, <1>7, <1>8, <1>9, InBarStepKeeps

(* An order belongs to the horizon of the decision just stored. *)
LEMMA PlaceKeeps ==
  ASSUME PendingInv, HorizonParts, PlaceOrder
  PROVE  HorizonParts'
<1> DEFINE h0 == worker.hz
           s0 == worker.sym
           n == Len(orders) + 1
           row == [symbol |-> s0, side |-> worker.side, status |-> "PENDING",
                   created |-> worker.bar, filled |-> 0, hz |-> h0, decided |-> Mine.lot]
<1>1. worker.at = "order" /\ UNCHANGED <<positions, decisions, now, cursor>>
  BY DEF PlaceOrder, At, OnlyWorker
<1>2. worker \in WorkerState /\ orders \in Seq(OrderRow)
  BY TablesTyped DEF DBTypeOK
<1>3. worker.did = TRUE
  BY <1>1 DEF HorizonParts, DecisionsBehind, At
<1>4. orders' = Append(orders, row)
  BY <1>3 DEF PlaceOrder, AddOrder
<1>5. Keeps /\ worker'.at = "advance"
  BY <1>2, MovesKeep DEF PlaceOrder
<1>6. /\ DOMAIN orders' = DOMAIN orders \cup {n} /\ orders'[n] = row
      /\ \A p \in DOMAIN orders : orders'[p] = orders[p]
  BY <1>2, <1>4
<1>7. ASSUME NEW s \in Symbols, NEW o \in PendingOrders(s)'
      PROVE  \/ o \in PendingOrders(s) /\ orders'[o] = orders[o]
             \/ /\ s = worker.sym /\ worker'.at \in {"order", "advance"}
                /\ orders'[o].hz = worker.hz /\ orders'[o].created = worker.bar
  BY <1>5, <1>6, <1>7 DEF PendingOrders
<1>8. InBar
  BY <1>1 DEF InBar, InLoop
<1>9. \A s \in Symbols : positions'[s].lot # 0 =>
        /\ positions'[s] = positions[s]
        /\ s = worker.sym => (worker'.at \in CountedLabels <=> Counted)
  BY <1>1, <1>5 DEF Counted, CountedLabels
<1>10. /\ worker'.at \notin {"idle", "begin", "bar", "guard", "order"}
       /\ worker'.at \in {"order", "advance"}
  BY <1>5
<1> QED
  BY <1>1, <1>5, <1>7, <1>8, <1>9, <1>10, InBarStepKeeps

LEMMA HorizonInvInit == Init => HorizonInv
<1> SUFFICES ASSUME Init PROVE HorizonParts
  BY DEF HorizonInv
<1> USE DEF Init, DBInit
<1>1. worker.at = "idle" /\ orders = <<>> /\ decisions = {}
  BY DEF Idle
<1>2. CursorsOnGrid
  <2>1. StartTime \in Nat /\ \A h \in Horizons : Period[h] \in Nat \ {0}
    BY LabAssumption
  <2>2. \A h \in Horizons : 0 % Period[h] = 0
    BY <2>1
  <2> QED
    BY <2>1, <2>2 DEF CursorsOnGrid
<1>3. \A s \in Symbols : PendingOrders(s) = {} /\ ~Held(s)
  BY <1>1 DEF PendingOrders, Held, NoPosition
<1> QED
  BY <1>1, <1>2, <1>3 DEF HorizonParts, BarsFollow, InLoop, InBar, OwnerWorks, Busy, OneOwner,
     OrdersBehind, DecisionsBehind, AgesCount, At

(* Only a bar abandoned half way leaves a bar counted or decided and not   *)
(* behind the cursor.                                                      *)
LEMMA HorizonInvStep ==
  PendingInv /\ CopiesInv /\ HorizonInv /\ [Next]_vars => HorizonInv'
<1> SUFFICES ASSUME PendingInv, CopiesInv, HorizonInv, [Next]_vars, crashes' = 0 PROVE HorizonParts'
  BY DEF HorizonInv
<1>1. CASE Abandon
  BY <1>1, TablesTyped DEF Abandon
<1>2. CASE ~Abandon
  <2>1. crashes' = crashes
    BY <1>2 DEF Next, BarNext, RealtimeNext, BarStep, Select, Tick, RealtimeTrigger, RealtimeExit, vars,
       SelectHorizon, BeginHorizon, NextBar, EndBars, ReadPending, CancelPending, ExecuteBuy, ExecuteSell,
       ReadPosition, KeepPosition, ProtectiveExit, ReadFinancing, ChargeFinancing, CheckMargin,
       ReadLiquidation, Liquidate, EndLiquidation, Decide, DecideNothing, PlaceOrder, AdvanceCursor,
       ReadOnly, OnlyWorker
  <2>2. HorizonParts
    BY <2>1 DEF HorizonInv
  <2>3. CASE CalmStep
    BY <2>2, <2>3, CalmSteps, CalmKeeps
  <2>4. CASE Select
    BY <2>2, <2>4, SelectKeeps DEF Select
  <2>5. CASE BeginHorizon
    BY <2>2, <2>5, BeginKeeps
  <2>6. CASE NextBar
    BY <2>2, <2>6, NextBarKeeps
  <2>7. CASE ReadPosition /\ Held(worker.sym)
    BY <2>2, <2>7, ReadKeeps
  <2>8. CASE AdvanceCursor
    BY <2>2, <2>8, AdvanceKeeps
  <2>9. CASE ExecuteBuy
    BY <2>2, <2>9, BuyKeeps
  <2>10. CASE KeepPosition
    BY <2>2, <2>10, KeepKeeps
  <2>11. CASE DecideNothing \/ \E side \in Sides : Decide(side)
    BY <2>2, <2>11, DecideKeeps
  <2>12. CASE PlaceOrder
    BY <2>2, <2>12, PlaceKeeps
  <2> QED
    BY <1>2, <2>3, <2>4, <2>5, <2>6, <2>7, <2>8, <2>9, <2>10, <2>11, <2>12
    DEF CalmStep, Next, BarNext, BarStep
<1> QED
  BY <1>1, <1>2

(* The steps that touch no order.                                          *)
OtherStep ==
  \/ EndBars \/ ReadPending \/ ReadPosition \/ KeepPosition
  \/ ProtectiveExit \/ ReadFinancing \/ ChargeFinancing \/ CheckMargin
  \/ ReadLiquidation \/ (\E s \in Symbols : Liquidate(s)) \/ EndLiquidation
  \/ Select \/ BeginHorizon \/ NextBar \/ AdvanceCursor \/ DecideNothing
  \/ (\E side \in Sides : Decide(side)) \/ RealtimeNext \/ Tick \/ Abandon \/ UNCHANGED vars

LEMMA OtherStepsKeepOrders == OtherStep => orders' = orders
BY DEF OtherStep, EndBars, ReadPending, ReadPosition, KeepPosition, ProtectiveExit, ReadFinancing,
   ChargeFinancing, CheckMargin, ReadLiquidation, Liquidate, EndLiquidation, Select, SelectHorizon,
   BeginHorizon, NextBar, AdvanceCursor, DecideNothing, Decide, RealtimeNext, RealtimeTrigger,
   RealtimeExit, Tick, Abandon, vars, dbVars, ReadOnly, UpsertPosition, ClosePositionAtomic, SetCash,
   CloseRealtimePositionAtomic

(* An order is filled at the open of a bar of its own horizon that its     *)
(* decision's bar does not reach beyond.                                   *)
LEMMA FilledBehind ==
  ASSUME PendingInv, CopiesInv, HorizonParts, worker.at = "settle"
  PROVE  /\ worker.order \in DOMAIN orders /\ orders[worker.order].status = "PENDING"
         /\ orders[worker.order].created <= OpenOf(worker.hz, worker.bar)
<1> DEFINE o == worker.order
<1>1. /\ o \in PendingOrders(worker.sym) /\ o \in DOMAIN orders /\ orders[o].status = "PENDING"
  BY DEF CopiesInv, SettlesItsOwn, PendingOrders
<1>2. InBar
  BY DEF InBar, InLoop
<1>3. /\ cursor[worker.hz][worker.sym] = worker.bar - Period[worker.hz]
      /\ worker.sym \in Symbols
  BY <1>2, BarUnderWay
<1>4. orders[o].hz = worker.hz
  BY <1>1 DEF HorizonParts, OwnerWorks, Busy
<1>5. orders[o].created <= Passed(worker.hz, worker.sym)
  BY <1>1, <1>3, <1>4 DEF HorizonParts, OrdersBehind
<1> QED
  BY <1>1, <1>3, <1>5 DEF Passed, PassedBy, OpenOf

(* Filling such an order breaks nothing.                                   *)
LEMMA FillsNoEarlier ==
  ASSUME DBTypeOK, NoLookahead, NEW o \in DOMAIN orders, NEW open \in Int,
         orders[o].created <= open, MarkFilled(o, open)
  PROVE  NoLookahead'
<1>1. orders[o] \in OrderRow
  BY DEF DBTypeOK
<1>2. orders' = [orders EXCEPT ![o] = [orders[o] EXCEPT !.status = "FILLED", !.filled = open]]
  BY DEF MarkFilled, DBTypeOK
<1>3. /\ DOMAIN orders' = DOMAIN orders /\ \A p \in DOMAIN orders : p # o => orders'[p] = orders[p]
      /\ orders'[o] = [orders[o] EXCEPT !.status = "FILLED", !.filled = open]
  BY <1>2
<1>4. orders'[o].created = orders[o].created /\ orders'[o].filled = open
  BY <1>1, <1>3 DEF OrderRow
<1>5. open >= orders[o].created
  BY <1>1 DEF OrderRow
<1> QED
  BY <1>3, <1>4, <1>5 DEF NoLookahead

(* Every fill is one of those.                                             *)
LEMMA LookaheadStep ==
  PendingInv /\ CopiesInv /\ HorizonInv /\ NoLookaheadUnlessAbandoned /\ [Next]_vars
    => NoLookaheadUnlessAbandoned'
<1> SUFFICES ASSUME PendingInv, CopiesInv, HorizonInv, NoLookaheadUnlessAbandoned, [Next]_vars,
                    crashes' = 0
             PROVE  NoLookahead'
  BY DEF NoLookaheadUnlessAbandoned
<1>1. DBTypeOK /\ worker.hz \in Horizons /\ worker.bar \in Nat /\ crashes \in Nat
  BY TablesTyped
<1>2. Period[worker.hz] \in Nat
  BY <1>1, TablesTyped
<1>3. ASSUME crashes' = crashes PROVE HorizonParts /\ NoLookahead
  BY <1>3 DEF HorizonInv, NoLookaheadUnlessAbandoned
<1>4. CASE OtherStep
  <2>1. orders' = orders
    BY <1>4, OtherStepsKeepOrders
  <2>2. crashes' = crashes \/ crashes' = crashes + 1
    BY <1>4 DEF OtherStep, EndBars, ReadPending, ReadPosition, KeepPosition, ProtectiveExit,
       ReadFinancing, ChargeFinancing, CheckMargin, ReadLiquidation, Liquidate, EndLiquidation, Select,
       SelectHorizon, BeginHorizon, NextBar, AdvanceCursor, DecideNothing, Decide, RealtimeNext,
       RealtimeTrigger, RealtimeExit, Tick, Abandon, vars, ReadOnly, OnlyWorker
  <2>3. crashes = 0
    BY <1>1, <2>2
  <2> QED
    BY <2>1, <2>3 DEF NoLookaheadUnlessAbandoned, NoLookahead
<1>5. CASE CancelPending
  <2>1. /\ worker.order \in DOMAIN orders /\ CancelOrder(worker.order) /\ crashes' = crashes
    BY <1>5 DEF CancelPending, PendingInv, OrderReadExists, OnlyWorker
  <2>2. NoLookahead
    BY <1>3, <2>1
  <2>3. /\ DOMAIN orders' = DOMAIN orders
        /\ \A p \in DOMAIN orders : p # worker.order => orders'[p] = orders[p]
        /\ orders' = orders \/ orders'[worker.order].status # "FILLED"
    <3>1. CASE orders[worker.order].status = "PENDING"
      <4>1. orders'[worker.order].status = "CANCELLED"
        BY <1>1, <2>1, <3>1, CancelledRows
      <4> QED
        BY <2>1, <3>1, <4>1 DEF CancelOrder
    <3>2. CASE orders[worker.order].status # "PENDING"
      BY <2>1, <3>2 DEF CancelOrder
    <3> QED
      BY <3>1, <3>2
  <2> QED
    BY <2>2, <2>3 DEF NoLookahead
<1>6. CASE ExecuteBuy \/ ExecuteSell
  <2> DEFINE o == worker.order
             open == OpenOf(worker.hz, worker.bar)
  <2>1. worker.at = "settle" /\ crashes' = crashes
    BY <1>6 DEF ExecuteBuy, ExecuteSell, At, OnlyWorker
  <2>2. HorizonParts /\ NoLookahead
    BY <1>3, <2>1
  <2>3. o \in DOMAIN orders /\ orders[o].status = "PENDING" /\ orders[o].created <= open
    BY <2>1, <2>2, FilledBehind
  <2>4. MarkFilled(o, open)
    BY <1>6, <2>3 DEF ExecuteBuy, ExecuteSell, FillBuyAtomic, FillSellAtomic
  <2>5. open \in Int
    BY <1>1, <1>2 DEF OpenOf
  <2> HIDE DEF o, open
  <2> QED
    BY <1>1, <2>2, <2>3, <2>4, <2>5, FillsNoEarlier
<1>7. CASE PlaceOrder
  <2>1. crashes' = crashes
    BY <1>7 DEF PlaceOrder, OnlyWorker
  <2>2. NoLookahead
    BY <1>3, <2>1
  <2>3. orders \in Seq(OrderRow)
    BY <1>1 DEF DBTypeOK
  <2>4. PICK r : orders' = Append(orders, r) /\ r.status = "PENDING"
    BY <1>7 DEF PlaceOrder, AddOrder
  <2>5. /\ DOMAIN orders' = DOMAIN orders \cup {Len(orders) + 1} /\ orders'[Len(orders) + 1] = r
        /\ \A p \in DOMAIN orders : orders'[p] = orders[p]
    BY <2>3, <2>4
  <2> QED
    BY <2>2, <2>4, <2>5 DEF NoLookahead
<1> QED
  BY <1>4, <1>5, <1>6, <1>7 DEF OtherStep, Next, BarNext, BarStep

(* While no bar is abandoned half way, an order fills at the open of a bar *)
(* that is not before the close its decision was taken on, with several    *)
(* horizons taking turns and the realtime worker closing positions.        *)
THEOREM FillsFollowDecisions == Spec => []NoLookaheadUnlessAbandoned
<1>1. Init => NoLookaheadUnlessAbandoned
  BY DEF Init, DBInit, NoLookaheadUnlessAbandoned, NoLookahead
<1> QED
  BY <1>1, PendingInvInit, PendingInvStep, LotInvInit, LotInvStep, HorizonInvInit, HorizonInvStep,
     LookaheadStep, PTL DEF Spec

(* Under the same condition bars_held counts every bar of the position's   *)
(* own horizon exactly once.                                               *)
THEOREM EveryBarCountsOnce == Spec => []AgeCountsEachBarOnce
<1>1. HorizonInv => AgeCountsEachBarOnce
  <2> SUFFICES ASSUME HorizonInv, crashes = 0, NEW s \in Symbols, Held(s), worker.sym # s
               PROVE  cursor[positions[s].hz][s]
                        = positions[s].bar + (positions[s].held - 1) * Period[positions[s].hz]
    BY DEF AgeCountsEachBarOnce
  <2>1. CountedTo(positions[s]) = cursor[positions[s].hz][s]
    BY DEF HorizonInv, HorizonParts, AgesCount, AgeMark, MarkBy
  <2> QED
    BY <2>1 DEF CountedTo
<1> QED
  BY <1>1, PendingInvInit, PendingInvStep, LotInvInit, LotInvStep, HorizonInvInit, HorizonInvStep,
     PTL DEF Spec
=============================================================================
