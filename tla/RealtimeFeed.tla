------------------------------ MODULE RealtimeFeed ------------------------------
(***************************************************************************)
(* The realtime worker (realtime_worker.py, src/src/realtime_layer.py)     *)
(* between the simulation database and its own.  Two of its threads share  *)
(* the watchlist: one rebuilds it from the open positions and the latest   *)
(* decisions, the other keeps one stream open on what it lists and treats  *)
(* every message in three transactions: the quote, the protective exit,    *)
(* the signal.  Quotes also come from the supervisor's REST fallback.      *)
(*                                                                         *)
(* A price is what it reaches of the position's two levels.  The close     *)
(* itself, and its race with the bar worker over cash, is SimulationLab's  *)
(* RealtimeExit; the store that reads the signals is TcaStore.             *)
(***************************************************************************)
EXTENDS Integers, FiniteSets

CONSTANTS
  Assets,     \* ACTIVE assets of the market
  Prices,     \* which of its levels a price reaches
  Cap         \* _cap: symbols of a stream, positions aside

FeedAssumption ==
  /\ IsFiniteSet(Assets) /\ Assets # {} /\ Cap \in Nat \ {0}
  /\ Prices \subseteq {"stop", "mid", "target"}
ASSUME FeedAssumption

VARIABLES
  held,         \* positions of the account
  watchlist,
  quotes,       \* symbols that have a row; its price is read by TcaStore
  signals,      \* the signal of a symbol's row, or "none"
  refresh,      \* the watchlist thread
  stream        \* the stream thread

feedVars == <<held, watchlist, quotes, signals, refresh, stream>>


Closed == [at |-> "closed", symbols |-> {}, symbol |-> "none", price |-> "none"]

FeedInit ==
  /\ held = {} /\ watchlist = {} /\ quotes = {}
  /\ signals = [s \in Assets |-> "none"]
  /\ refresh = [at |-> "idle", rows |-> {}]
  /\ stream = Closed

-----------------------------------------------------------------------------
(* What the bar worker does to the database that is read here *)

BarWorkerBuys(s) ==
  /\ s \notin held
  /\ held' = held \union {s}
  /\ UNCHANGED <<watchlist, quotes, signals, refresh, stream>>

BarWorkerSells(s) ==
  /\ s \in held
  /\ held' = held \ {s}
  /\ UNCHANGED <<watchlist, quotes, signals, refresh, stream>>

-----------------------------------------------------------------------------
(* _refresh_watchlist_loop *)

(* mutant: positions are cut to the slots as well *)
ChoicesWithinCap == {rows \in SUBSET Assets : Cardinality(rows) = Cap}

(* every position, and the best of the other assets for the slots left;    *)
(* their scores are left open                                              *)
Choices ==
  LET slots == IF Cap > Cardinality(held) THEN Cap - Cardinality(held) ELSE 0
      others == Assets \ held
      n == IF slots < Cardinality(others) THEN slots ELSE Cardinality(others)
  IN  {held \union picks : picks \in {p \in SUBSET others : Cardinality(p) = n}}

ReadPositions(rows) ==
  /\ refresh.at = "idle"
  /\ rows \in Choices
  /\ refresh' = [at |-> "write", rows |-> rows]
  /\ UNCHANGED <<held, watchlist, quotes, signals, stream>>

(* one transaction: the list, and no rows but for what it lists *)
SetWatchlist ==
  /\ refresh.at = "write"
  /\ watchlist' = refresh.rows
  /\ quotes' = quotes \intersect refresh.rows
  /\ signals' = [s \in Assets |-> IF s \in refresh.rows THEN signals[s] ELSE "none"]
  /\ refresh' = [at |-> "idle", rows |-> {}]
  /\ UNCHANGED <<held, stream>>

-----------------------------------------------------------------------------
(* _crypto_loop *)

Connect ==
  /\ stream.at = "closed" /\ watchlist # {}
  /\ stream' = [at |-> "check", symbols |-> watchlist, symbol |-> "none", price |-> "none"]
  /\ UNCHANGED <<held, watchlist, quotes, signals, refresh>>

(* read again before every message: another list needs another stream *)
CheckSubscription ==
  /\ stream.at = "check"
  /\ stream' = IF stream.symbols = watchlist THEN [stream EXCEPT !.at = "recv"] ELSE Closed
  /\ UNCHANGED <<held, watchlist, quotes, signals, refresh>>

(* the five seconds of recv are over *)
NoMessage ==
  /\ stream.at = "recv"
  /\ stream' = [stream EXCEPT !.at = "check"]
  /\ UNCHANGED <<held, watchlist, quotes, signals, refresh>>

StreamFails ==
  /\ stream.at # "closed"
  /\ stream' = Closed
  /\ UNCHANGED <<held, watchlist, quotes, signals, refresh>>

UpsertQuote(s) == quotes' = quotes \union {s}

Message(s, price) ==
  /\ stream.at = "recv" /\ s \in stream.symbols
  /\ UpsertQuote(s)
  /\ stream' = [stream EXCEPT !.at = "exit", !.symbol = s, !.price = price]
  /\ UNCHANGED <<held, watchlist, signals, refresh>>

(* execute_realtime_protective_exit *)
ProtectPosition ==
  /\ stream.at = "exit"
  /\ held' = IF stream.price \in {"stop", "target"} THEN held \ {stream.symbol} ELSE held
  /\ stream' = [stream EXCEPT !.at = "signal"]
  /\ UNCHANGED <<watchlist, quotes, signals, refresh>>

(* action: that of the most confident of the recent decisions *)
SignalOf(s, price, action) ==
  IF s \in held
  THEN CASE price = "stop" -> "STOP_TOUCH"
         [] price = "target" -> "TARGET_TOUCH"
         [] OTHER -> "HOLD"
  ELSE IF action = "ENTER" THEN "ENTRY_CONFIRM" ELSE "WATCH"

EvaluateSignal(action) ==
  /\ stream.at = "signal"
  /\ signals' = [signals EXCEPT ![stream.symbol] = SignalOf(stream.symbol, stream.price, action)]
  /\ stream' = [stream EXCEPT !.at = "check", !.symbol = "none", !.price = "none"]
  /\ UNCHANGED <<held, watchlist, quotes, refresh>>

(* the supervisor, for a symbol whose quote it found stale a moment ago *)
RestRefresh(s) ==
  /\ UpsertQuote(s)
  /\ UNCHANGED <<held, watchlist, signals, refresh, stream>>

RefreshStep == (\E rows \in SUBSET Assets : ReadPositions(rows)) \/ SetWatchlist

(* what the stream thread does without waiting for the market *)
StreamStep ==
  \/ Connect \/ CheckSubscription \/ NoMessage \/ ProtectPosition
  \/ \E action \in {"ENTER", "WAIT"} : EvaluateSignal(action)

FeedNext ==
  \/ \E s \in Assets : BarWorkerBuys(s)
  \/ \E s \in Assets : BarWorkerSells(s)
  \/ RefreshStep
  \/ StreamStep
  \/ StreamFails
  \/ \E s \in Assets, p \in Prices : Message(s, p)
  \/ \E s \in Assets : RestRefresh(s)

(* Both threads go on, and a market that answers keeps sending prices of   *)
(* what is subscribed; a stream that fails is opened again.                *)
FeedFairness ==
  /\ WF_feedVars(\E rows \in SUBSET Assets : ReadPositions(rows)) /\ WF_feedVars(SetWatchlist)
  /\ WF_feedVars(StreamStep)

FeedSpec == FeedInit /\ [][FeedNext]_feedVars /\ FeedFairness

-----------------------------------------------------------------------------
FeedTypeOK ==
  /\ held \subseteq Assets /\ watchlist \subseteq Assets /\ quotes \subseteq Assets
  /\ signals \in [Assets -> {"none", "HOLD", "STOP_TOUCH", "TARGET_TOUCH", "ENTRY_CONFIRM", "WATCH"}]
  /\ refresh \in [at : {"idle", "write"}, rows : SUBSET Assets]
  /\ stream \in [at : {"closed", "check", "recv", "exit", "signal"}, symbols : SUBSET Assets,
                 symbol : Assets \union {"none"}, price : Prices \union {"none"}]

(* A position that stays open comes under the stream however many there    *)
(* are and whatever the list held before, or it has no protective exit     *)
(* until the next bar (build_realtime_watchlist, "Positions are always     *)
(* watched").                                                              *)
HeldIsStreamed ==
  \A s \in Assets : s \in held ~> (s \in stream.symbols \/ s \notin held)
=============================================================================
