------------------------------ MODULE ForwardTest ------------------------------
(***************************************************************************)
(* The forward validation (src/src/forward.py, forward_db.py) and the      *)
(* multi-horizon validation made after it (src/src/horizon.py,             *)
(* horizon_db.py).  A candidate is frozen at its registration; every daily *)
(* bar that closes later is booked in several transactions: the fills it   *)
(* causes, its row of the equity curve, and the state row, whose           *)
(* last_processed_bar is the cursor.  A runner is a process or a dashboard *)
(* session inside run_once: several may run at a time, and any of them may *)
(* fail or die between two transactions.                                   *)
(*                                                                         *)
(* Cash, quantity and cost basis are functions of the fills executed since *)
(* the registration, so the set of those fills stands for the three.  A    *)
(* bar that has closed does not change.                                    *)
(***************************************************************************)
EXTENDS Integers, FiniteSets, Sequences

CONSTANTS
  Candidates,
  Runners,
  Quotes,         \* bars: the open, the protective prices in range, the signal
  MaxHeld,        \* max_holding_bars of a horizon
  LastDay,        \* bound: bars that close
  MaxAborts       \* bound: writes that fail, runners that die

ForwardAssumption ==
  /\ Quotes \subseteq [open : Nat \ {0}, range : {"quiet", "stop", "target", "both"},
                      signal : {0, 1}]
  /\ LastDay \in Nat /\ MaxHeld \in Nat \ {0} /\ MaxAborts \in Nat
ASSUME ForwardAssumption

VARIABLES
  bars,       \* the daily bars of a candidate's symbol that have closed
  registered,   \* the last bar closed when a candidate was registered, or -1
  book,         \* a candidate of the forward test or a sleeve of a horizon
  state,        \* forward_state
  trades,       \* forward_trades
  equity,       \* forward_equity: what a bar's row accounts for
  runner,       \* a runner: where it is and what it holds in memory
  booked,       \* history: the first state row written for a bar
  aborts

forwardVars ==
  <<bars, registered, book, state, trades, equity, runner, booked, aborts>>

Opens == {q.open : q \in Quotes}

Fills == [bar : 1..LastDay, action : {"BUY", "SELL"}, reason : {"SIGNAL", "STOP", "TAKE_PROFIT", "TIME_EXIT"},
          price : Opens, signalBar : 0..LastDay]

(* entry: entry_fill, 0 when flat; held: bars_in_position of a sleeve;     *)
(* last: the cursor, at first the registration itself                      *)
StateRows == [fills : SUBSET Fills, entry : Opens \union {0}, pending : {0, 1},
              held : 0..MaxHeld, last : 0..LastDay]

(* no row yet *)
NoRow == [fills |-> {}, entry |-> 0, pending |-> 0, held |-> 0, last |-> 0]

(* the row a registration writes *)
NewState(c) == [NoRow EXCEPT !.last = registered[c]]

Idle == [at |-> "idle", left |-> {}, cand |-> "none", df |-> <<>>,
         st |-> NoRow, next |-> NoRow, rows |-> {}]

-----------------------------------------------------------------------------
(* What one bar does *)

Fill(s, q, n, action, reason, price) ==
  [bar |-> n, action |-> action, reason |-> reason, price |-> price, signalBar |-> s.last]

(* a horizon's time is up: the exit is known before the bar opens *)
TimeExit(s, q, n) ==
  [s EXCEPT !.fills = @ \union {Fill(s, q, n, "SELL", "TIME_EXIT", q.open)},
            !.entry = 0, !.held = 0]

(* the target of an earlier bar is executed at the open *)
AtOpen(s, q, n) ==
  IF s.pending = 1 /\ s.entry = 0
  THEN [s EXCEPT !.fills = @ \union {Fill(s, q, n, "BUY", "SIGNAL", q.open)},
                 !.entry = q.open]
  ELSE IF s.pending = 0 /\ s.entry # 0
  THEN [s EXCEPT !.fills = @ \union {Fill(s, q, n, "SELL", "SIGNAL", q.open)},
                 !.entry = 0, !.held = 0]
  ELSE s

(* then the protective prices, the stop first *)
Protected(s, q, n) ==
  IF s.entry # 0 /\ q.range # "quiet"
  THEN [s EXCEPT !.fills = @ \union {Fill(s, q, n, "SELL",
                     IF q.range = "target" THEN "TAKE_PROFIT" ELSE "STOP", s.entry)},
                 !.entry = 0, !.held = 0]
  ELSE s

(* and last the target for a later bar *)
ForwardBar(s, q, n) == [Protected(AtOpen(s, q, n), q, n) EXCEPT !.pending = q.signal, !.last = n]

HorizonBar(s, q, n) ==
  LET t == Protected(IF s.entry # 0 /\ s.held >= MaxHeld THEN TimeExit(s, q, n)
                     ELSE AtOpen(s, q, n), q, n)
  IN  [t EXCEPT !.pending = q.signal, !.last = n, !.held = IF t.entry # 0 THEN @ + 1 ELSE 0]

AfterBar(c, s, q, n) == IF book[c] = "horizon" THEN HorizonBar(s, q, n) ELSE ForwardBar(s, q, n)

-----------------------------------------------------------------------------
ForwardInit ==
  /\ bars = [c \in Candidates |-> <<>>]
  /\ registered = [c \in Candidates |-> -1]
  /\ book = [c \in Candidates |-> "none"]
  /\ state = [c \in Candidates |-> NoRow]
  /\ trades = [c \in Candidates |-> {}]
  /\ equity = [c \in Candidates |-> <<>>]
  /\ runner = [r \in Runners |-> Idle]
  /\ booked = [c \in Candidates |-> <<>>]
  /\ aborts = 0

(* A day ends *)
DayCloses(c, q) ==
  /\ Len(bars[c]) < LastDay
  /\ bars' = [bars EXCEPT ![c] = Append(@, q)]
  /\ UNCHANGED <<registered, book, state, trades, equity, runner, booked, aborts>>

(* both rows in one transaction; "forward" or "horizon" *)
RegisterCandidate(c, kind) ==
  /\ registered[c] = -1
  /\ registered' = [registered EXCEPT ![c] = Len(bars[c])]
  /\ book' = [book EXCEPT ![c] = kind]
  /\ state' = [state EXCEPT ![c] = [NoRow EXCEPT !.last = Len(bars[c])]]
  /\ UNCHANGED <<bars, trades, equity, runner, booked, aborts>>

-----------------------------------------------------------------------------
(* run_once *)

Move(r, rec) == runner' = [runner EXCEPT ![r] = rec]

(* back to the loop over the candidates, forgetting the one at hand *)
NextCandidate(r) == Move(r, [Idle EXCEPT !.at = "loop", !.left = runner[r].left])

StartRun(r) ==
  /\ runner[r].at = "idle"
  /\ Move(r, [Idle EXCEPT !.at = "loop",
                          !.left = {c \in Candidates : registered[c] # -1}])
  /\ UNCHANGED <<bars, registered, book, state, trades, equity, booked, aborts>>

(* the bars closed by now_iso; the vendor may also deliver too little of   *)
(* the history, or one that validate_ohlcv rejects                         *)
LoadHistory(r, c) ==
  /\ runner[r].at = "loop" /\ c \in runner[r].left
  /\ \/ Move(r, [runner[r] EXCEPT !.at = "read", !.left = @ \ {c}, !.cand = c,
                                  !.df = bars[c]])
     \/ Move(r, [runner[r] EXCEPT !.left = @ \ {c}])
  /\ UNCHANGED <<bars, registered, book, state, trades, equity, booked, aborts>>

(* mutant: only the latest of the new bars is booked *)
BookLatest(r, s) ==
  LET rec == runner[r]
      n   == Len(rec.df)
      t   == AfterBar(rec.cand, s, rec.df[n], n)
  IN  IF s.last >= n
      THEN NextCandidate(r)
      ELSE Move(r, [rec EXCEPT !.at = "trades", !.st = s, !.next = t, !.rows = t.fills \ s.fills])

(* the bar after the cursor that the loaded history already holds *)
BookFrom(r, s) ==
  LET rec == runner[r]
      n   == s.last + 1
  IN  IF n > Len(rec.df)
      THEN NextCandidate(r)
      ELSE LET t == AfterBar(rec.cand, s, rec.df[n], n)
           IN  Move(r, [at |-> "trades", left |-> rec.left, cand |-> rec.cand, df |-> rec.df,
                        st |-> s, next |-> t, rows |-> t.fills \ s.fills])

ReadState(r) ==
  /\ runner[r].at = "read"
  /\ BookFrom(r, state[runner[r].cand])
  /\ UNCHANGED <<bars, registered, book, state, trades, equity, booked, aborts>>

SameRow(t, u) == t.bar = u.bar /\ t.action = u.action /\ t.reason = u.reason

(* INSERT OR IGNORE under UNIQUE(candidate_id, bar_time, action, reason) *)
Inserted(rows, t) == IF \E u \in rows : SameRow(t, u) THEN rows ELSE rows \union {t}

(* the fill at the open is written before the protective exit *)
InsertTrade(r, t) ==
  LET rec == runner[r]
  IN  /\ rec.at = "trades" /\ t \in rec.rows
      /\ t.reason \notin {"SIGNAL", "TIME_EXIT"} => \A u \in rec.rows : u.reason # "SIGNAL"
      /\ trades' = [trades EXCEPT ![rec.cand] = Inserted(@, t)]
      /\ Move(r, [rec EXCEPT !.rows = @ \ {t}])
      /\ UNCHANGED <<bars, registered, book, state, equity, booked, aborts>>

(* mutant: the bar goes on though not all of its trades are written *)
EquityBeforeTrades(r) ==
  LET rec == runner[r]
  IN  /\ rec.at = "trades"
      /\ equity' = [equity EXCEPT ![rec.cand] =
                      [n \in DOMAIN @ \union {rec.next.last} |->
                         IF n = rec.next.last THEN rec.next.fills ELSE @[n]]]
      /\ Move(r, [rec EXCEPT !.at = "state", !.rows = {}])
      /\ UNCHANGED <<bars, registered, book, state, trades, booked, aborts>>

UpsertEquity(r) ==
  LET rec == runner[r]
  IN  /\ rec.at = "trades" /\ rec.rows = {}
      /\ equity' = [equity EXCEPT ![rec.cand] =
                      [n \in DOMAIN @ \union {rec.next.last} |->
                         IF n = rec.next.last THEN rec.next.fills ELSE @[n]]]
      /\ Move(r, [rec EXCEPT !.at = "state"])
      /\ UNCHANGED <<bars, registered, book, state, trades, booked, aborts>>

(* the state row, and on to the next bar with the state in memory *)
UpsertState(r) ==
  LET rec == runner[r]
      n   == rec.next.last
      old == booked[rec.cand]
  IN  /\ rec.at = "state"
      /\ state' = [state EXCEPT ![rec.cand] = rec.next]
      /\ booked' = [booked EXCEPT ![rec.cand] =
                      IF n \in DOMAIN @ THEN @
                      ELSE [m \in DOMAIN @ \union {n} |-> IF m = n THEN rec.next ELSE @[m]]]
      /\ BookFrom(r, rec.next)
      /\ UNCHANGED <<bars, registered, book, trades, equity, aborts>>

(* a vendor or database error: the candidate is left where it stands *)
CandidateFails(r) ==
  /\ runner[r].at \in {"read", "trades", "state"}
  /\ aborts < MaxAborts /\ aborts' = aborts + 1
  /\ NextCandidate(r)
  /\ UNCHANGED <<bars, registered, book, state, trades, equity, booked>>

FinishRun(r) ==
  /\ runner[r].at = "loop" /\ runner[r].left = {}
  /\ Move(r, Idle)
  /\ UNCHANGED <<bars, registered, book, state, trades, equity, booked, aborts>>

(* the process dies; its row of forward_runs stays RUNNING *)
RunnerDies(r) ==
  /\ runner[r].at # "idle"
  /\ aborts < MaxAborts /\ aborts' = aborts + 1
  /\ Move(r, Idle)
  /\ UNCHANGED <<bars, registered, book, state, trades, equity, booked>>

ForwardNext ==
  \/ \E c \in Candidates, q \in Quotes : DayCloses(c, q)
  \/ \E c \in Candidates, k \in {"forward", "horizon"} : RegisterCandidate(c, k)
  \/ \E r \in Runners : StartRun(r)
  \/ \E r \in Runners, c \in Candidates : LoadHistory(r, c)
  \/ \E r \in Runners : ReadState(r)
  \/ \E r \in Runners : \E t \in runner[r].rows : InsertTrade(r, t)
  \/ \E r \in Runners : UpsertEquity(r)
  \/ \E r \in Runners : UpsertState(r)
  \/ \E r \in Runners : CandidateFails(r)
  \/ \E r \in Runners : FinishRun(r)
  \/ \E r \in Runners : RunnerDies(r)

ForwardSpec == ForwardInit /\ [][ForwardNext]_forwardVars

-----------------------------------------------------------------------------
RunnerRows ==
  [at : {"idle", "loop", "read", "trades", "state"},
   left : SUBSET Candidates, cand : Candidates \union {"none"}, df : Seq(Quotes),
   st : StateRows, next : StateRows, rows : SUBSET Fills]

ForwardTypeOK ==
  /\ bars \in [Candidates -> Seq(Quotes)]
  /\ registered \in [Candidates -> -1..LastDay]
  /\ state \in [Candidates -> StateRows]
  /\ trades \in [Candidates -> SUBSET Fills]
  /\ runner \in [Runners -> RunnerRows]
  /\ book \in [Candidates -> {"none", "forward", "horizon"}]
  /\ aborts \in 0..MaxAborts

(* the rows of a ledger for the bars up to the cursor of a state row *)
RowsUpTo(c, s) == {t \in trades[c] : t.bar <= s.last}

(* However runs overlap, fail or die, the cash of a candidate accounts for *)
(* the trade rows of the bars up to its cursor and for nothing else: no    *)
(* fill is booked twice, none is booked and not executed                   *)
(* (src/forward.py, "processing is idempotent").                           *)
CashIsItsTrades ==
  \A c \in Candidates :
    registered[c] # -1 => state[c].fills = RowsUpTo(c, state[c])

(* A bar gives one result whoever books it, and booked again it gives it   *)
(* again: the state a runner holds in memory or has written is the one     *)
(* first written for that bar, and the bars booked leave no gap in the     *)
(* equity curve the scorecard is computed from.                            *)
BarsBookedAlike ==
  \A c \in Candidates :
    /\ registered[c] # -1 =>
         state[c] = IF state[c].last \in DOMAIN booked[c] THEN booked[c][state[c].last]
                    ELSE NewState(c)
    /\ \A n \in DOMAIN booked[c] :
         /\ n > registered[c]
         /\ \A m \in (registered[c] + 1)..n :
              m \in DOMAIN equity[c] /\ equity[c][m] = booked[c][m].fills
=============================================================================
