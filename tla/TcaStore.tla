-------------------------------- MODULE TcaStore --------------------------------
(***************************************************************************)
(* The shadow cost analysis (tca_worker.py, src/src/tca_engine.py) of one  *)
(* symbol: it polls the quote and the signal that RealtimeFeed writes,     *)
(* makes an event of a signal that has changed into a trigger, and marks   *)
(* the price 5, 30 and 60 seconds on.  Every step is a transaction of its  *)
(* own; the worker can be stopped between any two.  Quotes carry the time  *)
(* of the exchange or, from the REST fallback, of this host, so a later    *)
(* row can have an earlier time.                                           *)
(***************************************************************************)
EXTENDS Integers, Sequences, FiniteSets

CONSTANTS
  Signals, Triggers,    \* names of signals, and those that are TRIGGERS
  Fresh,                \* MAX_QUOTE_AGE_SECONDS
  Marks,                \* <<5, 30, 60>>
  Lag,                  \* the most an exchange's time is behind
  LastTick,             \* bound: the clock
  MaxChanges            \* bound: changes of the signal

TcaAssumption ==
  /\ Triggers \subseteq Signals /\ "none" \notin Signals
  /\ Fresh \in Nat /\ Lag \in Nat /\ LastTick \in Nat /\ MaxChanges \in Nat
  /\ Marks \in Seq(Nat) /\ \A i, j \in DOMAIN Marks : i < j => Marks[i] < Marks[j]
ASSUME TcaAssumption

VARIABLES
  clock,
  signal,       \* the row of signals
  quote,        \* the time of the row of quotes
  lastSignal,   \* tca_signal_state
  events,       \* tca_events: trigger, time, and the time of each mark or -1
  tca,          \* the worker: where it is, the signal and the quote it read
  raised        \* history: times the signal changed into a trigger

tcaVars == <<clock, signal, quote, lastSignal, events, tca, raised>>

Resting == [at |-> "idle", signal |-> "none", quote |-> -1]

TcaInit ==
  /\ clock = 0
  /\ signal = "none" /\ quote = -1
  /\ lastSignal = "none"
  /\ events = <<>>
  /\ tca = Resting
  /\ raised = [g \in Triggers |-> 0]

-----------------------------------------------------------------------------
(* The tables of the realtime worker *)

TcaTick ==
  /\ clock < LastTick
  /\ clock' = clock + 1
  /\ UNCHANGED <<signal, quote, lastSignal, events, tca, raised>>

SetSignal(g) ==
  /\ g # signal
  /\ g \in Triggers => raised[g] < MaxChanges
  /\ signal' = g
  /\ raised' = IF g \in Triggers THEN [raised EXCEPT ![g] = @ + 1] ELSE raised
  /\ UNCHANGED <<clock, quote, lastSignal, events, tca>>

SetQuote(ts) ==
  /\ ts >= clock - Lag /\ ts <= clock
  /\ quote' = ts
  /\ UNCHANGED <<clock, signal, lastSignal, events, tca, raised>>

-----------------------------------------------------------------------------
(* The worker *)

ReadSignal ==
  /\ tca.at = "idle"
  /\ tca' = [at |-> "quotes", signal |-> signal, quote |-> -1]
  /\ UNCHANGED <<clock, signal, quote, lastSignal, events, raised>>

IsFresh(ts) == clock - ts <= Fresh

ReadQuote ==
  /\ tca.at = "quotes"
  /\ tca' = IF quote >= 0 /\ IsFresh(quote)
            THEN [tca EXCEPT !.at = "follow", !.quote = quote]
            ELSE Resting
  /\ UNCHANGED <<clock, signal, quote, lastSignal, events, raised>>

(* _update_followups: every mark that is due and not yet taken *)
Marked(e) ==
  [e EXCEPT !.marks = [i \in DOMAIN Marks |->
     IF e.marks[i] = -1 /\ tca.quote - e.ts >= Marks[i] THEN tca.quote ELSE e.marks[i]]]

FollowUp ==
  /\ tca.at = "follow"
  /\ events' = [n \in DOMAIN events |-> Marked(events[n])]
  /\ tca' = IF tca.signal = "none" THEN Resting ELSE [tca EXCEPT !.at = "note"]
  /\ UNCHANGED <<clock, signal, quote, lastSignal, raised>>

(* mutant: a signal that becomes an event is not noted *)
NoteOnlyIdle ==
  /\ tca.at = "note"
  /\ IF tca.signal # lastSignal /\ tca.signal \in Triggers /\ IsFresh(tca.quote)
     THEN tca' = [tca EXCEPT !.at = "insert"] /\ UNCHANGED lastSignal
     ELSE tca' = Resting /\ lastSignal' = tca.signal
  /\ UNCHANGED <<clock, signal, quote, events, raised>>

(* the new signal is noted before anything is made of it *)
NoteSignal ==
  /\ tca.at = "note"
  /\ lastSignal' = tca.signal
  /\ tca' = IF tca.signal # lastSignal /\ tca.signal \in Triggers /\ IsFresh(tca.quote)
            THEN [tca EXCEPT !.at = "insert"]
            ELSE Resting
  /\ UNCHANGED <<clock, signal, quote, events, raised>>

InsertEvent ==
  /\ tca.at = "insert"
  /\ events' = Append(events, [trigger |-> tca.signal, ts |-> tca.quote,
                               marks |-> [i \in DOMAIN Marks |-> -1]])
  /\ tca' = Resting
  /\ UNCHANGED <<clock, signal, quote, lastSignal, raised>>

(* an exception, or the supervisor *)
WorkerStops ==
  /\ tca.at # "idle"
  /\ tca' = Resting
  /\ UNCHANGED <<clock, signal, quote, lastSignal, events, raised>>

TcaNext ==
  \/ TcaTick
  \/ \E g \in Signals : SetSignal(g)
  \/ \E ts \in 0..LastTick : SetQuote(ts)
  \/ ReadSignal
  \/ ReadQuote
  \/ FollowUp
  \/ NoteSignal
  \/ InsertEvent
  \/ WorkerStops

TcaSpec == TcaInit /\ [][TcaNext]_tcaVars

-----------------------------------------------------------------------------
EventRow == [trigger : Triggers, ts : 0..LastTick, marks : [DOMAIN Marks -> -1..LastTick]]

TcaTypeOK ==
  /\ clock \in 0..LastTick
  /\ events \in Seq(EventRow)
  /\ raised \in [Triggers -> Nat]
  /\ signal \in Signals \union {"none"} /\ lastSignal \in Signals \union {"none"}
  /\ quote \in -1..LastTick
  /\ tca \in [at : {"idle", "quotes", "follow", "note", "insert"},
              signal : Signals \union {"none"}, quote : -1..LastTick]

EventsOf(g) == {n \in DOMAIN events : events[n].trigger = g}

(* A change of the signal gives one event at most, whatever the worker was *)
(* stopped between: the sample is not inflated by restarts                 *)
(* (tca_engine.observe).  And no mark is taken before its time nor before  *)
(* an earlier one, though the times of quotes go back: an event with the   *)
(* last mark has them all (the status COMPLETE).                           *)
SamplesAreGenuine ==
  /\ \A g \in Triggers : Cardinality(EventsOf(g)) <= raised[g]
  /\ \A n \in DOMAIN events : \A i \in DOMAIN Marks :
       LET e == events[n]
       IN  e.marks[i] # -1 => /\ e.marks[i] >= e.ts + Marks[i]
                              /\ \A j \in 1..i : e.marks[j] # -1 /\ e.marks[j] <= e.marks[i]
=============================================================================
