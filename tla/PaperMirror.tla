------------------------------ MODULE PaperMirror ------------------------------
(***************************************************************************)
(* The mirror of a horizon sleeve's trades to the broker's paper account   *)
(* (src/src/paper_mirror.py, the sleeve's rows from horizon_db.py).  A     *)
(* dashboard session in run_once goes over the rows it has read and, for   *)
(* each that has no event, reserves one, sends a request and writes what   *)
(* came of it.  Sessions run side by side, die anywhere, and a request may *)
(* be executed though its answer is lost.  A symbol has one slot; the slot *)
(* of another sleeve of the symbol is refused as long as its row exists.   *)
(*                                                                         *)
(* Trade t of a sleeve is a BUY if t is odd, and a SELL if it is even.     *)
(***************************************************************************)
EXTENDS Integers, Sequences

CONSTANTS
  Sessions,
  MaxTrades,    \* bound: trades of the sleeve
  MaxLost       \* bound: answers lost, requests refused, sessions that die

MirrorAssumption == MaxTrades \in Nat /\ MaxLost \in Nat
ASSUME MirrorAssumption

VARIABLES
  traded,       \* rows of horizon_trades of the sleeve
  slot,         \* mirror_slots
  event,        \* mirror_events: the status of a trade's row, or "none"
  session,      \* where it is, the rows it has read, the one it is at
  requests,     \* history: how often a trade was sent
  paper,        \* what the paper account holds of the symbol, in orders
  lost

mirrorVars == <<traded, slot, event, session, requests, paper, lost>>

Trades == 1..MaxTrades
Action(t) == IF t % 2 = 1 THEN "BUY" ELSE "SELL"

Away == [at |-> "idle", rows |-> <<>>, answer |-> "none"]

MirrorInit ==
  /\ traded = 0
  /\ slot = "none"
  /\ event = [t \in Trades |-> "none"]
  /\ session = [x \in Sessions |-> Away]
  /\ requests = [t \in Trades |-> 0]
  /\ paper = 0
  /\ lost = 0

-----------------------------------------------------------------------------
(* HorizonManager.run_once books a trade *)
SleeveTrades ==
  /\ traded < MaxTrades
  /\ traded' = traded + 1
  /\ UNCHANGED <<slot, event, session, requests, paper, lost>>

(* of a sleeve that has one already: only the notional changes *)
AddSlot ==
  /\ slot' = "enabled"
  /\ UNCHANGED <<traded, event, session, requests, paper, lost>>

DisableSlot ==
  /\ slot = "enabled"
  /\ slot' = "disabled"
  /\ UNCHANGED <<traded, event, session, requests, paper, lost>>

-----------------------------------------------------------------------------
(* run_once *)

Step(x, rec) == session' = [session EXCEPT ![x] = rec]
Skip(x) == Step(x, [at |-> "look", rows |-> Tail(session[x].rows), answer |-> "none"])
Current(x) == Head(session[x].rows)

(* slots(enabled_only), then the trades in the order of their bars *)
StartMirror(x) ==
  /\ session[x].at = "idle" /\ slot = "enabled"
  /\ Step(x, [at |-> "look", rows |-> [t \in 1..traded |-> t], answer |-> "none"])
  /\ UNCHANGED <<traded, slot, event, requests, paper, lost>>

FindEvent(x) ==
  /\ session[x].at = "look" /\ session[x].rows # <<>>
  /\ IF event[Current(x)] # "none" THEN Skip(x)
     ELSE Step(x, [session[x] EXCEPT !.at = "reserve"])
  /\ UNCHANGED <<traded, slot, event, requests, paper, lost>>

(* mutant: the row is written over and sent by both *)
ReserveAnyway(x) ==
  /\ session[x].at = "reserve"
  /\ event' = [event EXCEPT ![Current(x)] = "PENDING"]
  /\ Step(x, [session[x] EXCEPT !.at = "send"])
  /\ UNCHANGED <<traded, slot, requests, paper, lost>>

(* INSERT OR IGNORE: whoever wrote the row sends *)
ReserveEvent(x) ==
  /\ session[x].at = "reserve"
  /\ IF event[Current(x)] = "none"
     THEN /\ event' = [event EXCEPT ![Current(x)] = "PENDING"]
          /\ Step(x, [session[x] EXCEPT !.at = "send"])
     ELSE /\ Skip(x)
          /\ UNCHANGED event
  /\ UNCHANGED <<traded, slot, requests, paper, lost>>

(* The broker executes a request; SELL closes all there is *)
Execute(t) ==
  /\ requests' = [requests EXCEPT ![t] = @ + 1]
  /\ paper' = IF Action(t) = "BUY" THEN paper + 1 ELSE 0

Answered(t) == IF Action(t) = "SELL" /\ paper = 0 THEN "SKIPPED_NO_POSITION" ELSE "SUBMITTED"

SendRequest(x) ==
  /\ session[x].at = "send"
  /\ Execute(Current(x))
  /\ Step(x, [session[x] EXCEPT !.at = "finish", !.answer = Answered(Current(x))])
  /\ UNCHANGED <<traded, slot, event, lost>>

(* a timeout after the request was executed, or an error before *)
RequestFails(x, executed) ==
  /\ session[x].at = "send"
  /\ lost < MaxLost /\ lost' = lost + 1
  /\ IF executed THEN Execute(Current(x)) ELSE UNCHANGED <<requests, paper>>
  /\ Step(x, [session[x] EXCEPT !.at = "finish", !.answer = "ERROR"])
  /\ UNCHANGED <<traded, slot, event>>

FinishEvent(x) ==
  /\ session[x].at = "finish"
  /\ event' = [event EXCEPT ![Current(x)] = session[x].answer]
  /\ Skip(x)
  /\ UNCHANGED <<traded, slot, requests, paper, lost>>

EndMirror(x) ==
  /\ session[x].at = "look" /\ session[x].rows = <<>>
  /\ Step(x, Away)
  /\ UNCHANGED <<traded, slot, event, requests, paper, lost>>

SessionDies(x) ==
  /\ session[x].at # "idle"
  /\ lost < MaxLost /\ lost' = lost + 1
  /\ Step(x, Away)
  /\ UNCHANGED <<traded, slot, event, requests, paper>>

MirrorNext ==
  \/ SleeveTrades
  \/ AddSlot
  \/ DisableSlot
  \/ \E x \in Sessions : StartMirror(x)
  \/ \E x \in Sessions : FindEvent(x)
  \/ \E x \in Sessions : ReserveEvent(x)
  \/ \E x \in Sessions : SendRequest(x)
  \/ \E x \in Sessions, executed \in BOOLEAN : RequestFails(x, executed)
  \/ \E x \in Sessions : FinishEvent(x)
  \/ \E x \in Sessions : EndMirror(x)
  \/ \E x \in Sessions : SessionDies(x)

MirrorSpec == MirrorInit /\ [][MirrorNext]_mirrorVars

-----------------------------------------------------------------------------
MirrorTypeOK ==
  /\ traded \in 0..MaxTrades
  /\ slot \in {"none", "enabled", "disabled"}
  /\ event \in [Trades -> {"none", "PENDING", "SUBMITTED", "SKIPPED_NO_POSITION", "ERROR"}]
  /\ session \in [Sessions -> [at : {"idle", "look", "reserve", "send", "finish"}, rows : Seq(Trades),
                               answer : {"none", "SUBMITTED", "SKIPPED_NO_POSITION", "ERROR"}]]
  /\ requests \in [Trades -> Nat] /\ paper \in Nat /\ lost \in 0..MaxLost

(* A trade reaches the broker once at most, from however many sessions,    *)
(* slots enabled again, answers lost and sessions that died, and an event  *)
(* says SUBMITTED or SKIPPED of a trade only if the broker was asked       *)
(* (AlpacaPaperMirror.run_once, "avoids accidental duplicate paper         *)
(* orders after network timeouts").                                        *)
OneRequestPerTrade ==
  \A t \in Trades :
    /\ requests[t] <= 1
    /\ event[t] \in {"SUBMITTED", "SKIPPED_NO_POSITION"} => requests[t] = 1
    /\ event[t] = "none" => requests[t] = 0
=============================================================================
