---------------------------- MODULE PaperAccount ----------------------------
(***************************************************************************)
(* What the shared paper account promises, with no process, no bar and no  *)
(* copy of the tables in sight: a symbol has at most one working order; a  *)
(* BUY that fills opens a lot and pays for it in the same step; an open    *)
(* lot is closed once, and its proceeds are credited in the same step.     *)
(***************************************************************************)
EXTENDS Naturals, Sequences, FiniteSets

CONSTANTS Symbols, Ids   \* a lot is named by the order that opened it

VARIABLES
  working,    \* symbol -> its working order, NoOrder if none
  open,       \* symbol -> the lot it holds, 0 if none
  realized,   \* the lots closed, in order
  debited,    \* the lots the cash figure was debited for
  credited    \* the lots the cash figure was credited for

vars == <<working, open, realized, debited, credited>>

NoOrder == [side |-> "NONE", id |-> 0]
Working == [side : {"BUY", "SELL"}, id : Ids]

Init ==
  /\ working = [s \in Symbols |-> NoOrder]
  /\ open = [s \in Symbols |-> 0]
  /\ realized = <<>>
  /\ debited = {} /\ credited = {}

Free(s) == [working EXCEPT ![s] = NoOrder]

(* a fresh BUY without a lot, or a fresh SELL of the lot held *)
Work(s) ==
  /\ working[s] = NoOrder
  /\ \E w \in Working :
       /\ w.id \notin debited /\ \A t \in Symbols : working[t].id # w.id
       /\ (w.side = "SELL") <=> (open[s] # 0)
       /\ working' = [working EXCEPT ![s] = w]
  /\ UNCHANGED <<open, realized, debited, credited>>

Drop(s) ==
  /\ working[s] # NoOrder
  /\ working' = Free(s)
  /\ UNCHANGED <<open, realized, debited, credited>>

Enter(s) ==
  /\ working[s].side = "BUY" /\ open[s] = 0
  /\ open' = [open EXCEPT ![s] = working[s].id]
  /\ debited' = debited \cup {working[s].id}
  /\ working' = Free(s)
  /\ UNCHANGED <<realized, credited>>

(* by the working SELL, or by a stop, a target, a time limit or a margin   *)
(* call, which leave the working order alone                               *)
Exit(s) ==
  /\ open[s] # 0
  /\ open' = [open EXCEPT ![s] = 0]
  /\ realized' = Append(realized, open[s])
  /\ credited' = credited \cup {open[s]}
  /\ \/ UNCHANGED working
     \/ working[s].side = "SELL" /\ working' = Free(s)
  /\ UNCHANGED debited

Next == \E s \in Symbols : Work(s) \/ Drop(s) \/ Enter(s) \/ Exit(s)

Spec == Init /\ [][Next]_vars
=============================================================================
