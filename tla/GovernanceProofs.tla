-------------------------- MODULE GovernanceProofs --------------------------
(***************************************************************************)
(* Proofs about Governance, for every number of pairs, signatures, arenas  *)
(* and cuts, and every value of the time constants.                        *)
(***************************************************************************)
EXTENDS Governance, TLAPS

(* The strengthening.  WorkerKnows says what the program counter implies of *)
(* the locals, which calibrate_due and process_active rely on between two  *)
(* transactions; ResearchNoted is why a cut after the research is noted    *)
(* can delay a challenge and never double it.                              *)
Calibrating == worker.at \in {"initial", "register", "insert", "refresh"}

WorkerKnows ==
  /\ worker.todo \subseteq DOMAIN arenas
  /\ worker.at \in {"promote", "mark"} => worker.arena \in DOMAIN arenas
  /\ Calibrating => worker.pair \in Pairs
  /\ worker.at \in {"register", "insert", "refresh"} =>
       worker.candidate \in Signatures /\ model[worker.pair] \in Signatures

NoneActiveAtInsert == At("insert") => ActiveArenas(worker.pair) = {}

TimesOrdered ==
  /\ worker.start <= now
  /\ \A a \in DOMAIN arenas :
       /\ arenas[a].registered <= now
       /\ ~At("idle") => arenas[a].registered <= worker.start

ResearchNoted ==
  \A a \in DOMAIN arenas : arenas[a].registered <= research[arenas[a].pair]

DueAtRegister ==
  worker.at \in {"register", "insert"} /\ worker.kind = "scheduled" =>
    \A a \in ArenasOf(worker.pair) : worker.start - arenas[a].registered >= Recalibrate

MarkedAtInsert == At("insert") => research[worker.pair] = worker.start

TypeInv == TypeOK /\ WorkerKnows
ArenaInv == TypeInv /\ OneActiveArena /\ NoneActiveAtInsert
SpacingInv ==
  /\ TypeInv /\ TimesOrdered /\ ResearchNoted
  /\ DueAtRegister /\ MarkedAtInsert /\ ChallengersSpaced

LEMMA PositionsFollow ==
  /\ 1 \in Positions
  /\ \A p \in Pairs : p \in Positions /\ p + 1 \in Positions
BY GovernanceAssumption DEF GovernanceAssumption, Positions, Pairs

LEMMA NextPairTyped ==
  ASSUME worker \in WorkerState, worker.pair \in Pairs
  PROVE  /\ NextPair \in WorkerState
         /\ NextPair.at = "pair" /\ NextPair.todo = worker.todo /\ NextPair.start = worker.start
<1>1. worker.pair + 1 \in Positions
  BY PositionsFollow
<1>2. NextPair \in WorkerState
  BY <1>1 DEF NextPair, WorkerState
<1>3. NextPair.at = "pair" /\ NextPair.todo = worker.todo /\ NextPair.start = worker.start
  BY DEF NextPair, WorkerState
<1> QED
  BY <1>2, <1>3

LEMMA AttemptedTyped ==
  ASSUME worker \in WorkerState, worker.pair \in Pairs
  PROVE  LET next == [NextPair EXCEPT !.attempts = @ + 1] IN
         /\ next \in WorkerState
         /\ next.at = "pair" /\ next.todo = worker.todo /\ next.start = worker.start
<1>1. NextPair \in WorkerState
  BY NextPairTyped
<1> QED
  BY <1>1, NextPairTyped DEF WorkerState

LEMMA AttemptCounted ==
  ASSUME worker \in WorkerState, NEW c \in Signatures
  PROVE  LET next == [worker EXCEPT !.at = "register", !.attempts = @ + 1, !.candidate = c] IN
         /\ next \in WorkerState /\ next.at = "register" /\ next.candidate = c
         /\ next.kind = worker.kind /\ next.start = worker.start
         /\ next.todo = worker.todo /\ next.pair = worker.pair
<1>1. worker.attempts + 1 \in Nat
  BY DEF WorkerState
<1> QED
  BY <1>1 DEF WorkerState

LEMMA IdleTyped == Idle \in WorkerState
BY PositionsFollow DEF Idle, WorkerState, Kinds

(* Rows of arenas: one is added, one gets another status. *)
LEMMA ArenaInserted ==
  ASSUME arenas \in Seq(ArenaRow), NEW row \in ArenaRow
  PROVE  LET next == Append(arenas, row) IN
         /\ next \in Seq(ArenaRow)
         /\ DOMAIN next = DOMAIN arenas \cup {Len(arenas) + 1}
         /\ \A a \in DOMAIN arenas : next[a] = arenas[a]
         /\ next[Len(arenas) + 1] = row
         /\ \A a \in DOMAIN arenas : a \in Nat /\ a <= Len(arenas)
OBVIOUS

LEMMA ArenaClosed ==
  ASSUME arenas \in Seq(ArenaRow), NEW a \in DOMAIN arenas, NEW status \in {"PROMOTED", "REJECTED"}
  PROVE  LET next == [arenas EXCEPT ![a].status = status] IN
         /\ next \in Seq(ArenaRow)
         /\ DOMAIN next = DOMAIN arenas
         /\ next[a].status = status
         /\ \A b \in DOMAIN arenas :
              /\ b # a => next[b] = arenas[b]
              /\ next[b].pair = arenas[b].pair
              /\ next[b].registered = arenas[b].registered
              /\ next[b].kind = arenas[b].kind
              /\ next[b].champion = arenas[b].champion
              /\ next[b].challenger = arenas[b].challenger
<1> DEFINE row == [arenas[a] EXCEPT !.status = status]
           next == [arenas EXCEPT ![a] = row]
<1>1. arenas[a] \in ArenaRow
  OBVIOUS
<1>2. /\ row \in ArenaRow /\ row.status = status /\ row.pair = arenas[a].pair
      /\ row.registered = arenas[a].registered /\ row.kind = arenas[a].kind
      /\ row.champion = arenas[a].champion /\ row.challenger = arenas[a].challenger
  BY <1>1 DEF ArenaRow
<1>3. [arenas EXCEPT ![a].status = status] = next
  OBVIOUS
<1> HIDE DEF row
<1>4. /\ next \in Seq(ArenaRow) /\ DOMAIN next = DOMAIN arenas /\ next[a] = row
      /\ \A b \in DOMAIN arenas : b # a => next[b] = arenas[b]
  BY <1>2
<1> QED
  BY <1>2, <1>3, <1>4

LEMMA TypeInvInit == Init => TypeInv
<1> SUFFICES ASSUME Init PROVE TypeInv
  OBVIOUS
<1>1. Idle.at = "idle" /\ Idle.todo = {}
  BY DEF Idle
<1> QED
  BY <1>1, IdleTyped DEF Init, TypeInv, TypeOK, WorkerKnows, Calibrating, Never

LEMMA TypeInvStep == TypeInv /\ [Next]_vars => TypeInv'
<1> SUFFICES ASSUME TypeInv, [Next]_vars PROVE TypeInv'
  OBVIOUS
<1> USE GovernanceAssumption
    DEF GovernanceAssumption, TypeInv, TypeOK, WorkerKnows, At, Calibrating
<1>1. ASSUME NEW k \in Kinds, StartCycle(k) PROVE TypeInv'
  <2> USE <1>1 DEF StartCycle, OnlyWorker
  <2>1. worker' \in WorkerState /\ worker'.at \in {"pair"} /\ worker'.todo \subseteq DOMAIN arenas
    BY IdleTyped DEF Idle, WorkerState
  <2> QED
    BY <2>1
<1>2. ASSUME SkipPair PROVE TypeInv'
  <2>1. worker.pair \in Pairs
    BY <1>2 DEF SkipPair, Pairs, Positions, WorkerState
  <2> QED
    BY <1>2, <2>1, NextPairTyped DEF SkipPair, OnlyWorker
<1>3. ASSUME EndCalibration PROVE TypeInv'
  <2> USE <1>3 DEF EndCalibration, Goto, OnlyWorker
  <2>1. worker' \in WorkerState /\ worker'.at = "simulate" /\ worker'.todo = worker.todo
    BY DEF WorkerState
  <2> QED
    BY <2>1
<1>4. ASSUME AttemptFails PROVE TypeInv'
  <2>1. worker.pair \in Pairs
    BY <1>4 DEF AttemptFails, Attempting
  <2> QED
    BY <1>4, <2>1, AttemptedTyped DEF AttemptFails, OnlyWorker
<1>5. ASSUME NEW s \in Signatures, CalibrateInitial(s) PROVE TypeInv'
  <2> USE <1>5 DEF CalibrateInitial, SaveModel, Attempting
  <2>1. worker.pair \in Pairs
    OBVIOUS
  <2>2. /\ worker' \in WorkerState /\ worker'.at = "initial"
        /\ worker'.todo = worker.todo /\ worker'.pair = worker.pair
    <3>1. worker.attempts + 1 \in Nat
      BY DEF WorkerState
    <3> QED
      BY <3>1 DEF WorkerState
  <2> QED
    BY <2>1, <2>2
<1>6. ASSUME MarkInitial PROVE TypeInv'
  BY <1>6, NextPairTyped DEF MarkInitial, MarkResearch, WorkerState
<1>7. ASSUME NEW s \in Signatures, CalibrateCandidate(s) PROVE TypeInv'
  <2> USE <1>7 DEF CalibrateCandidate, Attempting, OnlyWorker
  <2>1. worker.pair \in Pairs /\ model[worker.pair] \in Signatures
    OBVIOUS
  <2>2. /\ worker' \in WorkerState /\ worker'.at = "register" /\ worker'.candidate = s
        /\ worker'.todo = worker.todo /\ worker'.pair = worker.pair
    BY AttemptCounted
  <2> QED
    BY <2>1, <2>2
<1>8. ASSUME RegisterChallenge PROVE TypeInv'
  <2>1. CASE ActiveArena(worker.pair)
    BY <1>8, <2>1, NextPairTyped DEF RegisterChallenge
  <2>2. CASE ~ActiveArena(worker.pair)
    <3> USE <1>8, <2>2 DEF RegisterChallenge, MarkResearch, Goto
    <3>1. /\ worker' \in WorkerState /\ worker'.at \in {"refresh", "insert"}
          /\ worker'.candidate = worker.candidate
          /\ worker'.todo = worker.todo /\ worker'.pair = worker.pair
      BY ZenonT(30) DEF WorkerState
    <3>2. worker.start \in Nat
      BY DEF WorkerState
    <3> QED
      BY <3>1, <3>2
  <2> QED
    BY <2>1, <2>2
<1>9. ASSUME InsertArena PROVE TypeInv'
  <2> DEFINE row ==
        [pair |-> worker.pair, champion |-> model[worker.pair], challenger |-> worker.candidate,
         status |-> "ACTIVE", registered |-> worker.start, kind |-> worker.kind]
  <2>1. row \in ArenaRow
    BY <1>9 DEF InsertArena, ArenaRow, WorkerState
  <2>2. worker' = NextPair /\ worker.pair \in Pairs /\ UNCHANGED <<model, updated, research, now, stops>>
    BY <1>9 DEF InsertArena
  <2>3. arenas' = Append(arenas, row)
    BY <1>9 DEF InsertArena, InsertActive
  <2> HIDE DEF row
  <2>4. arenas' \in Seq(ArenaRow) /\ DOMAIN arenas \subseteq DOMAIN arenas'
    BY <2>1, <2>3, ArenaInserted
  <2> QED
    BY <2>2, <2>4, NextPairTyped
<1>10. ASSUME RefreshModel PROVE TypeInv'
  BY <1>10, NextPairTyped DEF RefreshModel, SaveModel, WorkerState
<1>11. ASSUME StartGovernance PROVE TypeInv'
  <2> USE <1>11 DEF StartGovernance, OnlyWorker
  <2>1. DOMAIN arenas \subseteq Nat
    OBVIOUS
  <2>2. worker' \in WorkerState /\ worker'.at = "arena" /\ worker'.todo \subseteq DOMAIN arenas
    BY <2>1, IdleTyped DEF Idle, WorkerState
  <2> QED
    BY <2>2
<1>12. ASSUME NEW a \in worker.todo, ContinueArena(a) PROVE TypeInv'
  <2> USE <1>12 DEF ContinueArena, OnlyWorker
  <2>1. worker' \in WorkerState /\ worker'.at = "arena" /\ worker'.todo \subseteq worker.todo
    BY DEF WorkerState
  <2> QED
    BY <2>1
<1>13. ASSUME NEW a \in worker.todo, SavePromoted(a) PROVE TypeInv'
  <2> USE <1>13 DEF SavePromoted, SaveModel
  <2>1. /\ worker' \in WorkerState /\ worker'.at = "promote"
        /\ worker'.todo \subseteq worker.todo /\ worker'.arena = a
    BY DEF WorkerState
  <2>2. worker.start \in Nat
    BY DEF WorkerState
  <2>3. arenas[a] \in ArenaRow
    OBVIOUS
  <2>4. arenas[a].pair \in Pairs /\ arenas[a].challenger \in Signatures
    BY <2>3 DEF ArenaRow
  <2> QED
    BY <2>1, <2>2, <2>4
<1>14. ASSUME PromoteArena PROVE TypeInv'
  <2> USE <1>14 DEF PromoteArena, CloseArena, Goto
  <2>1. /\ worker' \in WorkerState /\ worker'.at = "mark"
        /\ worker'.todo = worker.todo /\ worker'.arena = worker.arena
    BY DEF WorkerState
  <2>2. arenas' \in Seq(ArenaRow) /\ DOMAIN arenas' = DOMAIN arenas
    BY ArenaClosed
  <2> QED
    BY <2>1, <2>2
<1>15. ASSUME NEW a \in worker.todo, RejectArena(a) PROVE TypeInv'
  <2> USE <1>15 DEF RejectArena, CloseArena
  <2>1. /\ worker' \in WorkerState /\ worker'.at = "mark"
        /\ worker'.todo \subseteq worker.todo /\ worker'.arena = a
    BY DEF WorkerState
  <2>2. arenas' \in Seq(ArenaRow) /\ DOMAIN arenas' = DOMAIN arenas
    BY ArenaClosed
  <2> QED
    BY <2>1, <2>2
<1>16. ASSUME MarkDecided PROVE TypeInv'
  <2> USE <1>16 DEF MarkDecided, MarkResearch, NextArena
  <2>1. worker' \in WorkerState /\ worker'.at = "arena" /\ worker'.todo = worker.todo
    BY DEF WorkerState
  <2>2. worker.start \in Nat
    BY DEF WorkerState
  <2> QED
    BY <2>1, <2>2
<1>17. ASSUME EndCycle \/ KillWorker PROVE TypeInv'
  <2>1. worker' = Idle /\ UNCHANGED <<model, updated, arenas, research, now>> /\ stops' \in Nat
    BY <1>17 DEF EndCycle, OnlyWorker, KillWorker, Stop, Kept
  <2>2. Idle.at = "idle" /\ Idle.todo = {}
    BY DEF Idle
  <2> QED
    BY <2>1, <2>2, IdleTyped
<1>18. ASSUME CatchAttempt PROVE TypeInv'
  <2>1. worker.pair \in Pairs
    BY <1>18 DEF CatchAttempt, Attempting
  <2> QED
    BY <1>18, <2>1, AttemptedTyped, SMTT(30) DEF CatchAttempt, Stop, Kept
<1>19. ASSUME CatchCalibration PROVE TypeInv'
  BY <1>19, NextPairTyped DEF CatchCalibration, Stop, Kept
<1>20. ASSUME CatchGovernance PROVE TypeInv'
  <2> USE <1>20 DEF CatchGovernance, Stop, Kept, NextArena
  <2>1. worker' \in WorkerState /\ worker'.at = "arena" /\ worker'.todo = worker.todo
    BY DEF WorkerState
  <2> QED
    BY <2>1, SMTT(30)
<1>21. ASSUME Tick PROVE TypeInv'
  BY <1>21 DEF Tick
<1>22. ASSUME UNCHANGED vars PROVE TypeInv'
  BY <1>22 DEF vars
<1> QED
  BY <1>1, <1>2, <1>3, <1>4, <1>5, <1>6, <1>7, <1>8, <1>9, <1>10, <1>11, <1>12, <1>13, <1>14,
     <1>15, <1>16, <1>17, <1>18, <1>19, <1>20, <1>21, <1>22
     DEF Next, Calibration, Decision, Cut

(* Every variable keeps its type, whatever is cut short. *)
THEOREM GovernanceTypeCorrect == Spec => []TypeOK
<1>1. Init => TypeInv
  BY TypeInvInit
<1>2. TypeInv => TypeOK
  BY DEF TypeInv
<1> QED
  BY <1>1, <1>2, TypeInvStep, PTL DEF Spec

-----------------------------------------------------------------------------
(* What a step does to arenas, research times and the clock of the worker: *)
(* most of them nothing, and those that are left are the ones the          *)
(* properties are about.                                                   *)
StartKept == worker'.start = worker.start /\ (At("idle") => worker'.at = "idle")
StartNow == worker'.start = now
StartReset == worker'.start = 0 /\ worker'.at = "idle"

Local ==
  /\ UNCHANGED <<arenas, research, now>>
  /\ worker'.at \notin {"register", "insert"}
  /\ StartKept \/ StartNow \/ StartReset

Noting ==
  /\ MarkInitial \/ MarkDecided
  /\ UNCHANGED <<arenas, now>> /\ StartKept
  /\ worker'.at \notin {"register", "insert"}
  /\ \E p \in Pairs : research' = [research EXCEPT ![p] = worker.start]
  /\ ~At("idle")

Closing ==
  /\ UNCHANGED <<research, now>> /\ StartKept
  /\ worker'.at \notin {"register", "insert"}
  /\ \E a \in DOMAIN arenas, status \in {"PROMOTED", "REJECTED"} : CloseArena(a, status)

LEMMA StepEffects ==
  ASSUME TypeInv, [Next]_vars
  PROVE  \/ Local \/ Noting \/ Closing
         \/ \E s \in Signatures : CalibrateCandidate(s)
         \/ RegisterChallenge
         \/ InsertArena
         \/ Tick \/ UNCHANGED vars
<1> USE DEF TypeInv, TypeOK, WorkerKnows, At, Calibrating
<1>1. ASSUME NEW k \in Kinds, StartCycle(k) PROVE Local
  BY <1>1 DEF StartCycle, Local, StartNow, OnlyWorker, Idle
<1>2. ASSUME SkipPair PROVE Local
  <2>1. worker.pair \in Pairs
    BY <1>2 DEF SkipPair, Pairs, Positions, WorkerState
  <2> QED
    BY <1>2, <2>1, NextPairTyped DEF SkipPair, OnlyWorker, Local, StartKept
<1>3. ASSUME EndCalibration PROVE Local
  BY <1>3 DEF EndCalibration, Goto, OnlyWorker, Local, StartKept, WorkerState
<1>4. ASSUME AttemptFails PROVE Local
  <2>1. worker.pair \in Pairs
    BY <1>4, GovernanceAssumption DEF GovernanceAssumption, AttemptFails, Attempting
  <2> QED
    BY <1>4, <2>1, AttemptedTyped DEF AttemptFails, Attempting, OnlyWorker, Local, StartKept
<1>5. ASSUME NEW s \in Signatures, CalibrateInitial(s) PROVE Local
  BY <1>5 DEF CalibrateInitial, Attempting, Local, StartKept, WorkerState
<1>6. ASSUME MarkInitial PROVE Noting
  BY <1>6, NextPairTyped DEF MarkInitial, MarkResearch, Noting, StartKept
<1>10. ASSUME RefreshModel PROVE Local
  BY <1>10, NextPairTyped DEF RefreshModel, Local, StartKept
<1>11. ASSUME StartGovernance PROVE Local
  BY <1>11 DEF StartGovernance, Local, StartNow, OnlyWorker, Idle
<1>12. ASSUME NEW a \in worker.todo, ContinueArena(a) PROVE Local
  BY <1>12 DEF ContinueArena, OnlyWorker, Local, StartKept, WorkerState
<1>13. ASSUME NEW a \in worker.todo, SavePromoted(a) PROVE Local
  BY <1>13 DEF SavePromoted, Local, StartKept, WorkerState
<1>14. ASSUME PromoteArena PROVE Closing
  BY <1>14 DEF PromoteArena, Goto, Closing, StartKept, WorkerState
<1>15. ASSUME NEW a \in worker.todo, RejectArena(a) PROVE Closing
  BY <1>15 DEF RejectArena, Closing, StartKept, WorkerState
<1>16. ASSUME MarkDecided PROVE Noting
  <2>1. worker'.at = "arena" /\ worker'.start = worker.start
    BY <1>16 DEF MarkDecided, NextArena, WorkerState
  <2>2. arenas[worker.arena] \in ArenaRow
    BY <1>16 DEF MarkDecided
  <2>3. arenas[worker.arena].pair \in Pairs
    BY <2>2 DEF ArenaRow
  <2> QED
    BY <1>16, <2>1, <2>3 DEF MarkDecided, MarkResearch, Noting, StartKept
<1>17. ASSUME EndCycle \/ KillWorker PROVE Local
  BY <1>17 DEF EndCycle, OnlyWorker, KillWorker, Kept, Idle, Local, StartReset
<1>18. ASSUME CatchAttempt PROVE Local
  <2>1. worker.pair \in Pairs
    BY <1>18 DEF CatchAttempt, Attempting
  <2> QED
    BY <1>18, <2>1, AttemptedTyped DEF CatchAttempt, Kept, Local, StartKept
<1>19. ASSUME CatchCalibration PROVE Local
  BY <1>19, NextPairTyped DEF CatchCalibration, Kept, Local, StartKept
<1>20. ASSUME CatchGovernance PROVE Local
  BY <1>20 DEF CatchGovernance, Kept, NextArena, Local, StartKept, WorkerState
<1> QED
  BY <1>1, <1>2, <1>3, <1>4, <1>5, <1>6, <1>10, <1>11, <1>12, <1>13, <1>14, <1>15, <1>16,
     <1>17, <1>18, <1>19, <1>20 DEF Next, Calibration, Decision, Cut

(* The row InsertArena adds. *)
LEMMA InsertedRow ==
  ASSUME TypeInv, InsertArena
  PROVE  \E i \in Nat :
           /\ DOMAIN arenas' = DOMAIN arenas \cup {i}
           /\ \A a \in DOMAIN arenas : a < i /\ a \in Nat /\ arenas'[a] = arenas[a]
           /\ arenas'[i].pair = worker.pair
           /\ arenas'[i].registered = worker.start
           /\ arenas'[i].kind = worker.kind
           /\ arenas'[i].status = "ACTIVE"
           /\ arenas'[i].champion = model[worker.pair]
           /\ arenas'[i].challenger = worker.candidate
<1> DEFINE row ==
      [pair |-> worker.pair, champion |-> model[worker.pair], challenger |-> worker.candidate,
       status |-> "ACTIVE", registered |-> worker.start, kind |-> worker.kind]
<1>1. row \in ArenaRow
  BY DEF InsertArena, ArenaRow, WorkerState, TypeInv, TypeOK, WorkerKnows, Calibrating, At
<1>2. arenas' = Append(arenas, row) /\ arenas \in Seq(ArenaRow)
  BY DEF InsertArena, InsertActive, TypeInv, TypeOK
<1>3. /\ row.pair = worker.pair /\ row.registered = worker.start /\ row.kind = worker.kind
      /\ row.status = "ACTIVE" /\ row.champion = model[worker.pair]
      /\ row.challenger = worker.candidate
  OBVIOUS
<1> HIDE DEF row
<1>4. Len(arenas) + 1 \in Nat
  BY <1>2
<1> QED
  BY <1>1, <1>2, <1>3, <1>4, ArenaInserted

-----------------------------------------------------------------------------
LEMMA ArenaInvStep == ArenaInv /\ [Next]_vars => ArenaInv'
<1> SUFFICES ASSUME ArenaInv, [Next]_vars PROVE ArenaInv'
  OBVIOUS
<1> USE DEF ArenaInv, OneActiveArena, NoneActiveAtInsert, ActiveArenas, At
<1>1. TypeInv'
  BY TypeInvStep
<1>2. CASE Local \/ Noting
  BY <1>1, <1>2 DEF Local, Noting
<1>3. CASE Closing
  <2>1. PICK a \in DOMAIN arenas, status \in {"PROMOTED", "REJECTED"} : CloseArena(a, status)
    BY <1>3 DEF Closing
  <2>2. \A p \in Pairs : ActiveArenas(p)' \subseteq ActiveArenas(p)
    BY <2>1, ArenaClosed DEF CloseArena, TypeInv, TypeOK
  <2>3. worker'.at # "insert"
    BY <1>3 DEF Closing
  <2> QED
    BY <1>1, <2>2, <2>3
<1>4. ASSUME NEW s \in Signatures, CalibrateCandidate(s) PROVE ArenaInv'
  <2>1. worker'.at = "register" /\ arenas' = arenas
    BY <1>4, AttemptCounted DEF CalibrateCandidate, OnlyWorker, TypeInv, TypeOK
  <2> QED
    BY <1>1, <2>1
<1>5. CASE RegisterChallenge
  <2>1. CASE ActiveArena(worker.pair)
    BY <1>1, <1>5, <2>1, NextPairTyped
       DEF RegisterChallenge, TypeInv, TypeOK, WorkerKnows, Calibrating
  <2>2. CASE ~ActiveArena(worker.pair)
    <3>1. worker'.pair = worker.pair /\ arenas' = arenas
      BY <1>5, <2>2 DEF RegisterChallenge, Goto, TypeInv, TypeOK, WorkerState
    <3> QED
      BY <1>1, <2>2, <3>1 DEF ActiveArena
  <2> QED
    BY <2>1, <2>2
<1>6. CASE InsertArena
  <2>1. PICK i \in Nat :
          /\ DOMAIN arenas' = DOMAIN arenas \cup {i}
          /\ \A a \in DOMAIN arenas : arenas'[a] = arenas[a]
          /\ arenas'[i].pair = worker.pair
    BY <1>6, InsertedRow
  <2>2. worker'.at = "pair"
    BY <1>6, NextPairTyped DEF InsertArena, TypeInv, TypeOK, WorkerKnows, Calibrating
  <2> QED
    BY <1>1, <1>6, <2>1, <2>2 DEF InsertArena
<1>7. CASE Tick \/ UNCHANGED vars
  BY <1>1, <1>7 DEF Tick, vars
<1> QED
  BY <1>2, <1>3, <1>4, <1>5, <1>6, <1>7, StepEffects

(* A pair never has two active arenas, for any number of pairs and cuts.   *)
THEOREM OneArenaPerPair == Spec => []OneActiveArena
<1>1. Init => ArenaInv
  <2> SUFFICES ASSUME Init PROVE ArenaInv
    OBVIOUS
  <2>1. TypeInv
    BY TypeInvInit
  <2>2. Idle.at = "idle" /\ DOMAIN arenas = {}
    BY DEF Init, Idle
  <2> QED
    BY <2>1, <2>2 DEF Init, ArenaInv, OneActiveArena, NoneActiveAtInsert, ActiveArenas, At
<1>2. ArenaInv => OneActiveArena
  BY DEF ArenaInv
<1> QED
  BY <1>1, <1>2, ArenaInvStep, PTL DEF Spec

-----------------------------------------------------------------------------
(* What a candidate that is due says of the pair's arenas: the research    *)
(* time it was due by is not before any of them was registered.            *)
LEMMA DueIsSpaced ==
  ASSUME SpacingInv, NEW s \in Signatures, CalibrateCandidate(s),
         worker.kind = "scheduled", NEW a \in ArenasOf(worker.pair)
  PROVE  worker.start - arenas[a].registered >= Recalibrate
<1> USE DEF SpacingInv, TypeInv, TypeOK
<1>1. worker.pair \in Pairs /\ model[worker.pair] # NoModel /\ Due(worker.pair)
  BY DEF CalibrateCandidate, Attempting, Skipped
<1>2. arenas[a] \in ArenaRow /\ arenas[a].pair = worker.pair
  BY DEF ArenasOf
<1>3. arenas[a].registered \in Nat
  BY <1>2 DEF ArenaRow
<1>4. /\ research[worker.pair] \in Nat \cup {-1}
      /\ arenas[a].registered <= research[worker.pair]
  BY <1>1, <1>2 DEF ResearchNoted, ArenasOf, Never
<1>5. research[worker.pair] # Never
  BY <1>3, <1>4 DEF Never
<1>6. worker.start - research[worker.pair] >= Recalibrate
  BY <1>1, <1>5 DEF Due
<1>7. worker.start \in Nat /\ Recalibrate \in Nat
  BY GovernanceAssumption DEF GovernanceAssumption, WorkerState
<1> QED
  BY <1>3, <1>4, <1>5, <1>6, <1>7 DEF Never

LEMMA SpacingInvStep == SpacingInv /\ [Next]_vars => SpacingInv'
<1> SUFFICES ASSUME SpacingInv, [Next]_vars PROVE SpacingInv'
  OBVIOUS
<1>1. TypeInv /\ TypeInv'
  BY TypeInvStep DEF SpacingInv
<1>2. /\ worker.start \in Nat /\ now \in Nat /\ worker.start <= now
      /\ \A a \in DOMAIN arenas : arenas[a].registered \in Nat
  <2>1. \A a \in DOMAIN arenas : arenas[a] \in ArenaRow
    BY <1>1 DEF TypeInv, TypeOK
  <2> QED
    BY <1>1, <2>1 DEF TypeInv, TypeOK, WorkerState, ArenaRow, SpacingInv, TimesOrdered
<1> USE DEF SpacingInv, ResearchNoted, DueAtRegister, MarkedAtInsert, ChallengersSpaced, ArenasOf, At
<1>3. CASE Local
  <2>1. TimesOrdered'
    BY <1>2, <1>3 DEF Local, StartKept, StartNow, StartReset, TimesOrdered
  <2> QED
    BY <1>1, <1>3, <2>1 DEF Local
<1>4. CASE Noting
  <2>1. TimesOrdered'
    BY <1>4 DEF Noting, StartKept, TimesOrdered
  <2>2. PICK p \in Pairs : research' = [research EXCEPT ![p] = worker.start]
    BY <1>4 DEF Noting
  <2>3. ResearchNoted'
    BY <1>1, <1>2, <1>4, <2>2 DEF Noting, TimesOrdered, TypeInv, TypeOK
  <2> QED
    BY <1>1, <1>4, <2>1, <2>3 DEF Noting
<1>5. CASE Closing
  <2>1. PICK a \in DOMAIN arenas, status \in {"PROMOTED", "REJECTED"} : CloseArena(a, status)
    BY <1>5 DEF Closing
  <2>2. /\ DOMAIN arenas' = DOMAIN arenas
        /\ \A b \in DOMAIN arenas :
             /\ arenas'[b].pair = arenas[b].pair
             /\ arenas'[b].registered = arenas[b].registered
             /\ arenas'[b].kind = arenas[b].kind
    BY <1>1, <2>1, ArenaClosed DEF CloseArena, TypeInv, TypeOK
  <2>3. TimesOrdered'
    BY <1>5, <2>2 DEF Closing, StartKept, TimesOrdered
  <2>4. ChallengersSpaced'
    BY <2>2
  <2> QED
    BY <1>1, <1>5, <2>2, <2>3, <2>4 DEF Closing
<1>6. ASSUME NEW s \in Signatures, CalibrateCandidate(s) PROVE SpacingInv'
  <2>1. /\ worker'.at = "register" /\ worker'.kind = worker.kind
        /\ worker'.start = worker.start /\ worker'.pair = worker.pair
        /\ UNCHANGED <<arenas, research, now>>
    BY <1>1, <1>6, AttemptCounted DEF CalibrateCandidate, OnlyWorker, TypeInv, TypeOK
  <2>2. TimesOrdered'
    BY <1>6, <2>1 DEF TimesOrdered, CalibrateCandidate, Attempting
  <2>3. DueAtRegister'
    BY <1>6, <2>1, DueIsSpaced
  <2> QED
    BY <1>1, <2>1, <2>2, <2>3
<1>7. CASE RegisterChallenge
  <2>1. CASE ActiveArena(worker.pair)
    <3>1. /\ worker'.at = "pair" /\ worker'.start = worker.start
          /\ UNCHANGED <<arenas, research, now>>
      BY <1>1, <1>7, <2>1, NextPairTyped
         DEF RegisterChallenge, TypeInv, TypeOK, WorkerKnows, Calibrating
    <3>2. TimesOrdered'
      BY <1>7, <3>1 DEF TimesOrdered, RegisterChallenge
    <3> QED
      BY <1>1, <3>1, <3>2
  <2>2. CASE ~ActiveArena(worker.pair)
    <3>1. /\ worker'.at \in {"refresh", "insert"} /\ worker'.kind = worker.kind
          /\ worker'.start = worker.start /\ worker'.pair = worker.pair
          /\ worker.pair \in Pairs
          /\ research' = [research EXCEPT ![worker.pair] = worker.start]
          /\ UNCHANGED <<arenas, now>>
      BY <1>1, <1>7, <2>2
         DEF RegisterChallenge, MarkResearch, Goto, TypeInv, TypeOK, WorkerState, WorkerKnows, Calibrating
    <3>2. TimesOrdered'
      BY <1>7, <3>1 DEF TimesOrdered, RegisterChallenge
    <3>3. ResearchNoted' /\ MarkedAtInsert'
      BY <1>1, <1>2, <1>7, <3>1 DEF TimesOrdered, RegisterChallenge, TypeInv, TypeOK
    <3>4. DueAtRegister'
      BY <1>7, <3>1 DEF RegisterChallenge
    <3> QED
      BY <1>1, <3>1, <3>2, <3>3, <3>4
  <2> QED
    BY <2>1, <2>2
<1>8. CASE InsertArena
  <2>1. PICK i \in Nat :
          /\ DOMAIN arenas' = DOMAIN arenas \cup {i}
          /\ \A a \in DOMAIN arenas : a < i /\ a \in Nat /\ arenas'[a] = arenas[a]
          /\ arenas'[i].pair = worker.pair
          /\ arenas'[i].registered = worker.start
          /\ arenas'[i].kind = worker.kind
    BY <1>1, <1>8, InsertedRow
  <2>2. /\ worker'.at = "pair" /\ worker'.start = worker.start /\ UNCHANGED <<research, now>>
    BY <1>1, <1>8, NextPairTyped DEF InsertArena, TypeInv, TypeOK, WorkerKnows, Calibrating
  <2>3. TimesOrdered'
    BY <1>2, <1>8, <2>1, <2>2 DEF TimesOrdered, InsertArena
  <2>4. ResearchNoted'
    BY <1>2, <1>8, <2>1, <2>2 DEF InsertArena
  <2>5. ChallengersSpaced'
    <3> SUFFICES ASSUME NEW b \in DOMAIN arenas', NEW a \in ArenasOf(arenas[b].pair)',
                        a < b, arenas'[b].kind = "scheduled"
                 PROVE  arenas'[b].registered - arenas'[a].registered >= Recalibrate
      OBVIOUS
    <3>1. CASE b = i
      BY <1>8, <2>1, <3>1 DEF InsertArena
    <3>2. CASE b # i
      BY <2>1, <3>2
    <3> QED
      BY <3>1, <3>2
  <2> QED
    BY <1>1, <2>2, <2>3, <2>4, <2>5
<1>9. CASE Tick \/ UNCHANGED vars
  <2>1. TimesOrdered'
    BY <1>2, <1>9 DEF Tick, vars, TimesOrdered
  <2> QED
    BY <1>1, <1>9, <2>1 DEF Tick, vars
<1> QED
  BY <1>1, <1>3, <1>4, <1>5, <1>6, <1>7, <1>8, <1>9, StepEffects

(* Scheduled challenges of a pair are Recalibrate apart, whatever is cut   *)
(* short between them.                                                     *)
THEOREM ChallengesAreSpaced == Spec => []ChallengersSpaced
<1>1. Init => SpacingInv
  <2> SUFFICES ASSUME Init PROVE SpacingInv
    OBVIOUS
  <2>1. TypeInv
    BY TypeInvInit
  <2>2. Idle.at = "idle" /\ Idle.start = 0 /\ DOMAIN arenas = {}
    BY DEF Init, Idle
  <2> QED
    BY <2>1, <2>2 DEF Init, SpacingInv, TimesOrdered, ResearchNoted, DueAtRegister, MarkedAtInsert,
       ChallengersSpaced, At
<1>2. SpacingInv => ChallengersSpaced
  BY DEF SpacingInv
<1> QED
  BY <1>1, <1>2, SpacingInvStep, PTL DEF Spec

-----------------------------------------------------------------------------
(* The chain of champions.  An arena that is active is the pair's last, so *)
(* that the model a decision saves is judged against that arena's row; and *)
(* until a step is cut, the champion of an active arena is in production   *)
(* except between the two transactions of a promotion.                     *)

ActiveIsLast == \A a \in DOMAIN arenas : arenas[a].status = "ACTIVE" => NextOf(a) = {}

TodoIsOpen == \A a \in worker.todo : arenas[a].status = "ACTIVE"

Promoted ==
  At("promote") =>
    /\ arenas[worker.arena].status = "ACTIVE" /\ worker.arena \notin worker.todo
    /\ model[arenas[worker.arena].pair] = arenas[worker.arena].challenger

ChampionInUse ==
  stops = 0 =>
    \A a \in DOMAIN arenas :
      arenas[a].status = "ACTIVE" /\ ~(At("promote") /\ worker.arena = a) =>
        model[arenas[a].pair] = arenas[a].champion

RefreshesTheSame == At("refresh") => worker.candidate = model[worker.pair]

ChainInv ==
  /\ ArenaInv /\ ActiveIsLast /\ TodoIsOpen /\ Promoted /\ ChampionInUse /\ RefreshesTheSame
  /\ ChampionChain

(* What most steps do: nothing to models and arenas. *)
Elsewhere == worker'.at \notin {"promote", "refresh"} /\ worker'.todo \subseteq worker.todo
Passing == ~At("promote") /\ UNCHANGED <<model, arenas, stops>> /\ Elsewhere
Cutting == UNCHANGED <<model, arenas>> /\ stops' = stops + 1 /\ Elsewhere

LEMMA ChainEffects ==
  ASSUME TypeInv, [Next]_vars
  PROVE  \/ Passing \/ Cutting
         \/ \E s \in Signatures : CalibrateInitial(s)
         \/ RegisterChallenge \/ InsertArena \/ RefreshModel
         \/ StartGovernance \/ PromoteArena
         \/ \E a \in worker.todo : SavePromoted(a) \/ RejectArena(a)
         \/ Tick \/ UNCHANGED vars
<1> USE DEF TypeInv, TypeOK, WorkerKnows, At, Calibrating
<1>1. ASSUME NEW k \in Kinds, StartCycle(k) PROVE Passing
  BY <1>1 DEF StartCycle, Passing, Elsewhere, OnlyWorker, Idle
<1>2. ASSUME SkipPair PROVE Passing
  <2>1. worker.pair \in Pairs
    BY <1>2 DEF SkipPair, Pairs, Positions, WorkerState
  <2> QED
    BY <1>2, <2>1, NextPairTyped DEF SkipPair, OnlyWorker, Passing, Elsewhere
<1>3. ASSUME EndCalibration PROVE Passing
  BY <1>3 DEF EndCalibration, Goto, OnlyWorker, Passing, Elsewhere, WorkerState
<1>4. ASSUME AttemptFails PROVE Passing
  <2>1. worker.pair \in Pairs
    BY <1>4, GovernanceAssumption DEF GovernanceAssumption, AttemptFails, Attempting
  <2> QED
    BY <1>4, <2>1, AttemptedTyped DEF AttemptFails, Attempting, OnlyWorker, Passing, Elsewhere
<1>5. ASSUME MarkInitial PROVE Passing
  BY <1>5, NextPairTyped DEF MarkInitial, Passing, Elsewhere
<1>6. ASSUME NEW s \in Signatures, CalibrateCandidate(s) PROVE Passing
  <2>1. worker'.at = "register" /\ worker'.todo = worker.todo
    BY <1>6, AttemptCounted DEF CalibrateCandidate
  <2> QED
    BY <1>6, <2>1 DEF CalibrateCandidate, Attempting, OnlyWorker, Passing, Elsewhere
<1>7. ASSUME NEW a \in worker.todo, ContinueArena(a) PROVE Passing
  BY <1>7 DEF ContinueArena, OnlyWorker, Passing, Elsewhere, WorkerState
<1>8. ASSUME MarkDecided PROVE Passing
  <2>1. worker'.at = "arena" /\ worker'.todo = worker.todo
    BY <1>8 DEF MarkDecided, NextArena, WorkerState
  <2> QED
    BY <1>8, <2>1 DEF MarkDecided, Passing, Elsewhere
<1>9. ASSUME EndCycle PROVE Passing
  BY <1>9 DEF EndCycle, OnlyWorker, Idle, Passing, Elsewhere
<1>10. ASSUME KillWorker PROVE Cutting
  BY <1>10 DEF KillWorker, Kept, Stop, Idle, Cutting, Elsewhere
<1>11. ASSUME CatchAttempt PROVE Cutting
  <2>1. worker.pair \in Pairs
    BY <1>11 DEF CatchAttempt, Attempting
  <2> QED
    BY <1>11, <2>1, AttemptedTyped DEF CatchAttempt, Kept, Stop, Cutting, Elsewhere
<1>12. ASSUME CatchCalibration PROVE Cutting
  BY <1>12, NextPairTyped DEF CatchCalibration, Kept, Stop, Cutting, Elsewhere
<1>13. ASSUME CatchGovernance PROVE Cutting
  <2>1. worker'.at = "arena" /\ worker'.todo = worker.todo
    BY <1>13 DEF CatchGovernance, NextArena, WorkerState
  <2> QED
    BY <1>13, <2>1 DEF CatchGovernance, Kept, Stop, Cutting, Elsewhere
<1> QED
  BY <1>1, <1>2, <1>3, <1>4, <1>5, <1>6, <1>7, <1>8, <1>9, <1>10, <1>11, <1>12, <1>13
  DEF Next, Calibration, Decision, Cut

(* Two arenas of a pair with none after them are the same. *)
LEMMA LastIsOne ==
  ASSUME TypeInv, NEW a \in DOMAIN arenas, NEW b \in DOMAIN arenas,
         arenas[a].pair = arenas[b].pair, NextOf(a) = {}, NextOf(b) = {}
  PROVE  a = b
<1>1. a \in Nat /\ b \in Nat
  BY DEF TypeInv, TypeOK
<1>2. ~(b > a) /\ ~(a > b)
  BY DEF NextOf, ArenasOf
<1> QED
  BY <1>1, <1>2

LEMMA OutcomesAreSignatures ==
  ASSUME TypeInv, NEW a \in DOMAIN arenas
  PROVE  Outcome(a) \subseteq Signatures
<1>1. arenas[a] \in ArenaRow
  BY DEF TypeInv, TypeOK
<1> QED
  BY <1>1 DEF Outcome, ArenaRow

(* A cut only adds to what may be in production. *)
LEMMA ChainSurvivesCuts ==
  ASSUME TypeInv, ChampionChain, UNCHANGED <<model, arenas>>, stops' \in {stops, stops + 1}
  PROVE  ChampionChain'
<1>1. stops \in Nat
  BY DEF TypeInv, TypeOK
<1>2. \A a \in DOMAIN arenas : Outcome(a) \subseteq Outcome(a)'
  BY <1>1 DEF Outcome
<1>3. \A a \in DOMAIN arenas : NextOf(a)' = NextOf(a)
  BY DEF NextOf, ArenasOf
<1>4. SUFFICES ASSUME NEW a \in DOMAIN arenas
               PROVE  IF NextOf(a) = {}
                      THEN model[arenas[a].pair] \in Outcome(a)'
                      ELSE \E b \in NextOf(a) :
                             (\A c \in NextOf(a) : b <= c) /\ arenas[b].champion \in Outcome(a)'
  BY <1>3 DEF ChampionChain
<1> QED
  BY <1>2 DEF ChampionChain

(* A model is saved: that of a pair without arenas, or with its last one   *)
(* active.                                                                 *)
LEMMA ChainSurvivesModels ==
  ASSUME TypeInv, ChampionChain, UNCHANGED <<arenas, stops>>, NEW p \in Pairs, NEW s \in Signatures,
         model' = [model EXCEPT ![p] = s],
         \A a \in DOMAIN arenas : arenas[a].pair = p /\ NextOf(a) = {} => s \in Outcome(a)
  PROVE  ChampionChain'
<1>1. \A a \in DOMAIN arenas : Outcome(a)' = Outcome(a) /\ NextOf(a)' = NextOf(a)
  BY DEF Outcome, NextOf, ArenasOf
<1>2. \A a \in DOMAIN arenas :
        model'[arenas[a].pair] = IF arenas[a].pair = p THEN s ELSE model[arenas[a].pair]
  <2>1. \A a \in DOMAIN arenas : arenas[a] \in ArenaRow
    BY DEF TypeInv, TypeOK
  <2> QED
    BY <2>1 DEF TypeInv, TypeOK, ArenaRow
<1>3. ASSUME NEW a \in DOMAIN arenas
      PROVE  IF NextOf(a) = {}
             THEN model'[arenas[a].pair] \in Outcome(a)
             ELSE \E b \in NextOf(a) :
                    (\A c \in NextOf(a) : b <= c) /\ arenas[b].champion \in Outcome(a)
  BY <1>2 DEF ChampionChain
<1> QED
  BY <1>1, <1>3 DEF ChampionChain

(* An active arena is closed with its outcome in production. *)
LEMMA ChainSurvivesClosing ==
  ASSUME TypeInv, ChampionChain, ActiveIsLast, UNCHANGED <<model, stops>>,
         NEW k \in DOMAIN arenas, arenas[k].status = "ACTIVE",
         NEW status \in {"PROMOTED", "REJECTED"}, CloseArena(k, status),
         \/ status = "PROMOTED" /\ model[arenas[k].pair] = arenas[k].challenger
         \/ status = "REJECTED" /\ (stops = 0 => model[arenas[k].pair] = arenas[k].champion)
  PROVE  ChampionChain'
<1>1. /\ DOMAIN arenas' = DOMAIN arenas /\ arenas'[k].status = status
      /\ \A b \in DOMAIN arenas :
           /\ b # k => arenas'[b] = arenas[b]
           /\ arenas'[b].pair = arenas[b].pair
           /\ arenas'[b].champion = arenas[b].champion
           /\ arenas'[b].challenger = arenas[b].challenger
  <2>1. arenas \in Seq(ArenaRow)
    BY DEF TypeInv, TypeOK
  <2>2. arenas' = [arenas EXCEPT ![k].status = status]
    BY DEF CloseArena
  <2>3. arenas[k] \in ArenaRow
    BY <2>1
  <2>4. arenas'[k] = [arenas[k] EXCEPT !.status = status]
    BY <2>1, <2>2
  <2>5. arenas'[k].status = status
    BY <2>3, <2>4 DEF ArenaRow
  <2>6. DOMAIN arenas' = DOMAIN arenas
    BY <2>1, <2>2, ArenaClosed
  <2>7. \A b \in DOMAIN arenas : b # k => arenas'[b] = arenas[b]
    BY <2>1, <2>2, ArenaClosed
  <2>8. \A b \in DOMAIN arenas : arenas'[b].pair = arenas[b].pair
    BY <2>1, <2>2, ArenaClosed
  <2>9. \A b \in DOMAIN arenas : arenas'[b].champion = arenas[b].champion
    BY <2>1, <2>2, ArenaClosed
  <2>10. \A b \in DOMAIN arenas : arenas'[b].challenger = arenas[b].challenger
    BY <2>1, <2>2, ArenaClosed
  <2> QED
    BY <2>5, <2>6, <2>7, <2>8, <2>9, <2>10
<1>2. \A a \in DOMAIN arenas : NextOf(a)' = NextOf(a)
  BY <1>1 DEF NextOf, ArenasOf
<1>3. \A a \in DOMAIN arenas : a # k => Outcome(a)' = Outcome(a)
  BY <1>1 DEF Outcome
<1>4. NextOf(k) = {} /\ model[arenas[k].pair] \in Outcome(k)
  BY DEF ActiveIsLast, ChampionChain
<1>5. Outcome(k) = {arenas[k].champion, arenas[k].challenger}
  BY DEF Outcome
<1>6. model[arenas[k].pair] \in Outcome(k)'
  BY <1>1, <1>4, <1>5 DEF Outcome
<1>7. ASSUME NEW a \in DOMAIN arenas
      PROVE  IF NextOf(a) = {}
             THEN model[arenas[a].pair] \in Outcome(a)'
             ELSE \E b \in NextOf(a) :
                    (\A c \in NextOf(a) : b <= c) /\ arenas[b].champion \in Outcome(a)'
  <2>1. CASE a = k
    BY <2>1, <1>4, <1>6
  <2>2. CASE a # k
    BY <2>2, <1>3 DEF ChampionChain
  <2> QED
    BY <2>1, <2>2
<1>8. \A a \in DOMAIN arenas : NextOf(a) \subseteq DOMAIN arenas
  BY DEF NextOf, ArenasOf
<1>9. ASSUME NEW a \in DOMAIN arenas
      PROVE  IF NextOf(a)' = {}
             THEN model'[arenas'[a].pair] \in Outcome(a)'
             ELSE \E b \in NextOf(a)' :
                    (\A c \in NextOf(a)' : b <= c) /\ arenas'[b].champion \in Outcome(a)'
  BY <1>1, <1>2, <1>7, <1>8
<1> QED
  BY <1>1, <1>9 DEF ChampionChain

(* An arena is inserted with the model in production as its champion: it   *)
(* follows the pair's last arena, which left that model there.             *)
LEMMA ChainSurvivesInsert ==
  ASSUME TypeInv, ChampionChain, InsertArena
  PROVE  /\ ChampionChain'
         /\ \E i \in Nat :
              /\ DOMAIN arenas' = DOMAIN arenas \cup {i}
              /\ \A a \in DOMAIN arenas : a # i /\ arenas'[a] = arenas[a]
              /\ arenas'[i].pair = worker.pair /\ arenas'[i].champion = model[worker.pair]
              /\ NextOf(i)' = {}
              /\ \A a \in DOMAIN arenas :
                   arenas[a].pair # worker.pair => NextOf(a)' = NextOf(a)
<1>1. PICK i \in Nat :
        /\ DOMAIN arenas' = DOMAIN arenas \cup {i}
        /\ \A a \in DOMAIN arenas : a < i /\ a \in Nat /\ arenas'[a] = arenas[a]
        /\ arenas'[i].pair = worker.pair /\ arenas'[i].status = "ACTIVE"
        /\ arenas'[i].champion = model[worker.pair]
  BY InsertedRow
<1>2. UNCHANGED <<model, stops>>
  BY DEF InsertArena
<1>3. i \notin DOMAIN arenas /\ \A a \in DOMAIN arenas : ~(a > i) /\ i > a /\ a <= i
  BY <1>1
<1>4. ~(i > i) /\ i <= i
  BY <1>1
<1>5. NextOf(i)' = {}
  BY <1>1, <1>3, <1>4 DEF NextOf, ArenasOf
<1>6. \A a \in DOMAIN arenas : arenas[a].pair # worker.pair => NextOf(a)' = NextOf(a)
  BY <1>1 DEF NextOf, ArenasOf
<1>7. \A a \in DOMAIN arenas :
        arenas[a].pair = worker.pair => NextOf(a)' = NextOf(a) \cup {i}
  BY <1>1, <1>3 DEF NextOf, ArenasOf
<1>8. \A a \in DOMAIN arenas : Outcome(a)' = Outcome(a)
  BY <1>1, <1>2 DEF Outcome
<1>9. \A a \in DOMAIN arenas : NextOf(a) \subseteq DOMAIN arenas
  BY DEF NextOf, ArenasOf
<1>10. model[worker.pair] \in Outcome(i)'
  BY <1>1 DEF Outcome
<1>11. ASSUME NEW a \in DOMAIN arenas'
       PROVE  IF NextOf(a)' = {}
              THEN model'[arenas'[a].pair] \in Outcome(a)'
              ELSE \E b \in NextOf(a)' :
                     (\A c \in NextOf(a)' : b <= c) /\ arenas'[b].champion \in Outcome(a)'
  <2>1. CASE a = i
    BY <2>1, <1>1, <1>2, <1>5, <1>10
  <2>2. CASE a # i /\ arenas[a].pair # worker.pair
    <3>1. a \in DOMAIN arenas /\ NextOf(a)' = NextOf(a) /\ arenas'[a] = arenas[a]
      BY <2>2, <1>1, <1>6
    <3>2. \A b \in NextOf(a) : arenas'[b] = arenas[b]
      BY <1>1, <1>9, <3>1
    <3> QED
      BY <1>2, <1>8, <3>1, <3>2 DEF ChampionChain
  <2>3. CASE a # i /\ arenas[a].pair = worker.pair /\ NextOf(a) = {}
    <3>1. a \in DOMAIN arenas /\ NextOf(a)' = {i}
      BY <2>3, <1>1, <1>7
    <3>2. model[worker.pair] \in Outcome(a)
      BY <2>3, <3>1 DEF ChampionChain
    <3> QED
      BY <1>1, <1>4, <1>8, <3>1, <3>2
  <2>4. CASE a # i /\ arenas[a].pair = worker.pair /\ NextOf(a) # {}
    <3>1. a \in DOMAIN arenas /\ NextOf(a)' = NextOf(a) \cup {i}
      BY <2>4, <1>1, <1>7
    <3>2. PICK b \in NextOf(a) :
            (\A c \in NextOf(a) : b <= c) /\ arenas[b].champion \in Outcome(a)
      BY <2>4, <3>1 DEF ChampionChain
    <3>3. b \in DOMAIN arenas /\ b <= i /\ arenas'[b] = arenas[b]
      BY <3>1, <1>9, <1>1, <1>3
    <3> QED
      BY <1>8, <3>1, <3>2, <3>3
  <2> QED
    BY <2>1, <2>2, <2>3, <2>4
<1>12. ChampionChain'
  BY <1>11 DEF ChampionChain
<1> QED
  BY <1>1, <1>3, <1>5, <1>6, <1>12

-----------------------------------------------------------------------------
(* No arena of a pair without a model. *)
LEMMA NoModelNoLast ==
  ASSUME TypeInv, ChampionChain, NEW a \in DOMAIN arenas, NextOf(a) = {}
  PROVE  model[arenas[a].pair] # NoModel
<1>1. model[arenas[a].pair] \in Outcome(a)
  BY DEF ChampionChain
<1> QED
  BY <1>1, OutcomesAreSignatures, GovernanceAssumption DEF GovernanceAssumption

LEMMA ChainInvStep == ChainInv /\ [Next]_vars => ChainInv'
<1> SUFFICES ASSUME ChainInv, [Next]_vars PROVE ChainInv'
  OBVIOUS
<1> USE DEF ChainInv, At
<1>1. ArenaInv' /\ ArenaInv /\ TypeInv /\ TypeInv'
  BY ArenaInvStep DEF ArenaInv
<1>2. CASE Passing \/ Cutting
  <2>1. stops \in Nat /\ UNCHANGED <<model, arenas>> /\ Elsewhere
    BY <1>1, <1>2 DEF Passing, Cutting, TypeInv, TypeOK
  <2>2. ChampionChain'
    BY <1>1, <1>2, <2>1, ChainSurvivesCuts DEF Passing, Cutting
  <2>3. ActiveIsLast' /\ TodoIsOpen' /\ Promoted' /\ RefreshesTheSame'
    BY <2>1 DEF Elsewhere, ActiveIsLast, TodoIsOpen, Promoted, RefreshesTheSame, NextOf, ArenasOf
  <2>4. ChampionInUse'
    BY <1>2, <2>1 DEF Passing, Cutting, ChampionInUse, Elsewhere
  <2> QED
    BY <1>1, <2>2, <2>3, <2>4
<1>3. ASSUME NEW s \in Signatures, CalibrateInitial(s) PROVE ChainInv'
  <2>1. PICK p \in Pairs : Attempting(p) /\ model[p] = NoModel /\ SaveModel(p, s, now)
    BY <1>3 DEF CalibrateInitial
  <2>2. UNCHANGED <<arenas, stops>> /\ model' = [model EXCEPT ![p] = s]
        /\ worker'.at = "initial" /\ worker'.todo = worker.todo /\ ~At("promote")
    BY <1>1, <1>3, <2>1 DEF CalibrateInitial, SaveModel, Attempting, TypeInv, TypeOK, WorkerState
  <2>3. \A a \in DOMAIN arenas : NextOf(a) = {} => arenas[a].pair # p
    BY <1>1, <2>1, NoModelNoLast
  <2>4. ChampionChain'
    BY <1>1, <2>2, <2>3, ChainSurvivesModels
  <2>5. ActiveIsLast' /\ TodoIsOpen' /\ Promoted' /\ RefreshesTheSame'
    BY <2>2 DEF ActiveIsLast, TodoIsOpen, Promoted, RefreshesTheSame, NextOf, ArenasOf
  <2>6. \A a \in DOMAIN arenas :
          arenas[a].status = "ACTIVE" => model'[arenas[a].pair] = model[arenas[a].pair]
    BY <1>1, <2>2, <2>3 DEF ActiveIsLast, TypeInv, TypeOK
  <2>7. ChampionInUse'
    BY <2>2, <2>6 DEF ChampionInUse
  <2> QED
    BY <1>1, <2>4, <2>5, <2>7
<1>4. CASE RegisterChallenge
  <2>1. UNCHANGED <<model, arenas, stops>> /\ ~At("promote")
    BY <1>4 DEF RegisterChallenge
  <2>2. worker'.at # "promote" /\ worker'.todo = worker.todo /\ RefreshesTheSame'
    <3>1. CASE ActiveArena(worker.pair)
      BY <1>1, <1>4, <3>1, NextPairTyped
         DEF RegisterChallenge, RefreshesTheSame, TypeInv, TypeOK, WorkerKnows, Calibrating
    <3>2. CASE ~ActiveArena(worker.pair)
      BY <1>1, <1>4, <3>2
         DEF RegisterChallenge, Goto, RefreshesTheSame, TypeInv, TypeOK, WorkerState
    <3> QED
      BY <3>1, <3>2
  <2>3. ChampionChain'
    BY <1>1, <2>1, ChainSurvivesCuts
  <2>4. ActiveIsLast' /\ TodoIsOpen' /\ Promoted' /\ ChampionInUse'
    BY <2>1, <2>2 DEF ActiveIsLast, TodoIsOpen, Promoted, ChampionInUse, NextOf, ArenasOf
  <2> QED
    BY <1>1, <2>2, <2>3, <2>4
<1>5. CASE InsertArena
  <2>1. PICK i \in Nat :
          /\ DOMAIN arenas' = DOMAIN arenas \cup {i}
          /\ \A a \in DOMAIN arenas : a # i /\ arenas'[a] = arenas[a]
          /\ arenas'[i].pair = worker.pair /\ arenas'[i].champion = model[worker.pair]
          /\ NextOf(i)' = {}
          /\ \A a \in DOMAIN arenas : arenas[a].pair # worker.pair => NextOf(a)' = NextOf(a)
    BY <1>1, <1>5, ChainSurvivesInsert
  <2>2. UNCHANGED <<model, stops>> /\ At("insert") /\ ~At("promote")
    BY <1>5 DEF InsertArena
  <2>3. worker'.at = "pair" /\ worker'.todo = worker.todo
    BY <1>1, <1>5, NextPairTyped DEF InsertArena, TypeInv, TypeOK, WorkerKnows, Calibrating
  <2>4. ChampionChain'
    BY <1>1, <1>5, ChainSurvivesInsert
  <2>5. \A a \in DOMAIN arenas : arenas[a].status = "ACTIVE" => arenas[a].pair # worker.pair
    BY <2>2 DEF ArenaInv, NoneActiveAtInsert, ActiveArenas
  <2>6. ActiveIsLast'
    BY <2>1, <2>5 DEF ActiveIsLast
  <2>7. TodoIsOpen' /\ Promoted' /\ RefreshesTheSame'
    BY <1>1, <2>1, <2>3 DEF TodoIsOpen, Promoted, RefreshesTheSame, TypeInv, WorkerKnows
  <2>8. ChampionInUse'
    BY <2>1, <2>2 DEF ChampionInUse
  <2> QED
    BY <1>1, <2>4, <2>6, <2>7, <2>8
<1>6. CASE RefreshModel
  <2>1. worker.pair \in Pairs /\ worker.candidate \in Signatures
        /\ worker.candidate = model[worker.pair]
    BY <1>1, <1>6 DEF RefreshModel, RefreshesTheSame, TypeInv, WorkerKnows, Calibrating
  <2>2. UNCHANGED <<model, arenas, stops>>
    BY <1>1, <1>6, <2>1 DEF RefreshModel, SaveModel, TypeInv, TypeOK
  <2>3. worker'.at = "pair" /\ worker'.todo = worker.todo /\ ~At("promote")
    BY <1>1, <1>6, <2>1, NextPairTyped DEF RefreshModel, TypeInv, TypeOK
  <2>4. ChampionChain'
    BY <1>1, <2>2, ChainSurvivesCuts
  <2>5. ActiveIsLast' /\ TodoIsOpen' /\ Promoted' /\ ChampionInUse' /\ RefreshesTheSame'
    BY <2>2, <2>3
    DEF ActiveIsLast, TodoIsOpen, Promoted, ChampionInUse, RefreshesTheSame, NextOf, ArenasOf
  <2> QED
    BY <1>1, <2>4, <2>5
<1>7. CASE StartGovernance
  <2>1. UNCHANGED <<model, arenas, stops>> /\ ~At("promote")
    BY <1>7 DEF StartGovernance, OnlyWorker
  <2>2. worker'.at = "arena" /\ worker'.todo = {a \in DOMAIN arenas : arenas[a].status = "ACTIVE"}
    BY <1>7 DEF StartGovernance, Idle
  <2>3. ChampionChain'
    BY <1>1, <2>1, ChainSurvivesCuts
  <2>4. ActiveIsLast' /\ TodoIsOpen' /\ Promoted' /\ ChampionInUse' /\ RefreshesTheSame'
    BY <2>1, <2>2
    DEF ActiveIsLast, TodoIsOpen, Promoted, ChampionInUse, RefreshesTheSame, NextOf, ArenasOf
  <2> QED
    BY <1>1, <2>3, <2>4
<1>8. CASE PromoteArena
  <2> DEFINE k == worker.arena
  <2>1. k \in DOMAIN arenas /\ arenas[k].status = "ACTIVE" /\ k \notin worker.todo
        /\ model[arenas[k].pair] = arenas[k].challenger
    BY <1>1, <1>8 DEF PromoteArena, Promoted, TypeInv, WorkerKnows
  <2>2. CloseArena(k, "PROMOTED") /\ UNCHANGED <<model, stops>>
    BY <1>8 DEF PromoteArena
  <2>3. worker'.at = "mark" /\ worker'.todo = worker.todo /\ At("promote")
    BY <1>1, <1>8 DEF PromoteArena, Goto, TypeInv, TypeOK, WorkerState
  <2> HIDE DEF k
  <2>4. ChampionChain'
    BY <1>1, <2>1, <2>2, ChainSurvivesClosing
  <2>5. /\ DOMAIN arenas' = DOMAIN arenas /\ arenas'[k].status = "PROMOTED"
        /\ \A b \in DOMAIN arenas : (b # k => arenas'[b] = arenas[b])
                                   /\ arenas'[b].pair = arenas[b].pair
    BY <1>1, <2>1, <2>2, ArenaClosed DEF CloseArena, TypeInv, TypeOK
  <2>6. \A a \in DOMAIN arenas : NextOf(a)' = NextOf(a)
    BY <2>5 DEF NextOf, ArenasOf
  <2>7. ActiveIsLast'
    BY <2>5, <2>6 DEF ActiveIsLast
  <2>8. TodoIsOpen' /\ Promoted' /\ RefreshesTheSame'
    BY <1>1, <2>1, <2>3, <2>5 DEF TodoIsOpen, Promoted, RefreshesTheSame, TypeInv, WorkerKnows
  <2>9. ChampionInUse'
    BY <2>2, <2>3, <2>5 DEF ChampionInUse, k
  <2> QED
    BY <1>1, <2>4, <2>7, <2>8, <2>9
<1>9. ASSUME NEW k \in worker.todo, SavePromoted(k) PROVE ChainInv'
  <2>1. k \in DOMAIN arenas /\ arenas[k].status = "ACTIVE" /\ arenas[k] \in ArenaRow
    BY <1>1 DEF TodoIsOpen, TypeInv, TypeOK, WorkerKnows
  <2> DEFINE p == arenas[k].pair
             s == arenas[k].challenger
  <2>2. p \in Pairs /\ s \in Signatures
    BY <2>1 DEF ArenaRow
  <2>3. UNCHANGED <<arenas, stops>> /\ model' = [model EXCEPT ![p] = s]
    BY <1>9 DEF SavePromoted, SaveModel
  <2>4. k \in Nat
    BY <1>1, <2>1 DEF TypeInv, TypeOK
  <2>5. worker'.at = "promote" /\ worker'.todo = worker.todo \ {k} /\ worker'.arena = k
        /\ ~At("promote")
    BY <1>1, <1>9, <2>4 DEF SavePromoted, TypeInv, TypeOK, WorkerState
  <2>6. model'[p] = s /\ \A q \in Pairs : q # p => model'[q] = model[q]
    BY <1>1, <2>2, <2>3 DEF TypeInv, TypeOK
  <2>7. \A a \in DOMAIN arenas : arenas[a].pair = p /\ NextOf(a) = {} => a = k
    BY <1>1, <2>1, LastIsOne DEF ActiveIsLast
  <2>8. s \in Outcome(k)
    BY <2>1 DEF Outcome
  <2>9. \A a \in DOMAIN arenas : arenas[a].pair \in Pairs
    <3>1. \A a \in DOMAIN arenas : arenas[a] \in ArenaRow
      BY <1>1 DEF TypeInv, TypeOK
    <3> QED
      BY <3>1 DEF ArenaRow
  <2> HIDE DEF p, s
  <2>10. ChampionChain'
    BY <1>1, <2>2, <2>3, <2>7, <2>8, ChainSurvivesModels
  <2>11. ActiveIsLast' /\ TodoIsOpen' /\ RefreshesTheSame'
    BY <2>3, <2>5 DEF ActiveIsLast, TodoIsOpen, RefreshesTheSame, NextOf, ArenasOf
  <2>12. Promoted'
    BY <2>1, <2>3, <2>5, <2>6 DEF Promoted, p, s
  <2>13. ChampionInUse'
    BY <2>3, <2>5, <2>6, <2>7, <2>9 DEF ChampionInUse, ActiveIsLast
  <2> QED
    BY <1>1, <2>10, <2>11, <2>12, <2>13
<1>10. ASSUME NEW k \in worker.todo, RejectArena(k) PROVE ChainInv'
  <2>1. k \in DOMAIN arenas /\ arenas[k].status = "ACTIVE"
    BY <1>1 DEF TodoIsOpen, TypeInv, WorkerKnows
  <2>2. CloseArena(k, "REJECTED") /\ UNCHANGED <<model, stops>> /\ ~At("promote")
    BY <1>10 DEF RejectArena
  <2>3. worker'.at = "mark" /\ worker'.todo = worker.todo \ {k}
    BY <1>1, <1>10 DEF RejectArena, TypeInv, TypeOK, WorkerState
  <2>4. stops = 0 => model[arenas[k].pair] = arenas[k].champion
    BY <2>1, <2>2 DEF ChampionInUse
  <2>5. ChampionChain'
    BY <1>1, <2>1, <2>2, <2>4, ChainSurvivesClosing
  <2>6. /\ DOMAIN arenas' = DOMAIN arenas /\ arenas'[k].status = "REJECTED"
        /\ \A b \in DOMAIN arenas : (b # k => arenas'[b] = arenas[b])
                                   /\ arenas'[b].pair = arenas[b].pair
    BY <1>1, <2>1, <2>2, ArenaClosed DEF CloseArena, TypeInv, TypeOK
  <2>7. \A a \in DOMAIN arenas : NextOf(a)' = NextOf(a)
    BY <2>6 DEF NextOf, ArenasOf
  <2>8. ActiveIsLast'
    BY <2>6, <2>7 DEF ActiveIsLast
  <2>9. TodoIsOpen' /\ Promoted' /\ RefreshesTheSame'
    BY <1>1, <2>3, <2>6 DEF TodoIsOpen, Promoted, RefreshesTheSame, TypeInv, WorkerKnows
  <2>10. ChampionInUse'
    BY <2>2, <2>3, <2>6 DEF ChampionInUse
  <2> QED
    BY <1>1, <2>5, <2>8, <2>9, <2>10
<1>11. CASE Tick \/ UNCHANGED vars
  <2>1. UNCHANGED <<model, arenas, stops, worker>>
    BY <1>11 DEF Tick, vars
  <2>2. ChampionChain'
    BY <1>1, <2>1, ChainSurvivesCuts
  <2>3. ActiveIsLast' /\ TodoIsOpen' /\ Promoted' /\ ChampionInUse' /\ RefreshesTheSame'
    BY <2>1
    DEF ActiveIsLast, TodoIsOpen, Promoted, ChampionInUse, RefreshesTheSame, NextOf, ArenasOf
  <2> QED
    BY <1>1, <2>2, <2>3
<1> QED
  BY <1>1, <1>2, <1>3, <1>4, <1>5, <1>6, <1>7, <1>8, <1>9, <1>10, <1>11, ChainEffects

(* Every champion is what the arena before it left in production, and the  *)
(* model in production what the last one left there, for any number of     *)
(* pairs, signatures, arenas and cuts.                                     *)
THEOREM ChampionsFollow == Spec => []ChampionChain
<1>1. Init => ChainInv
  <2> SUFFICES ASSUME Init PROVE ChainInv
    OBVIOUS
  <2>1. TypeInv
    BY TypeInvInit
  <2>2. worker.at = "idle" /\ worker.todo = {} /\ DOMAIN arenas = {}
    BY DEF Init, Idle
  <2> QED
    BY <2>1, <2>2 DEF ChainInv, ArenaInv, OneActiveArena, NoneActiveAtInsert, ActiveArenas, At,
       ActiveIsLast, TodoIsOpen, Promoted, ChampionInUse, RefreshesTheSame, ChampionChain
<1>2. ChainInv => ChampionChain
  BY DEF ChainInv
<1> QED
  BY <1>1, <1>2, ChainInvStep, PTL DEF Spec
=============================================================================
