--------------------------- MODULE MaintenanceProofs ---------------------------
(***************************************************************************)
(* What the maintenance pause guarantees for any programs, databases,      *)
(* budgets and leases, and any number of writes, deaths and attempts.      *)
(*                                                                         *)
(* A program is only stopped by PauseOne, under a lease that began in the  *)
(* same instant (PauseHasLease).  And nothing but PauseOne can stop it     *)
(* again once it has run: as long as every process is the one found and is *)
(* stopped, no database has moved since the last of them stopped           *)
(* (StillFrozen), whatever happened to the others in between.              *)
(***************************************************************************)
EXTENDS Maintenance, TLAPS

(* what guard looks at besides the budget *)
StillStopped == \A p \in Programs : Same(operator.items, p) /\ process[p].mode = "stopped"

(* the databases that have been copied: the next one too, once it has been *)
CopiedUpTo(i) == i < operator.next \/ (operator.at = "verify" /\ i = operator.next)

PauseHasLease ==
  operator.at = "pause" =>
    \E l \in leases : l.items = operator.items /\ time < l.until

StillFrozen ==
  operator.at \in {"guard", "copy", "verify"} /\ StillStopped =>
    /\ version = frozen
    /\ \A i \in DOMAIN Databases :
         CopiedUpTo(i) => captured[Databases[i]] = frozen[Databases[i]]

CountsFromOne ==
  /\ operator.next >= 1
  /\ operator.at \in {"pause", "paused"} => operator.next = 1

MaintenanceInv ==
  MaintenanceTypeOK /\ PauseHasLease /\ PausedHaveAGuardian /\ CountsFromOne /\ StillFrozen
  /\ ReadyIsOneCut

LEMMA DatabasesAreNames ==
  /\ \A i \in DOMAIN Databases : Databases[i] \in Names
  /\ DOMAIN Databases \subseteq Nat
BY MaintenanceAssumption DEF MaintenanceAssumption, Names

LEMMA MaintenanceInvInit == MaintenanceInit => MaintenanceInv
<1> SUFFICES ASSUME MaintenanceInit PROVE MaintenanceInv
  OBVIOUS
<1> USE MaintenanceAssumption DEF MaintenanceAssumption, MaintenanceInit, AtRest, NoOne
<1>1. MaintenanceTypeOK
  BY DEF MaintenanceTypeOK
<1>2. PauseHasLease /\ PausedHaveAGuardian /\ CountsFromOne /\ StillFrozen /\ ReadyIsOneCut
  BY DEF PauseHasLease, PausedHaveAGuardian, CountsFromOne, StillFrozen, ReadyIsOneCut
<1> QED
  BY <1>1, <1>2 DEF MaintenanceInv

(* to resume processes only sets stopped ones running *)
LEMMA ResumedOnlyRuns ==
  ASSUME process \in [Programs -> [started : Nat, mode : {"running", "stopped", "gone"}]],
         NEW items \in [Programs -> Nat]
  PROVE  /\ Resumed(items) \in [Programs -> [started : Nat, mode : {"running", "stopped", "gone"}]]
         /\ \A p \in Programs :
              Resumed(items)[p].mode = "stopped" =>
                Resumed(items)[p] = process[p] /\ items[p] # process[p].started
BY DEF Resumed, Same

LEMMA MaintenanceInvStep == MaintenanceInv /\ [MaintenanceNext]_maintenanceVars => MaintenanceInv'
<1> SUFFICES ASSUME MaintenanceInv, [MaintenanceNext]_maintenanceVars
             PROVE  MaintenanceInv'
  OBVIOUS
<1> USE MaintenanceAssumption, DatabasesAreNames
        DEF MaintenanceInv, MaintenanceAssumption, MaintenanceTypeOK, PauseHasLease, PausedHaveAGuardian,
            CountsFromOne, StillFrozen, StillStopped, CopiedUpTo, ReadyIsOneCut
<1>1. ASSUME NEW d \in Names, Write(d) PROVE MaintenanceInv'
  BY <1>1, SMTT(30) DEF Write, Same
<1>2. ASSUME NEW p \in Programs, Die(p) PROVE MaintenanceInv'
  BY <1>2 DEF Die, Same
<1>3. ASSUME NEW p \in Programs, Relaunch(p) PROVE MaintenanceInv'
  BY <1>3 DEF Relaunch, Same
<1>4. ASSUME Tick PROVE MaintenanceInv'
  BY <1>4 DEF Tick, Same
<1>5. ASSUME Discover PROVE MaintenanceInv'
  <2>1. MaintenanceTypeOK'
    BY <1>5 DEF Discover, Same
  <2>2. PauseHasLease'
    <3> DEFINE l == [items |-> operator'.items, until |-> time + Lease]
    <3>1. l \in leases' /\ l.items = operator'.items
      BY <1>5 DEF Discover
    <3>2. time' < l.until
      BY <1>5 DEF Discover
    <3> QED
      BY <3>1, <3>2
  <2>3. PausedHaveAGuardian'
    BY <1>5 DEF Discover, Same
  <2>4. CountsFromOne'
    BY <1>5 DEF Discover, Same
  <2>5. StillFrozen'
    BY <1>5 DEF Discover, Same
  <2>6. ReadyIsOneCut'
    BY <1>5 DEF Discover, Same
  <2> QED
    BY <2>1, <2>2, <2>3, <2>4, <2>5, <2>6
<1>6. ASSUME NEW p \in Programs, PauseOne(p) PROVE MaintenanceInv'
  <2>1. MaintenanceTypeOK'
    <3>1. operator' \in [at : {"idle", "pause", "paused", "guard", "copy", "verify", "abort", "ready"},
                         items : [Programs -> Nat], deadline : Nat, left : SUBSET Programs,
                         next : Nat]
      <4>1. CASE Same(operator.items, p)
        <5>1. operator' = [operator EXCEPT !.at = IF operator.left = {p} THEN "paused" ELSE "pause",
                                           !.left = @ \ {p}]
          BY <1>6, <4>1 DEF PauseOne
        <5>2. operator.left \ {p} \in SUBSET Programs
          OBVIOUS
        <5> QED
          BY <5>1, <5>2
      <4>2. CASE ~Same(operator.items, p)
        BY <1>6, <4>2 DEF PauseOne
      <4> QED
        BY <4>1, <4>2
    <3>2. process' \in [Programs -> [started : Nat, mode : {"running", "stopped", "gone"}]]
      <4>1. process[p].started \in Nat
        OBVIOUS
      <4>2. [started |-> process[p].started, mode |-> "stopped"]
               \in [started : Nat, mode : {"running", "stopped", "gone"}]
        BY <4>1
      <4>3. \/ process' = process
            \/ process' = [process EXCEPT ![p] = [started |-> process[p].started, mode |-> "stopped"]]
        BY <1>6 DEF PauseOne
      <4> QED
        BY <4>2, <4>3
    <3> QED
      BY <1>6, <3>1, <3>2 DEF PauseOne
  <2>2. PauseHasLease'
    BY <1>6 DEF PauseOne, Same
  <2>3. PausedHaveAGuardian'
    <3> SUFFICES ASSUME NEW q \in Programs, process'[q].mode = "stopped"
                 PROVE  \E l \in leases : l.items[q] = process'[q].started /\ time <= l.until
      BY <1>6 DEF PauseOne
    <3>1. CASE q = p /\ Same(operator.items, p)
      <4>1. PICK l \in leases : l.items = operator.items /\ time < l.until
        BY <1>6 DEF PauseOne
      <4>2. l.items[q] = process'[q].started
        BY <1>6, <3>1, <4>1 DEF PauseOne, Same
      <4>3. time <= l.until
        BY <4>1
      <4> QED
        BY <4>2, <4>3
    <3>2. CASE ~(q = p /\ Same(operator.items, p))
      BY <1>6, <3>2 DEF PauseOne
    <3> QED
      BY <3>1, <3>2
  <2>4. CountsFromOne'
    BY <1>6 DEF PauseOne, Same
  <2>5. StillFrozen'
    BY <1>6, ZenonT(30) DEF PauseOne, Same
  <2>6. ReadyIsOneCut'
    BY <1>6 DEF PauseOne, Same
  <2> QED
    BY <2>1, <2>2, <2>3, <2>4, <2>5, <2>6
<1>7. ASSUME AllStopped PROVE MaintenanceInv'
  <2>1. MaintenanceTypeOK'
    BY <1>7 DEF AllStopped, Guarded, AllPaused, Same
  <2>2. PauseHasLease'
    BY <1>7 DEF AllStopped, Guarded, AllPaused, Same
  <2>3. PausedHaveAGuardian'
    BY <1>7 DEF AllStopped, Guarded, AllPaused, Same
  <2>4. CountsFromOne'
    BY <1>7 DEF AllStopped, Guarded, AllPaused, Same
  <2>5. StillFrozen'
    BY <1>7, SMTT(30) DEF AllStopped, Guarded, AllPaused, Same
  <2>6. ReadyIsOneCut'
    BY <1>7 DEF AllStopped, Guarded, AllPaused, Same
  <2> QED
    BY <2>1, <2>2, <2>3, <2>4, <2>5, <2>6
<1>8. ASSUME BeginCapture PROVE MaintenanceInv'
  BY <1>8 DEF BeginCapture, Guarded, AllPaused, Same
<1>9. ASSUME Capture PROVE MaintenanceInv'
  BY <1>9 DEF Capture, Same
<1>10. ASSUME CaptureFails PROVE MaintenanceInv'
  BY <1>10 DEF CaptureFails, Same
<1>11. ASSUME Verify PROVE MaintenanceInv'
  <2>1. MaintenanceTypeOK'
    <3>1. [operator EXCEPT !.at = "guard", !.next = @ + 1]
             \in [at : {"idle", "pause", "paused", "guard", "copy", "verify", "abort", "ready"},
                  items : [Programs -> Nat], deadline : Nat, left : SUBSET Programs, next : Nat]
      <4>1. operator.next + 1 \in Nat
        OBVIOUS
      <4> QED
        BY <4>1
    <3> QED
      BY <1>11, <3>1 DEF Verify, Guarded
  <2>2. PauseHasLease'
    BY <1>11 DEF Verify, Guarded, AllPaused, Same
  <2>3. PausedHaveAGuardian'
    BY <1>11 DEF Verify, Guarded, AllPaused, Same
  <2>4. CountsFromOne'
    BY <1>11 DEF Verify, Guarded, AllPaused, Same
  <2>5. StillFrozen'
    BY <1>11, SMTT(30) DEF Verify, Guarded, AllPaused, Same
  <2>6. ReadyIsOneCut'
    BY <1>11 DEF Verify, Guarded, AllPaused, Same
  <2> QED
    BY <2>1, <2>2, <2>3, <2>4, <2>5, <2>6
<1>12. ASSUME Ready PROVE MaintenanceInv'
  <2>1. MaintenanceTypeOK'
    BY <1>12 DEF Ready, Guarded, AllPaused, Same
  <2>2. PauseHasLease'
    BY <1>12 DEF Ready, Guarded, AllPaused, Same
  <2>3. PausedHaveAGuardian'
    BY <1>12 DEF Ready, Guarded, AllPaused, Same
  <2>4. CountsFromOne'
    BY <1>12 DEF Ready, Guarded, AllPaused, Same
  <2>5. StillFrozen'
    BY <1>12 DEF Ready, Guarded, AllPaused, Same
  <2>6. ReadyIsOneCut'
    BY <1>12, SMTT(30) DEF Ready, Guarded, AllPaused, Same
  <2> QED
    BY <2>1, <2>2, <2>3, <2>4, <2>5, <2>6
<1>13. ASSUME AbortResumes PROVE MaintenanceInv'
  <2>1. MaintenanceTypeOK'
    BY <1>13, ResumedOnlyRuns DEF AbortResumes, AtRest, NoOne, Same
  <2>2. PauseHasLease'
    BY <1>13, ResumedOnlyRuns DEF AbortResumes, AtRest, NoOne, Same
  <2>3. PausedHaveAGuardian'
    BY <1>13, ResumedOnlyRuns DEF AbortResumes, AtRest, NoOne, Same
  <2>4. CountsFromOne'
    BY <1>13, ResumedOnlyRuns DEF AbortResumes, AtRest, NoOne, Same
  <2>5. StillFrozen'
    BY <1>13, ResumedOnlyRuns DEF AbortResumes, AtRest, NoOne, Same
  <2>6. ReadyIsOneCut'
    BY <1>13, ResumedOnlyRuns DEF AbortResumes, AtRest, NoOne, Same
  <2> QED
    BY <2>1, <2>2, <2>3, <2>4, <2>5, <2>6
<1>14. ASSUME OperatorDies PROVE MaintenanceInv'
  BY <1>14 DEF OperatorDies, AtRest, NoOne, Same
<1>15. ASSUME ManualResume PROVE MaintenanceInv'
  BY <1>15, ResumedOnlyRuns DEF ManualResume, Same
<1>16. ASSUME GuardianResumes PROVE MaintenanceInv'
  <2> PICK l \in leases : /\ time >= l.until
                          /\ process' = Resumed(l.items)
                          /\ leases' = leases \ {l}
    BY <1>16 DEF GuardianResumes
  <2>0. UNCHANGED <<time, version, operator, captured, frozen, deaths, attempts>>
    BY <1>16 DEF GuardianResumes
  <2>1. /\ process' \in [Programs -> [started : Nat, mode : {"running", "stopped", "gone"}]]
        /\ \A p \in Programs : process'[p].mode = "stopped" =>
             process'[p] = process[p] /\ l.items[p] # process[p].started
    <3>1. l.items \in [Programs -> Nat]
      OBVIOUS
    <3>2. process \in [Programs -> [started : Nat, mode : {"running", "stopped", "gone"}]]
      OBVIOUS
    <3>3. /\ Resumed(l.items) \in [Programs -> [started : Nat, mode : {"running", "stopped", "gone"}]]
          /\ \A p \in Programs :
               Resumed(l.items)[p].mode = "stopped" =>
                 Resumed(l.items)[p] = process[p] /\ l.items[p] # process[p].started
      BY <3>1, <3>2, ResumedOnlyRuns
    <3> QED
      BY <3>3
  <2>2. MaintenanceTypeOK'
    BY <2>0, <2>1
  <2>3. PauseHasLease'
    BY <2>0
  <2>4. PausedHaveAGuardian'
    <3> SUFFICES ASSUME NEW p \in Programs, process'[p].mode = "stopped"
                 PROVE  \E k \in leases' : k.items[p] = process'[p].started /\ time' <= k.until
      OBVIOUS
    <3>1. PICK k \in leases : k.items[p] = process[p].started /\ time <= k.until
      BY <2>1
    <3>2. k # l
      BY <2>1, <3>1
    <3> QED
      BY <2>0, <2>1, <3>1, <3>2
  <2>5. CountsFromOne' /\ ReadyIsOneCut'
    BY <2>0
  <2>6. StillFrozen'
    <3>1. StillStopped' => StillStopped
      BY <2>0, <2>1 DEF Same
    <3> QED
      BY <2>0, <3>1
  <2> QED
    BY <2>2, <2>3, <2>4, <2>5, <2>6
<1>17. ASSUME UNCHANGED maintenanceVars PROVE MaintenanceInv'
  BY <1>17 DEF maintenanceVars, Same
<1> QED
  BY <1>1, <1>2, <1>3, <1>4, <1>5, <1>6, <1>7, <1>8, <1>9, <1>10, <1>11, <1>12, <1>13, <1>14, <1>15,
     <1>16, <1>17 DEF MaintenanceNext

LEMMA MaintenanceInvHolds == MaintenanceSpec => []MaintenanceInv
BY MaintenanceInvInit, MaintenanceInvStep, PTL DEF MaintenanceSpec

(* The types of processes, copies, leases and the tool itself. *)
THEOREM MaintenanceTypeCorrect == MaintenanceSpec => []MaintenanceTypeOK
BY MaintenanceInvHolds, PTL DEF MaintenanceInv

(* A program that is stopped has a guardian that knows it by pid and start *)
(* time and is not over, wherever the operator was cut off                 *)
(* (prepare_deploy.prepare, guard).                                        *)
THEOREM PausedAreGuarded == MaintenanceSpec => []PausedHaveAGuardian
BY MaintenanceInvHolds, PTL DEF MaintenanceInv

(* READY_FOR_DEPLOY is of copies of one instant (prepare_deploy.guard,     *)
(* called before and after each copy).                                     *)
THEOREM ReadyIsACut == MaintenanceSpec => []ReadyIsOneCut
BY MaintenanceInvHolds, PTL DEF MaintenanceInv
=============================================================================
