------------------------- MODULE SnapshotStoreProofs -------------------------
(***************************************************************************)
(* What SnapshotStore guarantees for any number of workers, any capacity   *)
(* of the volume and any number of commits, faults and lost containers.    *)
(* The inductive invariant is CopiesInv; every property below follows from *)
(* it and one step.                                                        *)
(***************************************************************************)
EXTENDS SnapshotStore, FiniteSetTheorems, TLAPS

(* A set of workers has a natural number of elements: orphans is counted. *)
LEMMA CountedWorkers ==
  ASSUME NEW P \in SUBSET Workers
  PROVE  Cardinality(P) \in Nat
BY FS_Subset, FS_CardinalityType, SnapshotAssumption DEF SnapshotAssumption

LEMMA CopiesInvInit == Init => CopiesInv
<1> SUFFICES ASSUME Init PROVE CopiesInv
  OBVIOUS
<1> USE DEF Init, Fresh, Content, Absent, Partial, Idle
<1>1. StateOK /\ FlagsOK
  <2>1. StateOK
    BY DEF StateOK
  <2>2. FlagsOK
    BY Zenon DEF FlagsOK
  <2> QED
    BY <2>1, <2>2
<1>2. CopiesAreFresh
  BY DEF CopiesAreFresh
<1>3. NoWorkerAtBoot
  BY DEF NoWorkerAtBoot
<1>4. FillIsCopied
  BY DEF FillIsCopied
<1> QED
  BY <1>1, <1>2, <1>3, <1>4 DEF CopiesInv, TypeOK

LEMMA CopiesInvStep == CopiesInv /\ [Next]_vars => CopiesInv'
<1> SUFFICES ASSUME CopiesInv, [Next]_vars
             PROVE  CopiesInv'
  OBVIOUS
<1> USE DEF CopiesInv, TypeOK, StateOK, FlagsOK, CopiesAreFresh, NoWorkerAtBoot, FillIsCopied, Fresh, Content,
            Absent, Partial, Idle
<1>1. ASSUME NEW w \in Workers, CommitFill(w) PROVE CopiesInv'
  BY <1>1 DEF CommitFill, Commit, OnlyWorker, rescueVars, bootVars
<1>2. ASSUME NEW w \in Workers, CommitOther(w) PROVE CopiesInv'
  BY <1>2 DEF CommitOther, Commit, OnlyWorker, rescueVars, bootVars
<1>3. ASSUME NEW w \in Workers, OpenCheckpoint(w) PROVE CopiesInv'
  BY <1>3 DEF OpenCheckpoint, OnlyWorker, rescueVars, bootVars
<1>4. ASSUME NEW w \in Workers, CopyCheckpoint(w) PROVE CopiesInv'
  BY <1>4 DEF CopyCheckpoint, OnlyWorker, rescueVars, bootVars
<1>5. ASSUME NEW w \in Workers, ReplaceCheckpoint(w) PROVE CopiesInv'
  BY <1>5 DEF ReplaceCheckpoint, OnlyWorker, rescueVars, bootVars
<1>6. ASSUME NEW w \in Workers, FailCheckpoint(w) PROVE CopiesInv'
  BY <1>6 DEF FailCheckpoint, Fault, OnlyWorker, rescueVars, bootVars
<1>7. ASSUME NEW w \in Workers, KillWorker(w) PROVE CopiesInv'
  BY <1>7 DEF KillWorker, Fault, OnlyWorker, rescueVars, bootVars
<1>8. ASSUME Bootstrap PROVE CopiesInv'
  BY <1>8 DEF Bootstrap, Purge, Healthy, Fault, OnlyRescue, workerVars, bootVars
<1>9. ASSUME StartCycle PROVE CopiesInv'
  <2> USE <1>9 DEF StartCycle, Purge, OnlyRescue, workerVars, bootVars
  <2>1. TypeOK'
    <3>1. FlagsOK'
      BY Zenon
    <3>2. StateOK'
      OBVIOUS
    <3> QED
      BY <3>1, <3>2
  <2>2. CopiesAreFresh'
    OBVIOUS
  <2>3. NoWorkerAtBoot'
    OBVIOUS
  <2>4. FillIsCopied'
    OBVIOUS
  <2> QED
    BY <2>1, <2>2, <2>3, <2>4
<1>10. ASSUME Backup PROVE CopiesInv'
  BY <1>10 DEF Backup, KeepFiles, OnlyRescue, workerVars, bootVars
<1>11. ASSUME OpenCopy PROVE CopiesInv'
  BY <1>11 DEF OpenCopy, OnlyRescue, workerVars, bootVars
<1>12. ASSUME WriteCopy PROVE CopiesInv'
  BY <1>12 DEF WriteCopy, OnlyRescue, workerVars, bootVars
<1>13. ASSUME ReplaceCopy PROVE CopiesInv'
  BY <1>13 DEF ReplaceCopy, OnlyRescue, workerVars, bootVars
<1>14. ASSUME RetryCycle PROVE CopiesInv'
  BY <1>14 DEF RetryCycle, NoSpace, Purge, OnlyRescue, workerVars, bootVars
<1>15. ASSUME FailCycle PROVE CopiesInv'
  BY <1>15 DEF FailCycle, NoSpace, Fault, OnlyRescue, workerVars, bootVars
<1>16. ASSUME FinishCycle PROVE CopiesInv'
  BY <1>16 DEF FinishCycle, Purge, OnlyRescue, workerVars, bootVars
<1>17. ASSUME StartWatch PROVE CopiesInv'
  BY <1>17 DEF StartWatch, Purge, OnlyRescue, workerVars, bootVars
<1>18. ASSUME Restart PROVE CopiesInv'
  <2>1. Cardinality({w \in Workers : tmp[w] # Absent}) \in Nat
    BY CountedWorkers
  <2> USE <1>18, <2>1 DEF Restart
  <2>2. TypeOK'
    <3>1. FlagsOK'
      BY Zenon
    <3>2. StateOK'
      OBVIOUS
    <3> QED
      BY <3>1, <3>2
  <2>3. CopiesAreFresh'
    OBVIOUS
  <2>4. NoWorkerAtBoot'
    OBVIOUS
  <2>5. FillIsCopied'
    OBVIOUS
  <2> QED
    BY <2>2, <2>3, <2>4, <2>5
<1>19. ASSUME UNCHANGED vars PROVE CopiesInv'
  BY <1>19 DEF vars
<1> QED
  BY <1>1, <1>2, <1>3, <1>4, <1>5, <1>6, <1>7, <1>8, <1>9, <1>10, <1>11, <1>12, <1>13, <1>14, <1>15, <1>16, <1>17, <1>18, <1>19 DEF Next, WorkerStep, RescueStep

LEMMA CopiesInvHolds == Spec => []CopiesInv
BY CopiesInvInit, CopiesInvStep, PTL DEF Spec

(* The types of every file, program counter and counter of the store, with *)
(* all the writers running.                                                *)
THEOREM StoreTypeCorrect == Spec => []TypeOK
<1>1. CopiesInv => TypeOK
  BY DEF CopiesInv
<1> QED
  BY <1>1, CopiesInvHolds, PTL

(* The snapshot a lost container left behind (storage_rescue.py) is never  *)
(* replaced by anything older.                                             *)
THEOREM SnapshotIsCarriedOver == Spec => []SnapshotCarriedOver
<1>1. CopiesInv => SnapshotCarriedOver
  BY DEF CopiesInv, CopiesAreFresh, Fresh, SnapshotCarriedOver, Absent
<1> QED
  BY <1>1, CopiesInvHolds, PTL

(* Only a finished, fresh copy ever takes the place of the snapshot. *)
LEMMA SnapshotStep ==
  ASSUME CopiesInv, [Next]_vars
  PROVE  snapshot' = snapshot \/ Fresh(snapshot')
<1> USE DEF CopiesInv, CopiesAreFresh
<1>1. ASSUME NEW w \in Workers, ReplaceCheckpoint(w) PROVE snapshot' = snapshot \/ Fresh(snapshot')
  BY <1>1 DEF ReplaceCheckpoint
<1>2. ASSUME ReplaceCopy PROVE Fresh(snapshot')
  BY <1>2 DEF ReplaceCopy
<1>3. ASSUME NEW w \in Workers,
             CommitFill(w) \/ CommitOther(w) \/ OpenCheckpoint(w) \/ CopyCheckpoint(w)
               \/ FailCheckpoint(w) \/ KillWorker(w)
      PROVE  snapshot' = snapshot
  BY <1>3 DEF CommitFill, CommitOther, OpenCheckpoint, CopyCheckpoint, FailCheckpoint, KillWorker
<1>4. ASSUME Bootstrap \/ StartCycle \/ Backup \/ OpenCopy \/ WriteCopy \/ RetryCycle \/ FailCycle
               \/ FinishCycle \/ StartWatch \/ Restart \/ UNCHANGED vars
      PROVE  snapshot' = snapshot
  BY <1>4 DEF Bootstrap, StartCycle, Backup, OpenCopy, WriteCopy, RetryCycle, FailCycle,
              FinishCycle, StartWatch, Restart, vars
<1> QED
  BY <1>1, <1>2, <1>3, <1>4 DEF Next, WorkerStep, RescueStep

(* The persistent snapshot is whole at every instant, wherever a copy, a   *)
(* worker or the container is interrupted.                                 *)
THEOREM SnapshotIsAlwaysWhole == Spec => SnapshotStaysWhole
<1>1. ASSUME CopiesInv, [Next]_vars
      PROVE  snapshot # Absent => snapshot' \in 0..commits
  <2>1. snapshot # Absent => snapshot \in 0..commits
    BY <1>1 DEF CopiesInv, CopiesAreFresh, Fresh
  <2> QED
    BY <1>1, <2>1, SnapshotStep DEF Fresh
<1> QED
  BY <1>1, CopiesInvHolds, PTL DEF Spec, SnapshotStaysWhole

(* _checkpoint_persistent never reports success without having put the     *)
(* caller's own fill on the volume.                                        *)
THEOREM CheckpointsCoverTheirFill == Spec => CheckpointCoversItsFill
<1>1. ASSUME CopiesInv, [Next]_vars, NEW w \in Workers, acked'[w] # acked[w]
      PROVE  snapshot' >= acked'[w]
  <2>1. CASE \E v \in Workers : ReplaceCheckpoint(v)
    <3>1. PICK v \in Workers : ReplaceCheckpoint(v)
      BY <2>1
    <3>2. /\ acked \in [Workers -> Nat]
          /\ worker[v].fill \in Nat
          /\ tmp[v] # Absent => worker[v].fill <= tmp[v] /\ tmp[v] \in Int
      BY <1>1, <3>1 DEF CopiesInv, TypeOK, StateOK, FillIsCopied, CopiesAreFresh, Fresh,
                        ReplaceCheckpoint
    <3>3. tmp[v] # Absent /\ snapshot' = tmp[v] /\ acked' = [acked EXCEPT ![v] = worker[v].fill]
      BY <1>1, <3>1 DEF ReplaceCheckpoint
    <3>4. v = w /\ acked'[w] = worker[v].fill
      BY <1>1, <3>2, <3>3
    <3> QED
      BY <3>2, <3>3, <3>4
  <2>2. CASE ~ \E v \in Workers : ReplaceCheckpoint(v)
    <3>1. acked' = acked
      BY <1>1, <2>2 DEF Next, WorkerStep, RescueStep, CommitFill, CommitOther, OpenCheckpoint,
           CopyCheckpoint, FailCheckpoint, KillWorker, Bootstrap, StartCycle, Backup, OpenCopy,
           WriteCopy, ReplaceCopy, RetryCycle, FailCycle, FinishCycle, StartWatch, Restart, vars,
           workerVars, OnlyRescue
    <3> QED
      BY <1>1, <3>1
  <2> QED
    BY <2>1, <2>2
<1>2. CopiesInv /\ [Next]_vars
        => \A w \in Workers : acked'[w] # acked[w] => snapshot' >= acked'[w]
  BY <1>1
<1> QED
  BY <1>2, CopiesInvHolds, PTL DEF Spec, CheckpointCoversItsFill
=============================================================================
