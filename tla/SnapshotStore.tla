---------------------------- MODULE SnapshotStore ----------------------------
(***************************************************************************)
(* How simulation_lab.sqlite3 outlives a container.  The runtime database  *)
(* is on a file system that is lost with the container; the persistent     *)
(* volume holds one snapshot of it.  Two kinds of process write that       *)
(* snapshot, each through a staging file of its own: the workers, right    *)
(* after each fill (SimulationDB._checkpoint_persistent), and              *)
(* storage_rescue.py, cycle after cycle (snapshot_all, persist_one).  The  *)
(* rescue also purges the staging files it finds in the directory, and on  *)
(* a fresh container restores the runtime database (bootstrap_runtime).    *)
(*                                                                         *)
(* The content of a database file is the number of the last commit in it:  *)
(* 0 is the original copy in the root of the volume, which nobody writes.  *)
(* Sizes are counted in copies of the database.                            *)
(***************************************************************************)
EXTENDS Integers, FiniteSets

CONSTANTS
  Workers,       \* the processes that commit fills and checkpoint them
  Room,          \* copies the volume can hold beside the original
  Reserve,       \* PERSISTENCE_RESERVE_BYTES, in copies
  MaxCommits,    \* bound: commits to the runtime database
  MaxFaults,     \* bound: failed steps and killed workers
  MaxRestarts    \* bound: containers lost

ASSUME SnapshotAssumption ==
  /\ IsFiniteSet(Workers)
  /\ Room \in Nat /\ Reserve \in Nat
  /\ MaxCommits \in Nat /\ MaxFaults \in Nat /\ MaxRestarts \in Nat

VARIABLES
  runtime,    \* the runtime database
  commits,    \* how many commits there have been, over all containers
  snapshot,   \* current/simulation_lab.sqlite3
  new,        \* current/simulation_lab.sqlite3.new, of the rescue
  tmp,        \* worker -> its staging file current/.simulation_lab...tmp
  orphans,    \* how many .tmp files no process will ever finish
  worker,     \* worker -> its place in a checkpoint, and the fill it is for
  rescue,     \* the rescue's place in its cycle
  retried,    \* whether the cycle has cleaned up and tried again already
  staged,     \* .snapshot-stage/simulation_lab.sqlite3, on the runtime side
  carried,    \* the snapshot the last container left behind
  up,         \* whether cloud_start.sh has started the workers
  acked,      \* worker -> the last fill whose checkpoint reported success, or 0
  faults, restarts

vars == <<runtime, commits, snapshot, new, tmp, orphans, worker, rescue, retried, staged,
          carried, up, acked, faults, restarts>>

Absent == -1    \* there is no such file
Partial == -2   \* the file has been created but not written to its end
Content == {Absent, Partial} \cup Nat

Idle == [at |-> "idle", fill |-> 0]

FlagsOK == retried \in BOOLEAN /\ up \in BOOLEAN
StateOK ==
  /\ runtime \in IF rescue = "boot" THEN {Absent} ELSE Nat
  /\ {snapshot, new, staged, carried} \subseteq Content
  /\ tmp \in [Workers -> Content]
  /\ worker \in [Workers -> [at : {"idle", "open", "copy", "replace"}, fill : Nat]]
  /\ rescue \in {"boot", "start", "backup", "copy", "write", "replace", "finish", "watch", "sleep"}
  /\ acked \in [Workers -> Nat]
  /\ {commits, orphans, faults, restarts} \subseteq Nat
TypeOK == StateOK /\ FlagsOK

Init ==
  /\ runtime = Absent /\ commits = 0
  /\ snapshot = Absent /\ new = Absent /\ staged = Absent
  /\ tmp = [w \in Workers |-> Absent] /\ orphans = 0
  /\ worker = [w \in Workers |-> Idle]
  /\ rescue = "boot" /\ retried = FALSE
  /\ carried = Absent /\ up = FALSE /\ acked = [w \in Workers |-> 0] /\ faults = 0 /\ restarts = 0

-----------------------------------------------------------------------------
(* An unlinked staging file still takes space while its writer has it open *)
Used ==
  Cardinality({f \in {snapshot} : f # Absent}) + Cardinality({f \in {new} : f # Absent})
  + Cardinality({w \in Workers : worker[w].at = "copy" \/ tmp[w] # Absent}) + orphans

Fault == faults < MaxFaults /\ faults' = faults + 1

workerVars == <<commits, worker, acked>>
rescueVars == <<rescue, retried, staged, new>>
bootVars == <<carried, up, restarts>>

-----------------------------------------------------------------------------
(* The workers. *)

OnlyWorker == UNCHANGED <<rescueVars, bootVars>>

Commit ==
  /\ up /\ commits < MaxCommits
  /\ commits' = commits + 1
  /\ runtime' = commits + 1

(* a BUY, a SELL or an exit is committed; its checkpoint comes next *)
CommitFill(w) ==
  /\ worker[w].at = "idle"
  /\ Commit
  /\ worker' = [worker EXCEPT ![w] = [at |-> "open", fill |-> commits + 1]]
  /\ UNCHANGED <<snapshot, tmp, orphans, acked, faults>> /\ OnlyWorker

(* a decision, a mark, a cursor: no checkpoint *)
CommitOther(w) ==
  /\ worker[w].at = "idle"
  /\ Commit
  /\ UNCHANGED <<worker, snapshot, tmp, orphans, acked, faults>> /\ OnlyWorker

OpenCheckpoint(w) ==
  /\ worker[w].at = "open"
  /\ tmp' = [tmp EXCEPT ![w] = Partial]
  /\ worker' = [worker EXCEPT ![w].at = "copy"]
  /\ UNCHANGED <<runtime, commits, snapshot, orphans, acked, faults>> /\ OnlyWorker

(* Mutant: the source is pinned where it was when the fill before this one *)
(* was checkpointed.                                                       *)
CopyStale(w) ==
  /\ worker[w].at = "copy" /\ Used <= Room
  /\ tmp' = [tmp EXCEPT ![w] = IF @ = Absent THEN Absent ELSE worker[w].fill - 1]
  /\ worker' = [worker EXCEPT ![w].at = "replace"]
  /\ UNCHANGED <<runtime, commits, snapshot, orphans, acked, faults>> /\ OnlyWorker

(* Connection.backup starts over when the source changes under it: what it *)
(* ends with is the database as it is then.  The file may be gone by now.  *)
CopyCheckpoint(w) ==
  /\ worker[w].at = "copy" /\ Used <= Room
  /\ tmp' = [tmp EXCEPT ![w] = IF @ = Absent THEN Absent ELSE runtime]
  /\ worker' = [worker EXCEPT ![w].at = "replace"]
  /\ UNCHANGED <<runtime, commits, snapshot, orphans, acked, faults>> /\ OnlyWorker

(* os.replace fails when the staging file is gone.  The caller looks at    *)
(* the result of the checkpoint in neither case.                           *)
ReplaceCheckpoint(w) ==
  /\ worker[w].at = "replace"
  /\ IF tmp[w] = Absent
     THEN UNCHANGED <<snapshot, acked>>
     ELSE snapshot' = tmp[w] /\ acked' = [acked EXCEPT ![w] = worker[w].fill]
  /\ tmp' = [tmp EXCEPT ![w] = Absent]
  /\ worker' = [worker EXCEPT ![w] = Idle]
  /\ UNCHANGED <<runtime, commits, orphans, faults>> /\ OnlyWorker

(* no space left, a lock that is not released, an I/O error: False *)
FailCheckpoint(w) ==
  /\ \/ worker[w].at = "copy" /\ Used > Room /\ UNCHANGED faults
     \/ worker[w].at # "idle" /\ Fault
  /\ tmp' = [tmp EXCEPT ![w] = Absent]
  /\ worker' = [worker EXCEPT ![w] = Idle]
  /\ UNCHANGED <<runtime, commits, snapshot, orphans, acked>> /\ OnlyWorker

(* The supervisor stops the worker, whose staging file stays behind; the   *)
(* next one names its files after another pid and uuid.                    *)
KillWorker(w) ==
  /\ worker[w].at # "idle" /\ Fault
  /\ orphans' = IF tmp[w] = Absent THEN orphans ELSE orphans + 1
  /\ tmp' = [tmp EXCEPT ![w] = Absent]
  /\ worker' = [worker EXCEPT ![w] = Idle]
  /\ UNCHANGED <<runtime, commits, snapshot, acked>> /\ OnlyWorker

-----------------------------------------------------------------------------
(* The rescue: `snapshot` once while the container starts, then `watch`. *)

OnlyRescue == UNCHANGED <<runtime, workerVars>>

(* Mutant: only the rescue's own staging file is purged. *)
PurgeNew == new' = Absent /\ UNCHANGED <<tmp, orphans>>

(* purge_old_snapshot_copies: every .new and .tmp, whoever it belongs to *)
Purge ==
  /\ new' = Absent
  /\ tmp' = [w \in Workers |-> Absent]
  /\ orphans' = 0

KeepFiles == UNCHANGED <<new, tmp, orphans>>

(* snapshot_all: clean up, then one copy of the database *)
StartCycle ==
  /\ rescue \in {"start", "sleep"}
  /\ Purge
  /\ rescue' = "backup" /\ retried' = FALSE
  /\ UNCHANGED <<snapshot, staged, bootVars, faults>> /\ OnlyRescue

(* sqlite_backup: the source is pinned by BEGIN, whatever is committed      *)
(* while its pages are copied                                              *)
Backup ==
  /\ rescue = "backup"
  /\ staged' = runtime
  /\ rescue' = "copy"
  /\ UNCHANGED <<snapshot, retried, bootVars, faults>> /\ KeepFiles /\ OnlyRescue

(* Mutant: the copy is written in place. *)
OpenInPlace ==
  /\ rescue = "copy" /\ Used + 1 + Reserve <= Room
  /\ snapshot' = Partial /\ new' = Partial
  /\ rescue' = "write"
  /\ UNCHANGED <<tmp, orphans, staged, retried, bootVars, faults>> /\ OnlyRescue

(* persist_one: the check for space comes before the first byte *)
OpenCopy ==
  /\ rescue = "copy" /\ Used + 1 + Reserve <= Room
  /\ new' = Partial
  /\ rescue' = "write"
  /\ UNCHANGED <<snapshot, tmp, orphans, staged, retried, bootVars, faults>> /\ OnlyRescue

WriteCopy ==
  /\ rescue = "write" /\ Used <= Room
  /\ new' = staged
  /\ rescue' = "replace"
  /\ UNCHANGED <<snapshot, tmp, orphans, staged, retried, bootVars, faults>> /\ OnlyRescue

ReplaceCopy ==
  /\ rescue = "replace"
  /\ snapshot' = new
  /\ new' = Absent
  /\ rescue' = "finish"
  /\ UNCHANGED <<tmp, orphans, staged, retried, bootVars, faults>> /\ OnlyRescue

NoSpace ==
  \/ rescue = "copy" /\ Used + 1 + Reserve > Room
  \/ rescue = "write" /\ Used > Room

(* ENOSPC: clean up and try once more, from the backup on *)
RetryCycle ==
  /\ NoSpace /\ ~retried
  /\ Purge
  /\ rescue' = "backup" /\ retried' = TRUE
  /\ UNCHANGED <<snapshot, staged, bootVars, faults>> /\ OnlyRescue

(* ENOSPC again, a time budget exceeded, any other error: the staging file *)
(* is removed and the old snapshot stays                                   *)
FailCycle ==
  /\ \/ NoSpace /\ retried /\ UNCHANGED faults
     \/ rescue \in {"backup", "copy", "write", "replace"} /\ Fault
  /\ new' = Absent
  /\ rescue' = "finish"
  /\ UNCHANGED <<snapshot, tmp, orphans, staged, retried, bootVars>> /\ OnlyRescue

(* After the first cycle cloud_start.sh starts the workers, whether or not *)
(* the cycle succeeded.                                                    *)
FinishCycle ==
  /\ rescue = "finish"
  /\ Purge
  /\ rescue' = (IF up THEN "sleep" ELSE "watch") /\ up' = TRUE
  /\ UNCHANGED <<snapshot, retried, staged, carried, restarts, faults>> /\ OnlyRescue

(* `watch` cleans up once before it waits for its first cycle *)
StartWatch ==
  /\ rescue = "watch"
  /\ Purge
  /\ rescue' = "sleep"
  /\ UNCHANGED <<snapshot, retried, staged, bootVars, faults>> /\ OnlyRescue

-----------------------------------------------------------------------------
(* The container. *)

(* everything on the runtime file system and every process is gone; the    *)
(* volume keeps its files, finished or not                                 *)
Restart ==
  /\ rescue # "boot" /\ restarts < MaxRestarts
  /\ restarts' = restarts + 1
  /\ runtime' = Absent /\ staged' = Absent
  /\ worker' = [w \in Workers |-> Idle]
  /\ orphans' = orphans + Cardinality({w \in Workers : tmp[w] # Absent})
  /\ tmp' = [w \in Workers |-> Absent]
  /\ rescue' = "boot" /\ retried' = FALSE /\ up' = FALSE
  /\ carried' = snapshot
  /\ UNCHANGED <<commits, snapshot, new, acked, faults>>

Healthy(content) == content \notin {Absent, Partial}

(* Mutant: the candidates are compared by the time of their test copies, *)
(* and the original is copied last.                                       *)
BootstrapLastCopied ==
  /\ rescue = "boot"
  /\ Purge
  /\ runtime' = 0
  /\ rescue' = "start"
  /\ UNCHANGED <<workerVars, bootVars, snapshot, retried, staged, faults>>

(* bootstrap_runtime: the newest candidate that passes quick_check, else   *)
(* the original.  The snapshot was written after the original; reading it  *)
(* may fail all the same, and then the container starts from the original. *)
Bootstrap ==
  /\ rescue = "boot"
  /\ Purge
  /\ \/ /\ runtime' = IF Healthy(snapshot) THEN snapshot ELSE 0
        /\ UNCHANGED <<carried, faults>>
     \/ runtime' = 0 /\ carried' = Absent /\ Fault
  /\ rescue' = "start"
  /\ UNCHANGED <<workerVars, snapshot, retried, staged, up, restarts>>

-----------------------------------------------------------------------------
WorkerStep(w) ==
  OpenCheckpoint(w) \/ CopyCheckpoint(w) \/ ReplaceCheckpoint(w) \/ FailCheckpoint(w)
RescueStep ==
  \/ Bootstrap \/ StartCycle \/ Backup \/ OpenCopy \/ WriteCopy \/ ReplaceCopy
  \/ RetryCycle \/ FailCycle \/ FinishCycle \/ StartWatch
Next ==
  \/ \E w \in Workers : CommitFill(w) \/ CommitOther(w) \/ WorkerStep(w) \/ KillWorker(w)
  \/ RescueStep \/ Restart

Spec == Init /\ [][Next]_vars

(* A worker under way goes on and the loop of `watch` has no exit. *)
FairSpec ==
  Spec /\ WF_vars(RescueStep) /\ \A w \in Workers : WF_vars(WorkerStep(w))

-----------------------------------------------------------------------------
(* Once there is a snapshot, there is a whole one of some commit at every  *)
(* instant: no copy under way, kill, purge or lost container leaves the    *)
(* volume with a torn file or none.                                        *)
SnapshotStaysWhole == [][snapshot # Absent => snapshot' \in 0..commits]_vars

(* A checkpoint that reports success has put its own fill on the volume,   *)
(* even if the purge or another writer came in between.                    *)
CheckpointCoversItsFill ==
  [][\A w \in Workers : acked'[w] # acked[w] => snapshot' >= acked'[w]]_vars

(* The snapshot a lost container left behind is never undone: from then    *)
(* on it stays or something newer takes its place, through the bootstrap,  *)
(* the first cycle and old copies in flight, unless reading it failed.     *)
SnapshotCarriedOver == snapshot >= carried

(* What the steps rely on: the strengthening under which the properties    *)
(* above are inductive.  A copy is fresh if nothing the last container     *)
(* left behind is missing from it.                                         *)
Fresh(content) == content \in 0..commits /\ content >= carried

(* every file that is about to become the snapshot holds a fresh copy *)
CopiesAreFresh ==
  /\ (snapshot = Absent /\ carried = Absent) \/ Fresh(snapshot)
  /\ rescue # "boot" => Fresh(runtime)
  /\ rescue \in {"copy", "write", "replace"} => Fresh(staged)
  /\ rescue = "replace" => new = staged
  /\ \A w \in Workers : worker[w].at = "replace" => tmp[w] = Absent \/ Fresh(tmp[w])
(* no worker runs before the container has been restored *)
NoWorkerAtBoot == rescue = "boot" => ~up /\ \A w \in Workers : worker[w].at = "idle"
(* the fill a checkpoint is for is in the source, and in the finished copy *)
FillIsCopied ==
  \A w \in Workers :
    /\ worker[w].at # "idle" => worker[w].fill <= runtime
    /\ worker[w].at = "replace" /\ tmp[w] # Absent => worker[w].fill <= tmp[w]

CopiesInv == TypeOK /\ CopiesAreFresh /\ NoWorkerAtBoot /\ FillIsCopied

(* ARCHITECTURE.md: successful fills "checkpoint ... immediately to the    *)
(* current persistent snapshot": what was checkpointed with success is on  *)
(* the volume.                                                             *)
AckedFillOnVolume == \A w \in Workers : acked[w] # 0 => snapshot >= acked[w]

(* Whatever was lost, left behind or overwritten on the way, the snapshot  *)
(* catches up with the runtime database and stays with it.                 *)
SnapshotCatchesUp == <>[](snapshot = runtime)
=============================================================================
