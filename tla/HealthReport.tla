----------------------------- MODULE HealthReport -----------------------------
(***************************************************************************)
(* What runtime_health_exporter.py publishes of processes it shares only   *)
(* files with: the main worker (live_worker_v8.py), the direction worker,  *)
(* the backup of its ledger (storage_rescue.py), and the exporter of the   *)
(* storage status (storage_status_exporter.py).  A loop may hang while its *)
(* heartbeat thread goes on, and a file outlives its writer.               *)
(*                                                                         *)
(* The parts share no file but those the exporter reads, so that one of    *)
(* them is looked at while the others are well: focus says which.  Ages    *)
(* are of a time stamp in a file, up to Old, which is beyond every limit.  *)
(* The exporter reads all files within one unit of time.  The crypto V2    *)
(* and research parts are disabled for the single crypto account.          *)
(***************************************************************************)
EXTENDS Integers

CONSTANTS
  HeartbeatMax,     \* MAIN_HEARTBEAT_MAX_AGE
  CompletedMax,     \* MAIN_COMPLETED_MAX_AGE
  RunningMax,       \* MAIN_RUNNING_MAX_AGE, NO_PROGRESS_TIMEOUT_SECONDS
  CycleCeiling,     \* CYCLE_HARD_LIMIT_SECONDS
  DirectionMax,     \* DIRECTION_MAX_CYCLE_AGE, DIRECTION_MAX_COMPLETED_AGE, DIRECTION_BACKUP_MAX_AGE
  ExportMax,        \* STORAGE_EXPORT_MAX_AGE
  Old,
  MaxPredictions    \* bound: rows of the direction ledger

HealthAssumption ==
  /\ {HeartbeatMax, CompletedMax, RunningMax, CycleCeiling, DirectionMax, ExportMax} \subseteq 0..(Old - 1)
  /\ Old \in Nat /\ MaxPredictions \in Nat
  /\ CompletedMax <= RunningMax
ASSUME HealthAssumption

VARIABLES
  focus,
  main,         \* worker_status.json
  shadow,       \* direction_shadow_worker_status.json
  ledger,       \* rows of the direction ledger, and of its snapshot on the volume
  backup,       \* direction_forward_backup_status.json, and where the backup is
  storage,      \* the rescue's persistence_status, and the public copy of it
  exporter,     \* where build_snapshot is and what it has read
  report        \* overall_status of runtime_health.json

healthVars == <<focus, main, shadow, ledger, backup, storage, exporter, report>>

Grows(age) == IF age < Old THEN age + 1 ELSE Old

(* last: how the last cycle ended; a scan that failed for some pairs only  *)
(* leaves data_quality PARTIAL                                             *)
FreshMain == [status |-> "STARTING", beat |-> 0, since |-> 0, progress |-> 0, last |-> "none"]
FreshDirection == [status |-> "STARTING", beat |-> 0, since |-> Old, rows |-> 0, errors |-> "no"]
WellMain == [FreshMain EXCEPT !.status = "ONLINE", !.last = "fine"]
WellDirection == [FreshDirection EXCEPT !.status = "ONLINE", !.since = 0, !.rows = 1]
WellBackup == [at |-> "sleep", age |-> 0, success |-> "yes", rows |-> 1]
NoBackup == [at |-> "sleep", age |-> Old, success |-> "no", rows |-> 0]
Reading == [at |-> "sleep", main |-> "ERROR", storage |-> "well", rows |-> 0, reasons |-> {}]

HealthInit ==
  /\ focus \in {"main", "direction", "storage"}
  /\ main = IF focus = "main" THEN FreshMain ELSE WellMain
  /\ shadow = IF focus = "direction" THEN FreshDirection ELSE WellDirection
  /\ ledger = IF focus = "direction" THEN [rows |-> 0, volume |-> 0] ELSE [rows |-> 1, volume |-> 1]
  /\ backup = IF focus = "direction" THEN NoBackup ELSE WellBackup
  /\ storage = [persistence |-> "OK", public |-> "OK", age |-> 0]
  /\ exporter = Reading /\ report = "none"

OnlyMain == UNCHANGED <<focus, shadow, ledger, backup, storage, exporter, report>>
OnlyDirection == UNCHANGED <<focus, main, storage, exporter, report>>
OnlyStorage == UNCHANGED <<focus, main, shadow, ledger, backup, exporter, report>>
OnlyExporter == UNCHANGED <<focus, main, shadow, ledger, backup, storage>>

-----------------------------------------------------------------------------
(* The main worker.  Every write of the file renews its heartbeat.         *)

MainBeats ==
  /\ focus = "main" /\ main' = [main EXCEPT !.beat = 0] /\ OnlyMain

MainBegins ==
  /\ focus = "main" /\ main.status # "RUNNING"
  /\ main' = [main EXCEPT !.status = "RUNNING", !.beat = 0, !.since = 0, !.progress = 0]
  /\ OnlyMain

MainReportsProgress ==
  /\ focus = "main" /\ main.status = "RUNNING"
  /\ main' = [main EXCEPT !.beat = 0, !.progress = 0]
  /\ OnlyMain

(* after the watchlist, the risk snapshots and the quality scan; "raised"  *)
(* is the cycle that did not get there                                     *)
MainEnds(how) ==
  /\ focus = "main" /\ main.status = "RUNNING"
  /\ main' = [main EXCEPT !.beat = 0, !.since = 0, !.progress = 0, !.last = how,
              !.status = CASE how = "fine" -> "ONLINE"
                           [] how \in {"scan", "errors"} -> "DEGRADED"
                           [] how = "raised" -> "ERROR"]
  /\ OnlyMain

MainReplaced == focus = "main" /\ main' = FreshMain /\ OnlyMain

-----------------------------------------------------------------------------
(* The direction worker and the backup of its ledger *)

DirectionBeats ==
  /\ focus = "direction" /\ shadow' = [shadow EXCEPT !.beat = 0]
  /\ UNCHANGED <<ledger, backup>> /\ OnlyDirection

DirectionBegins ==
  /\ focus = "direction" /\ shadow.status # "RUNNING"
  /\ shadow' = [shadow EXCEPT !.status = "RUNNING", !.beat = 0, !.since = 0]
  /\ UNCHANGED <<ledger, backup>> /\ OnlyDirection

RegisterPrediction ==
  /\ focus = "direction" /\ shadow.status = "RUNNING" /\ ledger.rows < MaxPredictions
  /\ ledger' = [ledger EXCEPT !.rows = @ + 1]
  /\ UNCHANGED <<shadow, backup>> /\ OnlyDirection

(* errors stands for no candidates too *)
DirectionEnds(errors) ==
  /\ focus = "direction" /\ shadow.status = "RUNNING"
  /\ shadow' = [status |-> IF errors = "no" /\ ledger.rows > 0 THEN "ONLINE" ELSE "DEGRADED",
                   beat |-> 0, since |-> 0, rows |-> ledger.rows, errors |-> errors]
  /\ UNCHANGED <<ledger, backup>> /\ OnlyDirection

DirectionRaises ==
  /\ focus = "direction" /\ shadow.status = "RUNNING"
  /\ shadow' = [shadow EXCEPT !.status = "ERROR", !.beat = 0, !.since = 0, !.errors = "yes"]
  /\ UNCHANGED <<ledger, backup>> /\ OnlyDirection

DirectionReplaced ==
  /\ focus = "direction" /\ shadow' = FreshDirection
  /\ UNCHANGED <<ledger, backup>> /\ OnlyDirection

(* persist_one: the copy is of a read snapshot of the ledger; its rows are *)
(* counted in the file that is now on the volume                           *)
CopyLedger ==
  /\ focus = "direction" /\ backup.at = "sleep"
  /\ ledger' = [ledger EXCEPT !.volume = ledger.rows]
  /\ backup' = [backup EXCEPT !.at = "count"]
  /\ UNCHANGED shadow /\ OnlyDirection

WriteBackupStatus ==
  /\ focus = "direction" /\ backup.at = "count"
  /\ backup' = [at |-> "sleep", age |-> 0, success |-> "yes", rows |-> ledger.volume]
  /\ UNCHANGED <<shadow, ledger>> /\ OnlyDirection

BackupFails ==
  /\ focus = "direction"
  /\ backup' = [at |-> "sleep", age |-> 0, success |-> "no", rows |-> 0]
  /\ UNCHANGED <<shadow, ledger>> /\ OnlyDirection

-----------------------------------------------------------------------------
(* snapshot_all tells how many of its copies failed; export_once passes it *)
(* on, and its own time of writing with it                                 *)
RescueEnds(result) ==
  /\ focus = "storage"
  /\ storage' = [storage EXCEPT !.persistence = result]
  /\ OnlyStorage

ExportStorage ==
  /\ focus = "storage"
  /\ storage' = [storage EXCEPT !.public = storage.persistence, !.age = 0]
  /\ OnlyStorage

-----------------------------------------------------------------------------
(* The exporter *)

MainBeating(m) == m.beat <= HeartbeatMax

BeatingIsEnough(m) ==
  \/ m.status = "RUNNING" /\ m.since <= CycleCeiling
  \/ m.status = "STARTING" /\ m.since <= RunningMax
  \/ m.status \in {"ONLINE", "DEGRADED"} /\ m.since <= CompletedMax

(* running_progress_problem, and the limits of the other states *)
MainActive(m) ==
  \/ m.status = "RUNNING" /\ m.since <= CycleCeiling /\ m.progress <= RunningMax
  \/ m.status = "STARTING" /\ m.since <= RunningMax
  \/ m.status \in {"ONLINE", "DEGRADED"} /\ m.since <= CompletedMax

MainHealth(m) ==
  IF ~(MainBeating(m) /\ MainActive(m)) THEN "ERROR"
  ELSE IF m.status = "DEGRADED" \/ m.last \in {"errors", "raised"} THEN "DEGRADED"
  ELSE IF m.last = "none" THEN "STARTING" ELSE "HEALTHY"

DirectionReasons ==
  {r \in {"heartbeat", "cycle", "status", "empty", "errors"} :
     CASE r = "heartbeat" -> shadow.beat > HeartbeatMax
       [] r = "cycle" -> shadow.since > DirectionMax
       [] r = "status" -> shadow.status \notin {"ONLINE", "RUNNING"}
       [] r = "empty" -> shadow.rows = 0
       [] r = "errors" -> shadow.errors = "yes"}

BackupReasons(rows) ==
  IF backup.success = "no" \/ backup.age > DirectionMax THEN {"backup"}
  ELSE IF backup.rows < rows THEN {"behind"} ELSE {}

StorageHealth ==
  IF storage.age <= ExportMax /\ storage.public # "ERROR" THEN "well" ELSE "ill"

(* build_snapshot, file after file *)
ReadMain ==
  /\ exporter.at = "sleep"
  /\ exporter' = [Reading EXCEPT !.at = "storage", !.main = MainHealth(main)]
  /\ UNCHANGED report /\ OnlyExporter

ReadStorage ==
  /\ exporter.at = "storage"
  /\ exporter' = [exporter EXCEPT !.at = "direction", !.storage = StorageHealth]
  /\ UNCHANGED report /\ OnlyExporter

ReadDirection ==
  /\ exporter.at = "direction"
  /\ exporter' = [exporter EXCEPT !.at = "backup", !.rows = shadow.rows, !.reasons = DirectionReasons]
  /\ UNCHANGED report /\ OnlyExporter

ReadBackup ==
  /\ exporter.at = "backup"
  /\ exporter' = [exporter EXCEPT !.at = "publish", !.reasons = @ \cup BackupReasons(exporter.rows)]
  /\ UNCHANGED report /\ OnlyExporter

Overall ==
  IF exporter.main = "ERROR" THEN "ERROR"
  ELSE IF exporter.main = "DEGRADED" \/ exporter.storage = "ill" \/ exporter.reasons # {} THEN "DEGRADED"
  ELSE exporter.main

Publish ==
  /\ exporter.at = "publish"
  /\ report' = Overall
  /\ exporter' = Reading
  /\ OnlyExporter

TimePasses ==
  /\ exporter.at = "sleep"
  /\ main' = IF focus = "main"
             THEN [main EXCEPT !.beat = Grows(@), !.since = Grows(@), !.progress = Grows(@)] ELSE main
  /\ storage' = IF focus = "storage" THEN [storage EXCEPT !.age = Grows(@)] ELSE storage
  /\ shadow' = IF focus = "direction"
               THEN [shadow EXCEPT !.beat = Grows(@), !.since = Grows(@)] ELSE shadow
  /\ backup' = IF focus = "direction" THEN [backup EXCEPT !.age = Grows(@)] ELSE backup
  /\ UNCHANGED <<focus, ledger, exporter, report>>

HealthNext ==
  \/ MainBeats \/ MainBegins \/ MainReportsProgress \/ MainReplaced
  \/ \E how \in {"fine", "scan", "errors", "raised"} : MainEnds(how)
  \/ DirectionBeats \/ DirectionBegins \/ RegisterPrediction \/ DirectionRaises \/ DirectionReplaced
  \/ \E errors \in {"no", "yes"} : DirectionEnds(errors)
  \/ CopyLedger \/ WriteBackupStatus \/ BackupFails
  \/ \E result \in {"OK", "PARTIAL", "ERROR"} : RescueEnds(result)
  \/ ExportStorage
  \/ ReadMain \/ ReadStorage \/ ReadDirection \/ ReadBackup \/ Publish
  \/ TimePasses

HealthSpec == HealthInit /\ [][HealthNext]_healthVars
-----------------------------------------------------------------------------
(* HEALTHY is true of the processes and not only of their files: the main  *)
(* loop has got on within its limit, however fresh the heartbeat of a hung *)
(* one; the storage exporter writes; and what the direction worker says it *)
(* has registered is on the volume, although its file and that of the      *)
(* backup are read one after the other (_main_health, _storage_health,     *)
(* _direction_health, build_snapshot).                                     *)
HealthyIsTrue ==
  [][exporter.at = "publish" /\ exporter'.at = "sleep" /\ report' = "HEALTHY" =>
       /\ main.progress <= RunningMax /\ storage.age <= ExportMax
       /\ ledger.volume >= exporter.rows]_healthVars
=============================================================================
