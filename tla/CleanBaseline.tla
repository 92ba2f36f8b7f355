----------------------------- MODULE CleanBaseline -----------------------------
(***************************************************************************)
(* The clean baseline of every start of the container                      *)
(* (crypto_lite_cleanup.py between the bootstrap and the services of       *)
(* cloud_start.sh): row by row of the databases, each in a transaction of  *)
(* its own, then files, then the marker on the volume that says the        *)
(* evidence has been reset once.  The container may be lost anywhere, a    *)
(* step that raises among it; the script then starts over in a new one.    *)
(*                                                                         *)
(* A row is what the statements of the script tell apart: its table by     *)
(* kind, account, market, when it was written, and for a decision whether  *)
(* a pending order refers to it.  Rows written at 0 are of the time before *)
(* the baseline.  Copies that fail and torn files are in SnapshotStore.    *)
(***************************************************************************)
EXTENDS Integers, FiniteSets

CONSTANTS
  LastMoment,     \* bound: moments
  MaxRecorded,    \* bound: rows the services write
  MaxBaselineLosses       \* bound: containers lost, bootstraps and markers that cannot be read

BaselineAssumption == LastMoment \in Nat \ {0} /\ MaxRecorded \in Nat /\ MaxBaselineLosses \in Nat
ASSUME BaselineAssumption

VARIABLES
  runtime,     \* database -> its rows in the container, or Missing
  current,     \* database -> its snapshot on the volume, or Missing
  root,        \* databases with a copy in the root of the volume: of the time before
  marker,      \* MARKER: its baseline_at, or 0
  job,         \* main's place, first_run, baseline_at, whether the marker could be read
  moment, recorded, troubles

baselineVars == <<runtime, current, root, marker, job, moment, recorded, troubles>>

Critical == {"simulation", "direction", "governance", "quality"}     \* V6_SNAPSHOT_DBS
Cleaned == Critical \cup {"forward", "cache", "realtime"}
Pseudo == {"crypto_short", "crypto_medium", "crypto_long"}

Row(kind, account, market, born, waits) ==
  [kind |-> kind, account |-> account, market |-> market, born |-> born, waits |-> waits]

(* what stands for the rows of a database that is not there *)
Missing == {Row("none", "none", "none", 0, "no")}
MasterAccount == Row("account", "crypto", "crypto", 0, "no")

(* what the root of the volume holds of the time before *)
Before(db) ==
  IF db = "simulation"
  THEN {Row(k, x[1], x[2], 0, "no") :
          k \in {"account", "ledger", "asset", "model", "state", "decision"},
          x \in {<<"stock_short", "stock">>, <<"crypto_short", "crypto">>}}
       \cup {Row("decision", "crypto_short", "crypto", 0, "yes"), Row("ledger", "crypto", "crypto", 0, "no")}
  ELSE {Row("evidence", "none", m, 0, "no") : m \in {"stock", "crypto"}}

(* What a service writes: a decision bears the account of its horizon.      *)
Written(db, born) ==
  IF db = "simulation"
  THEN {Row("decision", "crypto_short", "crypto", born, w) : w \in {"no", "yes"}}
       \cup {Row("ledger", "crypto", "crypto", born, "no")}
  ELSE {Row("evidence", "none", "crypto", born, "no")}

Start == [at |-> "boot", first |-> "no", baseline |-> 0, read |-> "well"]

BaselineInit ==
  /\ runtime = [db \in Cleaned |-> Missing]
  /\ current = [db \in Critical |-> Missing]
  /\ root = Cleaned
  /\ marker = 0 /\ job = Start /\ moment = 1 /\ recorded = 0 /\ troubles = 0

-----------------------------------------------------------------------------
(* bootstrap_runtime: the snapshot, which is newer, or the original        *)
Bootstrap ==
  /\ job.at = "boot"
  /\ runtime' = [db \in Cleaned |->
       IF db \notin Critical THEN Missing
       ELSE IF current[db] # Missing THEN current[db]
       ELSE IF db \in root THEN Before(db) ELSE Missing]
  /\ job' = [job EXCEPT !.at = "main"]
  /\ UNCHANGED <<current, root, marker, moment, recorded, troubles>>

(* it failed half way: the shell copies the originals over whatever it had *)
(* restored, and the rest stays as it is                                   *)
FallBack ==
  /\ job.at = "boot" /\ troubles < MaxBaselineLosses
  /\ \E restored \in SUBSET Critical :
       runtime' = [db \in Cleaned |-> IF db \in root THEN Before(db)
                                     ELSE IF db \in restored THEN current[db] ELSE Missing]
  /\ job' = [job EXCEPT !.at = "main"]
  /\ troubles' = troubles + 1
  /\ UNCHANGED <<current, root, marker, moment, recorded>>

ReadMarker ==
  /\ job.at = "main"
  /\ \/ /\ job' = [at |-> "simulation", first |-> IF marker = 0 THEN "yes" ELSE "no",
                   baseline |-> IF marker = 0 THEN moment ELSE marker, read |-> "well"]
        /\ UNCHANGED troubles
     \/ /\ marker # 0 /\ troubles < MaxBaselineLosses
        /\ job' = [at |-> "simulation", first |-> "no", baseline |-> moment, read |-> "failed"]
        /\ troubles' = troubles + 1
  /\ UNCHANGED <<runtime, current, root, marker, moment, recorded>>

-----------------------------------------------------------------------------
(* The rows a transaction leaves in a database *)

KeepsSimulation(r) ==
  \/ r.kind \in {"account", "ledger"} /\ r.account = "crypto"
  \/ r.kind \in {"asset", "model"} /\ r.market = "crypto"
  \/ /\ r.kind = "decision" /\ r.market = "crypto"
     /\ r.account = "crypto" \/ r.born >= job.baseline \/ r.waits = "yes"
  \/ r.kind = "state" /\ r.account \in Pseudo

CleanSimulation ==
  /\ job.at = "simulation"
  /\ runtime' = [runtime EXCEPT !["simulation"] =
       IF @ = Missing THEN @ ELSE {r \in @ \cup {MasterAccount} : KeepsSimulation(r)}]
  /\ job' = [job EXCEPT !.at = "forward"]
  /\ UNCHANGED <<current, root, marker, moment, recorded, troubles>>

(* direction predictions from before the baseline go every time; forward   *)
(* candidates, governance, quality and realtime rows only the first time   *)
Keeps(db, r) ==
  CASE db = "cache" -> r.market = "crypto"
    [] db = "direction" -> r.market = "crypto" /\ r.born >= job.baseline
    [] db \in {"forward", "governance", "quality", "realtime"} -> job.first = "no" /\ r.market = "crypto"

Following ==
  [forward |-> "cache", cache |-> "direction", direction |-> "governance",
   governance |-> "quality", quality |-> "realtime", realtime |-> "files"]

CleanEvidence(db) ==
  /\ job.at = db /\ db \in DOMAIN Following
  /\ runtime' = [runtime EXCEPT ![db] = IF @ = Missing THEN @ ELSE {r \in @ : Keeps(db, r)}]
  /\ job' = [job EXCEPT !.at = Following[db]]
  /\ UNCHANGED <<current, root, marker, moment, recorded, troubles>>

(* The rebuildable caches go everywhere, the originals once a snapshot has  *)
(* taken their place.                                                      *)
RemoveObsoleteFiles ==
  /\ job.at = "files"
  /\ runtime' = [runtime EXCEPT !["cache"] = Missing, !["realtime"] = Missing]
  /\ root' = root \ ({"cache", "realtime", "forward"}
                     \cup {db \in {"simulation", "governance", "quality"} : current[db] # Missing})
  /\ job' = [job EXCEPT !.at = "marker"]
  /\ UNCHANGED <<current, marker, moment, recorded, troubles>>

KeepNoMarker ==
  /\ job.at = "marker"
  /\ job' = [job EXCEPT !.at = "snapshot"]
  /\ UNCHANGED <<runtime, current, root, marker, moment, recorded, troubles>>

WriteMarker ==
  /\ job.at = "marker"
  /\ marker' = IF job.first = "yes" THEN job.baseline ELSE marker
  /\ job' = [job EXCEPT !.at = "snapshot"]
  /\ UNCHANGED <<runtime, current, root, moment, recorded, troubles>>

-----------------------------------------------------------------------------
(* The snapshot after the script, of which any part may fail, and those    *)
(* that the watch takes later.                                             *)
CopyDatabase(db) ==
  /\ job.at \in {"snapshot", "up"} /\ runtime[db] # Missing
  /\ current' = [current EXCEPT ![db] = runtime[db]]
  /\ UNCHANGED <<runtime, root, marker, job, moment, recorded, troubles>>

StartServices ==
  /\ job.at = "snapshot"
  /\ job' = [job EXCEPT !.at = "up"]
  /\ UNCHANGED <<runtime, current, root, marker, moment, recorded, troubles>>

(* a service opens a database, which creates it, and adds a row *)
Record(db) ==
  /\ job.at = "up" /\ recorded < MaxRecorded
  /\ \E r \in Written(db, moment) :
       runtime' = [runtime EXCEPT ![db] = IF @ = Missing THEN {r} ELSE @ \cup {r}]
  /\ recorded' = recorded + 1
  /\ UNCHANGED <<current, root, marker, job, moment, troubles>>

MomentPasses ==
  /\ moment < LastMoment
  /\ moment' = moment + 1
  /\ UNCHANGED <<runtime, current, root, marker, job, recorded, troubles>>

LoseContainer ==
  /\ job.at # "boot" /\ troubles < MaxBaselineLosses
  /\ runtime' = [db \in Cleaned |-> Missing]
  /\ job' = Start
  /\ troubles' = troubles + 1
  /\ UNCHANGED <<current, root, marker, moment, recorded>>

BaselineNext ==
  \/ Bootstrap \/ FallBack \/ ReadMarker \/ CleanSimulation
  \/ \E db \in Cleaned \ {"simulation"} : CleanEvidence(db)
  \/ RemoveObsoleteFiles \/ WriteMarker \/ StartServices \/ MomentPasses \/ LoseContainer
  \/ \E db \in Critical : CopyDatabase(db) \/ Record(db)

BaselineSpec == BaselineInit /\ [][BaselineNext]_baselineVars

-----------------------------------------------------------------------------
(* A start never takes away what the services wrote since the baseline:    *)
(* the reset is done once, although it is done before the marker and a     *)
(* container may be lost in between, and a pending order keeps the         *)
(* decision it is to be filled by, whoever wrote it (main: first_run and   *)
(* baseline_at; a marker that exists but cannot be read is excepted).      *)
EvidenceSurvivesCleanup ==
  [][\A db \in Critical : job.at = db /\ job'.at # "boot" /\ runtime[db] # Missing =>
       \A r \in runtime[db] :
         r.market = "crypto" /\ ((r.born > 0 /\ job.read = "well") \/ r.waits = "yes")
           => r \in runtime'[db]]_baselineVars
=============================================================================
