------------------------------ MODULE RuntimeProofs ------------------------------
(***************************************************************************)
(* Three guarantees of a running container, for any coins, limits, ages    *)
(* and numbers of losses: what is held is looked after (Universe), the     *)
(* evidence since the clean baseline outlives every later start            *)
(* (CleanBaseline), and HEALTHY is published of healthy processes only     *)
(* (HealthReport).                                                         *)
(***************************************************************************)
EXTENDS CleanBaseline, Universe, HealthReport, Sidecar, RealtimeFeed, TLAPS

-----------------------------------------------------------------------------
(* Universe: between the read of the positions and the transaction that    *)
(* marks symbols inactive nothing is bought, and between the read of the   *)
(* arenas and the write of the file none is registered.                    *)

LabRecords == [active : SUBSET Coins, inactive : SUBSET Coins, positions : SUBSET Coins,
               orders : SUBSET Coins]
CyclePlaces == {"idle", "universe", "sync", "write", "calibrate", "simulate", "governance"}
Cycles == [at : CyclePlaces, since : Int, pinned : SUBSET Coins, selected : SUBSET Coins,
           held : SUBSET Coins]

UniverseTypeOK ==
  /\ lab \in LabRecords /\ arenas \in SUBSET Coins /\ universe \in Int
  /\ cycle \in Cycles /\ copies \in [lab : LabRecords, arenas : SUBSET Coins]
  /\ hour \in Int

ReadsStayTrue ==
  /\ cycle.at = "sync" => lab.positions \subseteq cycle.held
  /\ cycle.at \in {"universe", "sync"} => arenas \subseteq cycle.pinned
  /\ cycle.at = "write" => arenas \subseteq lab.active

CopiesAreConsistent == copies.lab.positions \subseteq copies.lab.active

UniverseInv == UniverseTypeOK /\ ReadsStayTrue /\ CopiesAreConsistent /\ WatchedAreActive

LEMMA UniverseInvInit == UniverseInit => UniverseInv
<1> SUFFICES ASSUME UniverseInit PROVE UniverseInv
  OBVIOUS
<1> USE DEF UniverseInit, NoCycle, Never
<1>1. lab = [active |-> {}, inactive |-> {}, positions |-> {}, orders |-> {}]
      /\ copies = [lab |-> lab, arenas |-> {}] /\ arenas = {} /\ universe = -1 /\ hour = 0
  OBVIOUS
<1>2. lab \in LabRecords
  BY <1>1 DEF LabRecords
<1>3. UniverseTypeOK
  BY <1>1, <1>2 DEF UniverseTypeOK, Cycles, CyclePlaces
<1>4. ReadsStayTrue /\ CopiesAreConsistent /\ WatchedAreActive
  BY <1>1 DEF ReadsStayTrue, CopiesAreConsistent, WatchedAreActive
<1> QED
  BY <1>3, <1>4 DEF UniverseInv

(* the cycle goes on with what it has read, and writes no database *)
LEMMA CycleMoves ==
  ASSUME UniverseInv, cycle' \in Cycles, UNCHANGED <<lab, arenas, universe>>,
         copies' = copies, hour' \in Int,
         ReadsStayTrue'
  PROVE  UniverseInv'
BY DEF UniverseInv, UniverseTypeOK, CopiesAreConsistent, WatchedAreActive

(* a position or a pending order goes, or comes of a symbol that is ACTIVE *)
LEMMA LabMoves ==
  ASSUME UniverseInv, lab' \in LabRecords, lab'.active = lab.active,
         \/ lab'.positions \subseteq lab.positions
         \/ cycle.at = "simulate" /\ lab'.positions \subseteq lab.active,
         UNCHANGED <<arenas, universe, cycle, copies, hour>>
  PROVE  UniverseInv'
<1> USE DEF UniverseInv
<1>1. UniverseTypeOK'
  BY DEF UniverseTypeOK
<1>2. ReadsStayTrue'
  BY DEF ReadsStayTrue
<1>3. CopiesAreConsistent' /\ WatchedAreActive'
  BY DEF CopiesAreConsistent, WatchedAreActive
<1> QED
  BY <1>1, <1>2, <1>3

LEMMA UniverseInvNext == UniverseInv /\ [UniverseNext]_universeVars => UniverseInv'
<1> SUFFICES ASSUME UniverseInv, [UniverseNext]_universeVars PROVE UniverseInv'
  OBVIOUS
<1> USE DEF UniverseInv
<1>t. /\ lab \in LabRecords /\ arenas \in SUBSET Coins /\ universe \in Int
      /\ cycle \in Cycles /\ copies \in [lab : LabRecords, arenas : SUBSET Coins] /\ hour \in Int
  BY DEF UniverseTypeOK
<1>p. /\ lab.active \in SUBSET Coins /\ lab.positions \in SUBSET Coins /\ lab.orders \in SUBSET Coins
      /\ lab.inactive \in SUBSET Coins
      /\ cycle.selected \in SUBSET Coins /\ cycle.pinned \in SUBSET Coins
      /\ cycle.held \in SUBSET Coins /\ cycle.since \in Int
  BY <1>t DEF LabRecords, Cycles
<1>n. NoCycle \in Cycles /\ NoCycle.at = "idle"
  BY DEF NoCycle, Cycles, CyclePlaces
<1>1. CASE BeginCycle
  <2>1. /\ cycle' = [at |-> "universe", since |-> hour, pinned |-> arenas, selected |-> {}, held |-> {}]
        /\ UNCHANGED <<lab, arenas, universe, copies, hour>>
    BY <1>1 DEF BeginCycle, NoCycle
  <2>2. cycle' \in Cycles /\ ReadsStayTrue'
    BY <2>1, <1>t DEF Cycles, CyclePlaces, ReadsStayTrue
  <2> QED
    BY <2>1, <2>2, <1>t, CycleMoves
<1>2. CASE SkipRefresh \/ RefreshFails
  <2>1. /\ cycle' = [cycle EXCEPT !.at = "calibrate"]
        /\ UNCHANGED <<lab, arenas, universe, copies, hour>>
    BY <1>2 DEF SkipRefresh, RefreshFails
  <2>2. cycle' \in Cycles /\ cycle'.at = "calibrate"
    BY <2>1, <1>t DEF Cycles, CyclePlaces
  <2>3. ReadsStayTrue'
    BY <2>2 DEF ReadsStayTrue
  <2> QED
    BY <2>1, <2>2, <2>3, <1>t, CycleMoves
<1>3. ASSUME NEW S \in SUBSET Coins, DiscoverCoins(S) PROVE UniverseInv'
  <2>1. /\ cycle' = [at |-> "sync", since |-> cycle.since, pinned |-> cycle.pinned,
                     selected |-> S, held |-> lab.positions]
        /\ cycle.at = "universe" /\ UNCHANGED <<lab, arenas, universe, copies, hour>>
    BY <1>3, <1>t DEF DiscoverCoins, Cycles
  <2>2. cycle' \in Cycles
    BY <2>1, <1>p DEF Cycles, CyclePlaces
  <2>3. ReadsStayTrue'
    BY <2>1 DEF ReadsStayTrue
  <2> QED
    BY <2>1, <2>2, <2>3, <1>t, CycleMoves
<1>4. CASE SyncMarket
  <2>1. /\ lab' = [active |-> Keep, inactive |-> (lab.inactive \cup lab.active) \ Keep,
                   positions |-> lab.positions, orders |-> lab.orders]
        /\ cycle' = [cycle EXCEPT !.at = "write"] /\ cycle.at = "sync"
        /\ UNCHANGED <<arenas, universe, copies, hour>>
    BY <1>4, <1>t DEF SyncMarket, LabRecords
  <2>2. Keep \in SUBSET Coins /\ lab.positions \subseteq Keep /\ arenas \subseteq Keep
    BY <1>p, <2>1 DEF Keep, ReadsStayTrue
  <2>3. lab' \in LabRecords /\ cycle' \in Cycles /\ cycle'.at = "write"
    BY <2>1, <2>2, <1>p, <1>t DEF LabRecords, Cycles, CyclePlaces
  <2>4. UniverseTypeOK'
    BY <2>1, <2>3, <1>t DEF UniverseTypeOK
  <2>5. ReadsStayTrue' /\ CopiesAreConsistent' /\ WatchedAreActive'
    BY <2>1, <2>2, <2>3 DEF ReadsStayTrue, CopiesAreConsistent, WatchedAreActive
  <2> QED
    BY <2>4, <2>5
<1>5. CASE WriteState
  <2>1. /\ universe' = cycle.since /\ cycle' = [cycle EXCEPT !.at = "calibrate"] /\ cycle.at = "write"
        /\ UNCHANGED <<lab, arenas, copies, hour>>
    BY <1>5 DEF WriteState
  <2>2. cycle' \in Cycles /\ cycle'.at = "calibrate"
    BY <2>1, <1>t DEF Cycles, CyclePlaces
  <2>3. UniverseTypeOK'
    BY <2>1, <2>2, <1>t, <1>p DEF UniverseTypeOK
  <2>4. ReadsStayTrue' /\ CopiesAreConsistent' /\ WatchedAreActive'
    BY <2>1, <2>2 DEF ReadsStayTrue, CopiesAreConsistent, WatchedAreActive
  <2> QED
    BY <2>3, <2>4
<1>6. ASSUME NEW s \in Coins, RegisterArena(s) PROVE UniverseInv'
  <2>1. arenas' = arenas \cup {s} /\ s \in lab.active /\ cycle.at = "calibrate"
        /\ UNCHANGED <<lab, universe, cycle, copies, hour>>
    BY <1>6 DEF RegisterArena
  <2>2. UniverseTypeOK'
    BY <2>1, <1>t DEF UniverseTypeOK
  <2>3. ReadsStayTrue' /\ CopiesAreConsistent' /\ WatchedAreActive'
    BY <2>1 DEF ReadsStayTrue, CopiesAreConsistent, WatchedAreActive
  <2> QED
    BY <2>2, <2>3
<1>7. CASE BeginSimulation \/ BeginGovernance
  <2>1. PICK place \in {"simulate", "governance"} :
          /\ cycle' = [cycle EXCEPT !.at = place]
          /\ UNCHANGED <<lab, arenas, universe, copies, hour>>
    BY <1>7 DEF BeginSimulation, BeginGovernance
  <2>2. cycle' \in Cycles /\ cycle'.at = place
    BY <2>1, <1>t DEF Cycles, CyclePlaces
  <2>3. ReadsStayTrue'
    BY <2>2 DEF ReadsStayTrue
  <2> QED
    BY <2>1, <2>2, <2>3, <1>t, CycleMoves
<1>8. ASSUME NEW s \in Coins, PlaceBuy(s) PROVE UniverseInv'
  <2>1. lab' = [active |-> lab.active, inactive |-> lab.inactive, positions |-> lab.positions,
                orders |-> lab.orders \cup {s}]
        /\ UNCHANGED <<arenas, universe, cycle, copies, hour>>
    BY <1>8, <1>t DEF PlaceBuy, LabRecords
  <2>2. lab' \in LabRecords
    BY <2>1, <1>p DEF LabRecords
  <2> QED
    BY <2>1, <2>2, LabMoves
<1>9. ASSUME NEW s \in Coins, FillOrder(s) PROVE UniverseInv'
  <2>1. PICK filled \in BOOLEAN :
          lab' = [lab EXCEPT !.orders = @ \ {s}, !.positions = IF filled THEN @ \cup {s} ELSE @]
    BY <1>9 DEF FillOrder
  <2>2. lab' = [active |-> lab.active, inactive |-> lab.inactive,
                positions |-> IF filled THEN lab.positions \cup {s} ELSE lab.positions,
                orders |-> lab.orders \ {s}]
    BY <2>1, <1>t DEF LabRecords
  <2>3. s \in lab.active /\ cycle.at = "simulate" /\ UNCHANGED <<arenas, universe, cycle, copies, hour>>
    BY <1>9 DEF FillOrder
  <2>4. lab' \in LabRecords
    BY <2>2, <1>p DEF LabRecords
  <2>5. lab'.positions \subseteq lab.active /\ lab'.active = lab.active
    BY <2>2, <2>3 DEF WatchedAreActive
  <2> QED
    BY <2>3, <2>4, <2>5, LabMoves
<1>10. ASSUME NEW s \in Coins, SellPosition(s) \/ ProtectiveExit(s) PROVE UniverseInv'
  <2>1. lab' = [active |-> lab.active, inactive |-> lab.inactive, positions |-> lab.positions \ {s},
                orders |-> lab.orders]
        /\ UNCHANGED <<arenas, universe, cycle, copies, hour>>
    BY <1>10, <1>t DEF SellPosition, ProtectiveExit, LabRecords
  <2>2. lab' \in LabRecords
    BY <2>1, <1>p DEF LabRecords
  <2> QED
    BY <2>1, <2>2, LabMoves
<1>11. ASSUME NEW s \in Coins, DecideArena(s) PROVE UniverseInv'
  <2>1. arenas' = arenas \ {s} /\ cycle.at = "governance"
        /\ UNCHANGED <<lab, universe, cycle, copies, hour>>
    BY <1>11 DEF DecideArena
  <2>2. UniverseTypeOK'
    BY <2>1, <1>t DEF UniverseTypeOK
  <2>3. ReadsStayTrue' /\ CopiesAreConsistent' /\ WatchedAreActive'
    BY <2>1 DEF ReadsStayTrue, CopiesAreConsistent, WatchedAreActive
  <2> QED
    BY <2>2, <2>3
<1>12. CASE EndCycle \/ CycleCut
  <2>1. cycle' = NoCycle /\ UNCHANGED <<lab, arenas, universe, copies, hour>>
    BY <1>12 DEF EndCycle, CycleCut
  <2>2. ReadsStayTrue'
    BY <2>1, <1>n DEF ReadsStayTrue
  <2> QED
    BY <2>1, <2>2, <1>n, <1>t, CycleMoves
<1>13. CASE CopyLab
  <2>1. copies' = [lab |-> lab, arenas |-> copies.arenas]
        /\ UNCHANGED <<lab, arenas, universe, cycle, hour>>
    BY <1>13, <1>t DEF CopyLab
  <2>2. UniverseTypeOK'
    BY <2>1, <1>t DEF UniverseTypeOK
  <2>3. ReadsStayTrue' /\ CopiesAreConsistent' /\ WatchedAreActive'
    BY <2>1 DEF ReadsStayTrue, CopiesAreConsistent, WatchedAreActive
  <2> QED
    BY <2>2, <2>3
<1>14. CASE CopyGovernance
  <2>1. copies' = [lab |-> copies.lab, arenas |-> arenas]
        /\ UNCHANGED <<lab, arenas, universe, cycle, hour>>
    BY <1>14, <1>t DEF CopyGovernance
  <2>2. UniverseTypeOK'
    BY <2>1, <1>t DEF UniverseTypeOK
  <2>3. ReadsStayTrue' /\ CopiesAreConsistent' /\ WatchedAreActive'
    BY <2>1 DEF ReadsStayTrue, CopiesAreConsistent, WatchedAreActive
  <2> QED
    BY <2>2, <2>3
<1>15. CASE HourPasses
  <2>1. hour' = hour + 1 /\ UNCHANGED <<lab, arenas, universe, cycle, copies>>
    BY <1>15 DEF HourPasses
  <2>2. hour' \in Int /\ ReadsStayTrue'
    BY <2>1, <1>t DEF ReadsStayTrue
  <2> QED
    BY <2>1, <2>2, <1>t, CycleMoves
<1>16. CASE RestoreCopies
  <2>1. /\ lab' = copies.lab /\ arenas' = copies.arenas /\ universe' = -1 /\ cycle' = NoCycle
        /\ UNCHANGED <<copies, hour>>
    BY <1>16 DEF RestoreCopies, Never
  <2>2. UniverseTypeOK'
    BY <2>1, <1>t, <1>n DEF UniverseTypeOK
  <2>3. ReadsStayTrue' /\ CopiesAreConsistent' /\ WatchedAreActive'
    BY <2>1, <1>n DEF ReadsStayTrue, CopiesAreConsistent, WatchedAreActive, Never
  <2> QED
    BY <2>2, <2>3
<1>17. CASE UNCHANGED universeVars
  BY <1>17, <1>t, CycleMoves DEF universeVars, ReadsStayTrue
<1> QED
  BY <1>1, <1>2, <1>3, <1>4, <1>5, <1>6, <1>7, <1>8, <1>9, <1>10, <1>11, <1>12, <1>13, <1>14,
     <1>15, <1>16, <1>17
  DEF UniverseNext

(* Whatever the realtime worker closes, a refresh leaves out or a lost     *)
(* container brings back, no position is of a symbol that is not           *)
(* processed, and no undecided arena once the universe has been refreshed  *)
(* (DynamicUniverse._sync_market, AutoOrchestrator._pinned_universe).      *)
THEOREM HeldIsLookedAfter == UniverseSpec => []WatchedAreActive
<1>1. UniverseInv => WatchedAreActive
  BY DEF UniverseInv
<1> QED
  BY <1>1, UniverseInvInit, UniverseInvNext, PTL DEF UniverseSpec
-----------------------------------------------------------------------------
(* HealthReport: the main loop has got on since whatever its file calls the *)
(* beginning of its state (ProgressIsRecent), and the ledger never has less *)
(* on the volume than its backup says (BackupIsBehind).  What the exporter  *)
(* has read stays true until it publishes, as no time passes meanwhile and  *)
(* every write only makes it better (ReadingStaysTrue).                     *)

Ages == 0..Old
MainFiles ==
  [status : {"STARTING", "RUNNING", "ONLINE", "DEGRADED", "ERROR"}, beat : Ages, since : Ages,
   progress : Ages, last : {"none", "fine", "scan", "errors", "raised"}]
ReadingPlaces == {"sleep", "storage", "direction", "backup", "publish"}
Readings ==
  [at : ReadingPlaces, main : {"ERROR", "DEGRADED", "STARTING", "HEALTHY"},
   storage : {"well", "ill"}, rows : Nat,
   reasons : SUBSET {"heartbeat", "cycle", "status", "empty", "errors", "backup", "behind"}]

(* what the shadow's own file says is compared with, and never exceeded     *)
Shadows ==
  [status : {"STARTING", "RUNNING", "ONLINE", "DEGRADED", "ERROR"}, beat : Ages, since : Ages,
   rows : Nat, errors : {"no", "yes"}]
Backups == [at : {"sleep", "count"}, age : Ages, success : {"no", "yes"}, rows : Nat]
Storages ==
  [persistence : {"OK", "PARTIAL", "ERROR"}, public : {"OK", "PARTIAL", "ERROR"}, age : Ages]

HealthTypeOK ==
  /\ main \in MainFiles /\ shadow \in Shadows
  /\ ledger \in [rows : Nat, volume : Nat] /\ backup \in Backups
  /\ storage \in Storages /\ exporter \in Readings

ProgressIsRecent == main.progress <= main.since

BackupIsBehind == backup.rows <= ledger.volume /\ ledger.volume <= ledger.rows

ReadingStaysTrue ==
  /\ exporter.at # "sleep" /\ exporter.main = "HEALTHY" => main.progress <= RunningMax
  /\ exporter.at \notin {"sleep", "storage"} /\ exporter.storage = "well" => storage.age <= ExportMax
  /\ exporter.at = "publish" /\ exporter.reasons = {} => exporter.rows <= ledger.volume

HealthInv == HealthTypeOK /\ ProgressIsRecent /\ BackupIsBehind /\ ReadingStaysTrue

LEMMA Limits ==
  /\ Old \in Nat /\ HeartbeatMax \in Nat /\ CompletedMax \in Nat /\ RunningMax \in Nat
  /\ CycleCeiling \in Nat /\ DirectionMax \in Nat /\ ExportMax \in Nat /\ CompletedMax <= RunningMax
  /\ Ages \subseteq Nat /\ 0 \in Ages /\ Old \in Ages
BY HealthAssumption DEF HealthAssumption, Ages

LEMMA AgesGrow ==
  ASSUME NEW a \in Ages, NEW b \in Ages
  PROVE  Grows(a) \in Ages /\ (a <= b => Grows(a) <= Grows(b))
BY Limits DEF Grows, Ages

LEMMA HealthInvInit == HealthInit => HealthInv
<1> SUFFICES ASSUME HealthInit PROVE HealthInv
  OBVIOUS
<1>1. main \in MainFiles /\ main.progress = 0 /\ main.since = 0
  BY Limits DEF HealthInit, FreshMain, WellMain, MainFiles
<1>2. shadow \in Shadows
  BY Limits DEF HealthInit, FreshDirection, WellDirection, Shadows
<1>3. ledger \in [rows : Nat, volume : Nat] /\ backup \in Backups /\ BackupIsBehind
  <2>1. CASE focus = "direction"
    BY <2>1, Limits DEF HealthInit, NoBackup, Backups, BackupIsBehind
  <2>2. CASE focus # "direction"
    BY <2>2, Limits DEF HealthInit, WellBackup, Backups, BackupIsBehind
  <2> QED
    BY <2>1, <2>2
<1>4. storage \in Storages
  BY Limits DEF HealthInit, Storages
<1>5. exporter \in Readings /\ exporter.at = "sleep"
  BY DEF HealthInit, Reading, Readings, ReadingPlaces
<1>6. HealthTypeOK
  BY <1>1, <1>2, <1>3, <1>4, <1>5 DEF HealthTypeOK
<1>7. ProgressIsRecent /\ ReadingStaysTrue
  BY <1>1, <1>5 DEF ProgressIsRecent, ReadingStaysTrue
<1> QED
  BY <1>3, <1>6, <1>7 DEF HealthInv

(* the main worker writes its file: nothing has gone on for longer *)
LEMMA MainWrites ==
  ASSUME HealthInv, main' \in MainFiles, main'.progress <= main'.since,
         main'.progress <= main.progress,
         UNCHANGED <<shadow, ledger, backup, storage, exporter>>
  PROVE  HealthInv'
<1>1. main.progress \in Nat /\ main'.progress \in Nat /\ RunningMax \in Nat
  BY Limits DEF HealthInv, HealthTypeOK, MainFiles
<1>2. HealthTypeOK' /\ ProgressIsRecent' /\ BackupIsBehind'
  BY DEF HealthInv, HealthTypeOK, ProgressIsRecent, BackupIsBehind
<1>3. ReadingStaysTrue'
  BY <1>1 DEF HealthInv, ReadingStaysTrue
<1> QED
  BY <1>2, <1>3 DEF HealthInv

(* the direction worker and the backup write theirs *)
LEMMA DirectionWrites ==
  ASSUME HealthInv, shadow' \in Shadows, ledger' \in [rows : Nat, volume : Nat], backup' \in Backups,
         ledger.volume <= ledger'.volume, BackupIsBehind',
         UNCHANGED <<main, storage, exporter>>
  PROVE  HealthInv'
<1>1. ledger.volume \in Nat /\ ledger'.volume \in Nat /\ exporter.rows \in Nat
  BY DEF HealthInv, HealthTypeOK, Readings
<1>2. HealthTypeOK' /\ ProgressIsRecent'
  BY DEF HealthInv, HealthTypeOK, ProgressIsRecent
<1>3. ReadingStaysTrue'
  BY <1>1 DEF HealthInv, ReadingStaysTrue
<1> QED
  BY <1>2, <1>3 DEF HealthInv

(* the exporter reads another file, or goes to sleep *)
LEMMA ExporterReads ==
  ASSUME HealthInv, exporter' \in Readings, ReadingStaysTrue',
         UNCHANGED <<main, shadow, ledger, backup, storage>>
  PROVE  HealthInv'
BY DEF HealthInv, HealthTypeOK, ProgressIsRecent, BackupIsBehind

(* what a main worker that is reported HEALTHY has done lately *)
LEMMA HealthyMainGetsOn ==
  ASSUME HealthInv, MainHealth(main) = "HEALTHY" PROVE main.progress <= RunningMax
<1>1. main.progress \in Nat /\ main.since \in Nat /\ main.progress <= main.since
  BY Limits DEF HealthInv, HealthTypeOK, MainFiles, ProgressIsRecent
<1>2. MainActive(main)
  BY Zenon DEF MainHealth
<1> QED
  BY <1>1, <1>2, Limits DEF MainActive

LEMMA MainStepKeeps ==
  ASSUME HealthInv,
         \/ MainBeats \/ MainBegins \/ MainReportsProgress \/ MainReplaced
         \/ \E how \in {"fine", "scan", "errors", "raised"} : MainEnds(how)
  PROVE  HealthInv'
<1>1. main \in MainFiles /\ main.progress \in Ages /\ main.since \in Ages
      /\ main.progress <= main.since
  BY DEF HealthInv, HealthTypeOK, MainFiles, ProgressIsRecent
<1>0. main.progress \in Nat /\ main.since \in Nat /\ 0 \in Ages
  BY <1>1, Limits
<1>2. CASE MainBeats
  <2>1. main' = [main EXCEPT !.beat = 0] /\ UNCHANGED <<shadow, ledger, backup, storage, exporter>>
    BY <1>2 DEF MainBeats, OnlyMain
  <2>2. main' \in MainFiles /\ main'.progress = main.progress /\ main'.since = main.since
    BY <1>1, <2>1, Limits DEF MainFiles
  <2>3. main'.progress <= main'.since /\ main'.progress <= main.progress
    BY <1>1, <1>0, <2>2
  <2> QED
    BY <2>1, <2>2, <2>3, MainWrites
<1>3. CASE MainBegins
  <2>1. main' = [status |-> "RUNNING", beat |-> 0, since |-> 0, progress |-> 0, last |-> main.last]
        /\ UNCHANGED <<shadow, ledger, backup, storage, exporter>>
    BY <1>1, <1>3 DEF MainBegins, OnlyMain, MainFiles
  <2>2. main' \in MainFiles /\ main'.progress = 0 /\ main'.since \in {0, main.since}
    BY <1>1, <1>0, <2>1 DEF MainFiles
  <2>3. main'.progress <= main'.since /\ main'.progress <= main.progress
    BY <1>0, <2>2
  <2> QED
    BY <2>1, <2>2, <2>3, MainWrites
<1>4. CASE MainReportsProgress
  <2>1. main' = [status |-> main.status, beat |-> 0, since |-> main.since, progress |-> 0,
                 last |-> main.last]
        /\ UNCHANGED <<shadow, ledger, backup, storage, exporter>>
    BY <1>1, <1>4 DEF MainReportsProgress, OnlyMain, MainFiles
  <2>2. main' \in MainFiles /\ main'.progress = 0 /\ main'.since \in {0, main.since}
    BY <1>1, <1>0, <2>1 DEF MainFiles
  <2>3. main'.progress <= main'.since /\ main'.progress <= main.progress
    BY <1>0, <2>2
  <2> QED
    BY <2>1, <2>2, <2>3, MainWrites
<1>5. CASE MainReplaced
  <2>1. main' = FreshMain /\ UNCHANGED <<shadow, ledger, backup, storage, exporter>>
    BY <1>5 DEF MainReplaced, OnlyMain
  <2>2. main' \in MainFiles /\ main'.progress = 0 /\ main'.since = 0
    BY <1>0, <2>1 DEF MainFiles, FreshMain
  <2>3. main'.progress <= main'.since /\ main'.progress <= main.progress
    BY <1>0, <2>2
  <2> QED
    BY <2>1, <2>2, <2>3, MainWrites
<1>6. ASSUME NEW how \in {"fine", "scan", "errors", "raised"}, MainEnds(how) PROVE HealthInv'
  <2>1. PICK s \in {"ONLINE", "DEGRADED", "ERROR"} :
          main' = [main EXCEPT !.beat = 0, !.since = 0, !.progress = 0, !.last = how, !.status = s]
    BY <1>6 DEF MainEnds
  <2>2. main' = [status |-> s, beat |-> 0, since |-> 0, progress |-> 0, last |-> how]
    BY <1>1, <2>1 DEF MainFiles
  <2>3. UNCHANGED <<shadow, ledger, backup, storage, exporter>>
    BY <1>6 DEF MainEnds, OnlyMain
  <2>4. main' \in MainFiles /\ main'.progress = 0 /\ main'.since = 0
    BY <1>0, <2>2 DEF MainFiles
  <2>5. main'.progress <= main'.since /\ main'.progress <= main.progress
    BY <1>0, <2>4
  <2> QED
    BY <2>3, <2>4, <2>5, MainWrites
<1> QED
  BY <1>2, <1>3, <1>4, <1>5, <1>6

LEMMA DirectionStepKeeps ==
  ASSUME HealthInv,
         \/ DirectionBeats \/ DirectionBegins \/ RegisterPrediction \/ DirectionRaises
         \/ DirectionReplaced \/ \E errors \in {"no", "yes"} : DirectionEnds(errors)
         \/ CopyLedger \/ WriteBackupStatus \/ BackupFails
  PROVE  HealthInv'
<1>1. /\ shadow \in Shadows /\ ledger \in [rows : Nat, volume : Nat] /\ backup \in Backups
      /\ ledger.rows \in Nat /\ ledger.volume \in Nat /\ backup.rows \in Nat
      /\ backup.rows <= ledger.volume /\ ledger.volume <= ledger.rows
      /\ ledger.volume <= ledger.volume
  BY DEF HealthInv, HealthTypeOK, Backups, BackupIsBehind
<1>2. UNCHANGED <<main, storage, exporter>>
  BY DEF DirectionBeats, DirectionBegins, RegisterPrediction, DirectionRaises, DirectionReplaced,
     DirectionEnds, CopyLedger, WriteBackupStatus, BackupFails, OnlyDirection
<1>3. CASE \/ DirectionBeats \/ DirectionBegins \/ DirectionRaises \/ DirectionReplaced
           \/ \E errors \in {"no", "yes"} : DirectionEnds(errors)
  <2>1. UNCHANGED <<ledger, backup>>
    BY <1>3 DEF DirectionBeats, DirectionBegins, DirectionRaises, DirectionReplaced, DirectionEnds
  <2>2. shadow' \in Shadows
    <3>1. CASE DirectionBeats
      BY <3>1, <1>1, Limits DEF DirectionBeats, Shadows
    <3>2. CASE DirectionBegins
      BY <3>2, <1>1, Limits DEF DirectionBegins, Shadows
    <3>3. CASE DirectionRaises
      BY <3>3, <1>1, Limits DEF DirectionRaises, Shadows
    <3>4. CASE DirectionReplaced
      BY <3>4, <1>1, Limits DEF DirectionReplaced, FreshDirection, Shadows
    <3>5. ASSUME NEW errors \in {"no", "yes"}, DirectionEnds(errors) PROVE shadow' \in Shadows
      BY <3>5, <1>1, Limits DEF DirectionEnds, Shadows
    <3> QED
      BY <1>3, <3>1, <3>2, <3>3, <3>4, <3>5
  <2>3. BackupIsBehind'
    BY <1>1, <2>1 DEF BackupIsBehind
  <2> QED
    BY <1>1, <1>2, <2>1, <2>2, <2>3, DirectionWrites
<1>4. CASE RegisterPrediction
  <2>1. ledger' = [rows |-> ledger.rows + 1, volume |-> ledger.volume] /\ UNCHANGED <<shadow, backup>>
    BY <1>1, <1>4 DEF RegisterPrediction
  <2>2. ledger' \in [rows : Nat, volume : Nat] /\ ledger.volume <= ledger'.volume /\ BackupIsBehind'
    BY <1>1, <2>1 DEF BackupIsBehind
  <2> QED
    BY <1>1, <1>2, <2>1, <2>2, DirectionWrites
<1>5. CASE CopyLedger
  <2>1. /\ ledger' = [rows |-> ledger.rows, volume |-> ledger.rows]
        /\ backup' = [backup EXCEPT !.at = "count"] /\ UNCHANGED shadow
    BY <1>1, <1>5 DEF CopyLedger
  <2>2. backup' \in Backups /\ backup'.rows = backup.rows
    BY <1>1, <2>1 DEF Backups
  <2>3. ledger' \in [rows : Nat, volume : Nat] /\ ledger.volume <= ledger'.volume /\ BackupIsBehind'
    BY <1>1, <2>1, <2>2 DEF BackupIsBehind
  <2> QED
    BY <1>1, <1>2, <2>1, <2>2, <2>3, DirectionWrites
<1>6. CASE WriteBackupStatus \/ BackupFails
  <2>1. PICK n \in {0, ledger.volume}, ok \in {"no", "yes"} :
          backup' = [at |-> "sleep", age |-> 0, success |-> ok, rows |-> n]
    BY <1>6 DEF WriteBackupStatus, BackupFails
  <2>2. UNCHANGED <<shadow, ledger>>
    BY <1>6 DEF WriteBackupStatus, BackupFails
  <2>3. backup' \in Backups /\ BackupIsBehind'
    BY <1>1, <2>1, <2>2, Limits DEF Backups, BackupIsBehind
  <2> QED
    BY <1>1, <1>2, <2>2, <2>3, DirectionWrites
<1> QED
  BY <1>3, <1>4, <1>5, <1>6

LEMMA StorageStepKeeps ==
  ASSUME HealthInv, ExportStorage \/ \E result \in {"OK", "PARTIAL", "ERROR"} : RescueEnds(result)
  PROVE  HealthInv'
<1>1. storage \in Storages /\ storage.age \in Nat /\ ExportMax \in Nat
  BY Limits DEF HealthInv, HealthTypeOK, Storages
<1>2. UNCHANGED <<main, shadow, ledger, backup, exporter>>
  BY DEF ExportStorage, RescueEnds, OnlyStorage
<1>3. storage' \in Storages /\ storage'.age \in {0, storage.age}
  <2>1. CASE ExportStorage
    BY <1>1, <2>1, Limits DEF ExportStorage, Storages
  <2>2. ASSUME NEW result \in {"OK", "PARTIAL", "ERROR"}, RescueEnds(result)
        PROVE  storage' \in Storages /\ storage'.age \in {0, storage.age}
    BY <1>1, <2>2 DEF RescueEnds, Storages
  <2> QED
    BY <2>1, <2>2
<1>4. HealthTypeOK' /\ ProgressIsRecent' /\ BackupIsBehind'
  BY <1>2, <1>3 DEF HealthInv, HealthTypeOK, ProgressIsRecent, BackupIsBehind
<1>5. storage.age <= ExportMax => storage'.age <= ExportMax
  BY <1>1, <1>3
<1>6. ReadingStaysTrue'
  BY <1>2, <1>5 DEF HealthInv, ReadingStaysTrue
<1> QED
  BY <1>4, <1>6 DEF HealthInv

LEMMA ExporterStepKeeps ==
  ASSUME HealthInv, ReadMain \/ ReadStorage \/ ReadDirection \/ ReadBackup \/ Publish
  PROVE  HealthInv'
<1>1. /\ exporter \in Readings /\ shadow \in Shadows /\ backup \in Backups
      /\ ledger \in [rows : Nat, volume : Nat]
  BY DEF HealthInv, HealthTypeOK
<1>2. UNCHANGED <<main, shadow, ledger, backup, storage>>
  BY DEF ReadMain, ReadStorage, ReadDirection, ReadBackup, Publish, OnlyExporter
<1>3. ReadingStaysTrue
  BY DEF HealthInv
<1>4. CASE ReadMain
  <2>1. exporter' = [at |-> "storage", main |-> MainHealth(main), storage |-> "well", rows |-> 0,
                     reasons |-> {}]
    BY <1>4 DEF ReadMain, Reading
  <2>2. MainHealth(main) \in {"ERROR", "DEGRADED", "STARTING", "HEALTHY"}
    BY DEF MainHealth
  <2>3. exporter' \in Readings
    BY <2>1, <2>2 DEF Readings, ReadingPlaces
  <2>4. ReadingStaysTrue'
    BY <1>2, <2>1, HealthyMainGetsOn DEF ReadingStaysTrue
  <2> QED
    BY <1>2, <2>3, <2>4, ExporterReads
<1>5. CASE ReadStorage
  <2>1. exporter' = [at |-> "direction", main |-> exporter.main, storage |-> StorageHealth,
                     rows |-> exporter.rows, reasons |-> exporter.reasons]
        /\ exporter.at = "storage"
    BY <1>1, <1>5 DEF ReadStorage, Readings
  <2>2. StorageHealth \in {"well", "ill"} /\ (StorageHealth = "well" => storage.age <= ExportMax)
    BY DEF StorageHealth
  <2>3. exporter' \in Readings
    BY <1>1, <2>1, <2>2 DEF Readings, ReadingPlaces
  <2>4. ReadingStaysTrue'
    BY <1>2, <1>3, <2>1, <2>2 DEF ReadingStaysTrue
  <2> QED
    BY <1>2, <2>3, <2>4, ExporterReads
<1>6. CASE ReadDirection
  <2>1. exporter' = [at |-> "backup", main |-> exporter.main, storage |-> exporter.storage,
                     rows |-> shadow.rows, reasons |-> DirectionReasons]
        /\ exporter.at = "direction"
    BY <1>1, <1>6 DEF ReadDirection, Readings
  <2>2. DirectionReasons \subseteq {"heartbeat", "cycle", "status", "empty", "errors"}
        /\ shadow.rows \in Nat
    BY <1>1 DEF DirectionReasons, Shadows
  <2>3. exporter' \in Readings
    BY <1>1, <2>1, <2>2 DEF Readings, ReadingPlaces
  <2>4. ReadingStaysTrue'
    BY <1>2, <1>3, <2>1 DEF ReadingStaysTrue
  <2> QED
    BY <1>2, <2>3, <2>4, ExporterReads
<1>7. CASE ReadBackup
  <2> DEFINE reasons == BackupReasons(exporter.rows)
  <2>1. exporter' = [at |-> "publish", main |-> exporter.main, storage |-> exporter.storage,
                     rows |-> exporter.rows, reasons |-> exporter.reasons \cup reasons]
        /\ exporter.at = "backup"
    BY <1>1, <1>7 DEF ReadBackup, Readings
  <2>2. reasons \subseteq {"backup", "behind"}
    BY DEF BackupReasons
  <2>3. reasons = {} => ~(backup.rows < exporter.rows)
    BY DEF BackupReasons
  <2>4. backup.rows \in Nat /\ exporter.rows \in Nat /\ ledger.volume \in Nat
        /\ backup.rows <= ledger.volume
    BY <1>1 DEF HealthInv, Backups, Readings, BackupIsBehind
  <2> HIDE DEF reasons
  <2>5. exporter' \in Readings
    BY <1>1, <2>1, <2>2 DEF Readings, ReadingPlaces
  <2>6. exporter.reasons \cup reasons = {} => exporter.rows <= ledger.volume
    <3>1. exporter.reasons \cup reasons = {} => reasons = {}
      OBVIOUS
    <3> QED
      BY <3>1, <2>3, <2>4
  <2>7. ReadingStaysTrue'
    BY <1>2, <1>3, <2>1, <2>6 DEF ReadingStaysTrue
  <2> QED
    BY <1>2, <2>5, <2>7, ExporterReads
<1>8. CASE Publish
  <2>1. exporter' \in Readings /\ exporter'.at = "sleep"
    BY <1>8 DEF Publish, Reading, Readings, ReadingPlaces
  <2>2. ReadingStaysTrue'
    BY <2>1 DEF ReadingStaysTrue
  <2> QED
    BY <1>2, <2>1, <2>2, ExporterReads
<1> QED
  BY <1>4, <1>5, <1>6, <1>7, <1>8

LEMMA TimePassesKeeps == ASSUME HealthInv, TimePasses PROVE HealthInv'
<1>1. /\ main \in MainFiles /\ shadow \in Shadows /\ backup \in Backups /\ storage \in Storages
      /\ main.beat \in Ages /\ main.since \in Ages /\ main.progress \in Ages
      /\ main.progress <= main.since
  BY DEF HealthInv, HealthTypeOK, MainFiles, ProgressIsRecent
<1>2. exporter.at = "sleep" /\ UNCHANGED <<focus, ledger, exporter, report>>
  BY DEF TimePasses
<1>3. main' \in MainFiles /\ main'.progress <= main'.since
  <2>1. CASE focus = "main"
    <3>1. main' = [status |-> main.status, beat |-> Grows(main.beat), since |-> Grows(main.since),
                   progress |-> Grows(main.progress), last |-> main.last]
      BY <1>1, <2>1 DEF TimePasses, MainFiles
    <3>2. Grows(main.beat) \in Ages /\ Grows(main.since) \in Ages /\ Grows(main.progress) \in Ages
          /\ Grows(main.progress) <= Grows(main.since)
      BY <1>1, AgesGrow
    <3> QED
      BY <1>1, <3>1, <3>2 DEF MainFiles
  <2>2. CASE focus # "main"
    BY <1>1, <2>2 DEF TimePasses
  <2> QED
    BY <2>1, <2>2
<1>4. shadow' \in Shadows
  <2>1. shadow.beat \in Ages /\ shadow.since \in Ages
    BY <1>1 DEF Shadows
  <2>2. Grows(shadow.beat) \in Ages /\ Grows(shadow.since) \in Ages
    BY <2>1, AgesGrow
  <2>3. shadow' = shadow
        \/ shadow' = [shadow EXCEPT !.beat = Grows(shadow.beat), !.since = Grows(shadow.since)]
    BY <1>1 DEF TimePasses, Shadows
  <2> QED
    BY <1>1, <2>2, <2>3 DEF Shadows
<1>5. backup' \in Backups /\ backup'.rows = backup.rows
  <2>1. backup.age \in Ages
    BY <1>1 DEF Backups
  <2>2. Grows(backup.age) \in Ages
    BY <2>1, AgesGrow
  <2>3. backup' = backup \/ backup' = [backup EXCEPT !.age = Grows(backup.age)]
    BY <1>1 DEF TimePasses, Backups
  <2> QED
    BY <1>1, <2>2, <2>3 DEF Backups
<1>6. storage' \in Storages
  <2>1. storage.age \in Ages
    BY <1>1 DEF Storages
  <2>2. Grows(storage.age) \in Ages
    BY <2>1, AgesGrow
  <2>3. storage' = storage \/ storage' = [storage EXCEPT !.age = Grows(storage.age)]
    BY <1>1 DEF TimePasses, Storages
  <2> QED
    BY <1>1, <2>2, <2>3 DEF Storages
<1>7. HealthTypeOK' /\ ProgressIsRecent'
  BY <1>2, <1>3, <1>4, <1>5, <1>6 DEF HealthInv, HealthTypeOK, ProgressIsRecent
<1>8. BackupIsBehind' /\ ReadingStaysTrue'
  BY <1>2, <1>5 DEF HealthInv, BackupIsBehind, ReadingStaysTrue
<1> QED
  BY <1>7, <1>8 DEF HealthInv

LEMMA HealthInvNext == HealthInv /\ [HealthNext]_healthVars => HealthInv'
<1> SUFFICES ASSUME HealthInv, [HealthNext]_healthVars PROVE HealthInv'
  OBVIOUS
<1>1. CASE UNCHANGED healthVars
  <2>1. exporter \in Readings /\ ReadingStaysTrue /\ UNCHANGED healthVars
    BY <1>1 DEF HealthInv, HealthTypeOK
  <2> QED
    BY <2>1, ExporterReads DEF healthVars, ReadingStaysTrue
<1> QED
  BY <1>1, MainStepKeeps, DirectionStepKeeps, StorageStepKeeps, ExporterStepKeeps, TimePassesKeeps
  DEF HealthNext

(* A published HEALTHY is true when it is published: the main loop got on  *)
(* within its limit, the storage is exported, and what the direction       *)
(* worker has counted is on the volume (build_snapshot).                   *)
THEOREM HealthyMeansHealthy == HealthSpec => HealthyIsTrue
<1>1. HealthInv /\ [HealthNext]_healthVars =>
        [exporter.at = "publish" /\ exporter'.at = "sleep" /\ report' = "HEALTHY" =>
           /\ main.progress <= RunningMax /\ storage.age <= ExportMax
           /\ ledger.volume >= exporter.rows]_healthVars
  <2> SUFFICES ASSUME HealthInv, HealthNext, exporter.at = "publish", exporter'.at = "sleep",
                      report' = "HEALTHY"
               PROVE  /\ main.progress <= RunningMax /\ storage.age <= ExportMax
                      /\ ledger.volume >= exporter.rows
    BY DEF healthVars
  <2>1. report' = Overall
    BY DEF HealthNext, MainBeats, MainBegins, MainReportsProgress, MainReplaced, MainEnds,
       DirectionBeats, DirectionBegins, RegisterPrediction, DirectionRaises, DirectionReplaced,
       DirectionEnds, CopyLedger, WriteBackupStatus, BackupFails, RescueEnds, ExportStorage,
       OnlyMain, OnlyDirection, OnlyStorage, ReadMain, ReadStorage, ReadDirection, ReadBackup,
       Publish, TimePasses
  <2>2. exporter \in Readings /\ exporter.rows \in Nat /\ ledger.volume \in Nat
        /\ exporter.storage \in {"well", "ill"}
    BY DEF HealthInv, HealthTypeOK, Readings
  <2>3. exporter.main = "HEALTHY" /\ exporter.storage = "well" /\ exporter.reasons = {}
    BY <2>1, <2>2 DEF Overall
  <2> QED
    BY <2>2, <2>3 DEF HealthInv, ReadingStaysTrue
<1> QED
  BY <1>1, HealthInvInit, HealthInvNext, PTL DEF HealthSpec, HealthyIsTrue
-----------------------------------------------------------------------------
(* CleanBaseline: nothing is written before the marker is, and every row   *)
(* that a service has written is of the marker's moment or later, in the   *)
(* databases and in their snapshots.  A container in which the reset is    *)
(* done is therefore one that finds nothing but rows of the time before.   *)

Places == {"boot", "main", "simulation", "forward", "cache", "direction", "governance", "quality",
           "realtime", "files", "marker", "snapshot", "up"}
Jobs == [at : Places, first : {"yes", "no"}, baseline : Nat, read : {"well", "failed"}]

(* what the statements of the script may take for granted of a row        *)
Shape(db, r) ==
  /\ r.born \in Nat
  /\ db = "simulation" /\ (r.born > 0 \/ r.waits = "yes") =>
       r.kind = "decision" \/ (r.kind = "ledger" /\ r.account = "crypto")
  /\ db # "simulation" => r.waits = "no"

Since(r) == r.born > 0 => marker # 0 /\ marker <= r.born

RowsAreLate ==
  /\ \A db \in Cleaned : \A r \in runtime[db] : Shape(db, r) /\ Since(r)
  /\ \A db \in Critical : \A r \in current[db] : Shape(db, r) /\ Since(r)

JobKnows ==
  /\ job.at \in {"snapshot", "up"} => marker # 0
  /\ job.at \notin {"boot", "main", "snapshot", "up"} =>
       /\ job.first = "yes" => marker = 0 /\ job.baseline # 0 /\ job.baseline <= moment
       /\ job.first = "no" => marker # 0
       /\ job.first = "no" /\ job.read = "well" => job.baseline = marker

BaselineTypeOK ==
  /\ DOMAIN runtime = Cleaned /\ DOMAIN current = Critical
  /\ job \in Jobs /\ marker \in Nat /\ moment \in Nat \ {0} /\ marker <= moment

BaselineInv == BaselineTypeOK /\ RowsAreLate /\ JobKnows

LEMMA MissingIsHarmless == \A db : \A r \in Missing : Shape(db, r) /\ Since(r)
BY DEF Missing, Row, Shape, Since

LEMMA BeforeIsHarmless == \A db : \A r \in Before(db) : Shape(db, r) /\ Since(r)
<1> SUFFICES ASSUME NEW db, NEW r \in Before(db)
             PROVE  r.born = 0 /\ (r.waits = "yes" => db = "simulation" /\ r.kind = "decision")
                    /\ r.waits \in {"yes", "no"}
  BY DEF Shape, Since
<1>1. CASE db = "simulation"
  BY <1>1 DEF Before, Row
<1>2. CASE db # "simulation"
  BY <1>2 DEF Before, Row
<1> QED
  BY <1>1, <1>2

LEMMA WrittenAreLate ==
  ASSUME BaselineInv, marker # 0
  PROVE  \A db : \A r \in Written(db, moment) : Shape(db, r) /\ Since(r)
<1> SUFFICES ASSUME NEW db, NEW r \in Written(db, moment) PROVE Shape(db, r) /\ Since(r)
  OBVIOUS
<1>1. moment \in Nat /\ marker <= moment
  BY DEF BaselineInv, BaselineTypeOK
<1>2. r.born = moment
  BY DEF Written, Row
<1>3. CASE db = "simulation"
  BY <1>1, <1>2, <1>3 DEF Written, Row, Shape, Since
<1>4. CASE db # "simulation"
  BY <1>1, <1>2, <1>4 DEF Written, Row, Shape, Since
<1> QED
  BY <1>3, <1>4

LEMMA BaselineInvInit == BaselineInit => BaselineInv
<1> SUFFICES ASSUME BaselineInit PROVE BaselineInv
  OBVIOUS
<1>1. BaselineTypeOK
  BY DEF BaselineInit, BaselineTypeOK, Start, Jobs, Places
<1>2. RowsAreLate
  BY MissingIsHarmless DEF BaselineInit, RowsAreLate
<1>3. JobKnows
  BY DEF BaselineInit, JobKnows, Start
<1> QED
  BY <1>1, <1>2, <1>3 DEF BaselineInv

(* the script, or the bootstrap before it, rewrites the databases          *)
LEMMA RuntimeIsRewritten ==
  ASSUME BaselineInv, DOMAIN runtime' = Cleaned,
         \A db \in Cleaned : \A r \in runtime'[db] : Shape(db, r) /\ Since(r),
         job' \in Jobs, JobKnows',
         UNCHANGED <<current, marker, moment>>
  PROVE  BaselineInv'
<1>1. BaselineTypeOK'
  BY DEF BaselineInv, BaselineTypeOK
<1>2. RowsAreLate'
  <2>1. \A r : Since(r)' <=> Since(r)
    BY DEF Since
  <2>2. \A db \in Cleaned : \A r \in runtime'[db] : Shape(db, r) /\ Since(r)'
    BY <2>1
  <2>3. \A db \in Critical : \A r \in current'[db] : Shape(db, r) /\ Since(r)'
    BY <2>1 DEF BaselineInv, RowsAreLate
  <2> QED
    BY <2>2, <2>3 DEF RowsAreLate, Shape
<1> QED
  BY <1>1, <1>2 DEF BaselineInv

LEMMA JobGoesOn ==
  ASSUME BaselineInv, NEW place \in Places \ {"boot", "main", "snapshot", "up"},
         job.at \notin {"boot", "main", "snapshot", "up"},
         job' = [job EXCEPT !.at = place], UNCHANGED <<marker, moment>>
  PROVE  job' \in Jobs /\ JobKnows'
<1>1. job \in Jobs
  BY DEF BaselineInv, BaselineTypeOK
<1>2. /\ job' \in Jobs /\ job'.at = place /\ job'.first = job.first /\ job'.baseline = job.baseline
      /\ job'.read = job.read
  BY <1>1 DEF Jobs
<1>3. JobKnows'
  BY <1>2 DEF BaselineInv, JobKnows
<1> QED
  BY <1>2, <1>3

LEMMA BaselineInvNext == BaselineInv /\ [BaselineNext]_baselineVars => BaselineInv'
<1> SUFFICES ASSUME BaselineInv, [BaselineNext]_baselineVars PROVE BaselineInv'
  OBVIOUS
<1> USE DEF BaselineInv
<1>t. /\ DOMAIN runtime = Cleaned /\ DOMAIN current = Critical /\ job \in Jobs /\ marker \in Nat
      /\ moment \in Nat \ {0} /\ marker <= moment
  BY DEF BaselineTypeOK
<1>r. /\ \A db \in Cleaned : \A r \in runtime[db] : Shape(db, r) /\ Since(r)
      /\ \A db \in Critical : \A r \in current[db] : Shape(db, r) /\ Since(r)
  BY DEF RowsAreLate
<1>c. Critical \subseteq Cleaned /\ "simulation" \in Cleaned /\ "cache" \in Cleaned
      /\ "realtime" \in Cleaned
  BY DEF Cleaned, Critical
<1>1. CASE Bootstrap \/ FallBack
  <2>1. DOMAIN runtime' = Cleaned /\ UNCHANGED <<current, marker, moment>>
    BY <1>1 DEF Bootstrap, FallBack
  <2>2. ASSUME NEW db \in Cleaned
        PROVE  runtime'[db] = Missing \/ runtime'[db] = Before(db)
               \/ (db \in Critical /\ runtime'[db] = current[db])
    BY <1>1 DEF Bootstrap, FallBack
  <2>3. \A db \in Cleaned : \A r \in runtime'[db] : Shape(db, r) /\ Since(r)
    BY <2>2, <1>r, MissingIsHarmless, BeforeIsHarmless
  <2>4. job' = [job EXCEPT !.at = "main"]
    BY <1>1 DEF Bootstrap, FallBack
  <2>5. job' \in Jobs /\ job'.at = "main"
    BY <2>4, <1>t DEF Jobs, Places
  <2>6. JobKnows'
    BY <2>5 DEF JobKnows
  <2> QED
    BY <2>1, <2>3, <2>5, <2>6, RuntimeIsRewritten
<1>2. CASE ReadMarker
  <2>1. UNCHANGED <<runtime, current, marker, moment>>
    BY <1>2 DEF ReadMarker
  <2>2. PICK first \in {"yes", "no"}, baseline \in Nat, read \in {"well", "failed"} :
          /\ job' = [at |-> "simulation", first |-> first, baseline |-> baseline, read |-> read]
          /\ first = "yes" => marker = 0 /\ baseline = moment
          /\ first = "no" => marker # 0
          /\ first = "no" /\ read = "well" => baseline = marker
    <3>1. CASE job' = [at |-> "simulation", first |-> IF marker = 0 THEN "yes" ELSE "no",
                       baseline |-> IF marker = 0 THEN moment ELSE marker, read |-> "well"]
      <4>1. CASE marker = 0
        BY <3>1, <4>1, <1>t
      <4>2. CASE marker # 0
        BY <3>1, <4>2, <1>t
      <4> QED
        BY <4>1, <4>2
    <3>2. CASE marker # 0 /\ job' = [at |-> "simulation", first |-> "no", baseline |-> moment,
                                     read |-> "failed"]
      BY <3>2, <1>t
    <3> QED
      BY <1>2, <3>1, <3>2 DEF ReadMarker
  <2>3. job' \in Jobs
    BY <2>2 DEF Jobs, Places
  <2>4. JobKnows'
    BY <2>1, <2>2, <1>t DEF JobKnows
  <2> QED
    BY <2>1, <2>3, <2>4, <1>t, <1>r, RuntimeIsRewritten
<1>3. CASE CleanSimulation
  <2>1. /\ runtime' = [runtime EXCEPT !["simulation"] =
                         IF runtime["simulation"] = Missing THEN Missing
                         ELSE {r \in runtime["simulation"] \cup {MasterAccount} : KeepsSimulation(r)}]
        /\ job.at = "simulation" /\ job' = [job EXCEPT !.at = "forward"]
        /\ UNCHANGED <<current, marker, moment>>
    BY <1>3 DEF CleanSimulation
  <2>2. \A db : Shape(db, MasterAccount) /\ Since(MasterAccount)
    BY DEF MasterAccount, Row, Shape, Since
  <2>3. ASSUME NEW db \in Cleaned, NEW r \in runtime'[db] PROVE Shape(db, r) /\ Since(r)
    <3>1. r \in Missing \/ r \in runtime[db] \/ r = MasterAccount
      BY <2>1, <1>t
    <3> QED
      BY <3>1, <2>2, <1>r, MissingIsHarmless
  <2>4. DOMAIN runtime' = Cleaned
    BY <2>1, <1>t
  <2>5. job' \in Jobs /\ JobKnows'
    BY <2>1, JobGoesOn DEF Places
  <2> QED
    BY <2>1, <2>3, <2>4, <2>5, RuntimeIsRewritten
<1>4. ASSUME NEW db \in Cleaned \ {"simulation"}, CleanEvidence(db) PROVE BaselineInv'
  <2>1. /\ runtime' = [runtime EXCEPT ![db] = IF runtime[db] = Missing THEN Missing
                                              ELSE {r \in runtime[db] : Keeps(db, r)}]
        /\ job.at = db /\ job' = [job EXCEPT !.at = Following[db]]
        /\ UNCHANGED <<current, marker, moment>>
    BY <1>4 DEF CleanEvidence
  <2>2. ASSUME NEW d \in Cleaned, NEW r \in runtime'[d] PROVE Shape(d, r) /\ Since(r)
    <3>1. r \in runtime[d] \/ r \in Missing
      BY <2>1, <1>t
    <3> QED
      BY <3>1, <1>r, MissingIsHarmless
  <2>3. DOMAIN runtime' = Cleaned
    BY <2>1, <1>t
  <2>4. Following[db] \in Places \ {"boot", "main", "snapshot", "up"}
    BY DEF Following, Places, Cleaned, Critical
  <2>5. job.at \notin {"boot", "main", "snapshot", "up"}
    BY <2>1 DEF Cleaned, Critical
  <2>6. job' \in Jobs /\ JobKnows'
    BY <2>1, <2>4, <2>5, JobGoesOn
  <2> QED
    BY <2>1, <2>2, <2>3, <2>6, RuntimeIsRewritten
<1>5. CASE RemoveObsoleteFiles
  <2>1. /\ runtime' = [runtime EXCEPT !["cache"] = Missing, !["realtime"] = Missing]
        /\ job.at = "files" /\ job' = [job EXCEPT !.at = "marker"]
        /\ UNCHANGED <<current, marker, moment>>
    BY <1>5 DEF RemoveObsoleteFiles
  <2>2. ASSUME NEW db \in Cleaned, NEW r \in runtime'[db] PROVE Shape(db, r) /\ Since(r)
    <3>1. r \in runtime[db] \/ r \in Missing
      BY <2>1, <1>t
    <3> QED
      BY <3>1, <1>r, MissingIsHarmless
  <2>3. DOMAIN runtime' = Cleaned
    BY <2>1, <1>t
  <2>4. job' \in Jobs /\ JobKnows'
    BY <2>1, JobGoesOn DEF Places
  <2> QED
    BY <2>1, <2>2, <2>3, <2>4, RuntimeIsRewritten
<1>6. CASE WriteMarker
  <2>1. /\ job.at = "marker" /\ marker' = IF job.first = "yes" THEN job.baseline ELSE marker
        /\ job' = [job EXCEPT !.at = "snapshot"] /\ UNCHANGED <<runtime, current, moment>>
    BY <1>6 DEF WriteMarker
  <2>2. /\ job.first = "yes" => marker = 0 /\ job.baseline # 0 /\ job.baseline <= moment
        /\ job.first = "no" => marker # 0
        /\ job.first \in {"yes", "no"} /\ job.baseline \in Nat
    BY <2>1, <1>t DEF JobKnows, Jobs
  <2>3. marker' \in Nat /\ marker' # 0 /\ marker' <= moment
    BY <2>1, <2>2, <1>t
  <2>4. job' \in Jobs /\ job'.at = "snapshot"
    BY <2>1, <1>t DEF Jobs, Places
  <2>5. BaselineTypeOK' /\ JobKnows'
    BY <2>1, <2>3, <2>4, <1>t DEF BaselineTypeOK, JobKnows
  <2>6. ASSUME NEW r, Since(r) PROVE Since(r)'
    BY <2>1, <2>2, <2>6 DEF Since
  <2>7. \A db, r : Shape(db, r)' <=> Shape(db, r)
    BY DEF Shape
  <2>8. RowsAreLate'
    <3>1. \A db \in Cleaned : \A r \in runtime'[db] : Shape(db, r)' /\ Since(r)'
      BY <2>1, <2>6, <2>7, <1>r
    <3>2. \A db \in Critical : \A r \in current'[db] : Shape(db, r)' /\ Since(r)'
      BY <2>1, <2>6, <2>7, <1>r
    <3> QED
      BY <3>1, <3>2 DEF RowsAreLate
  <2> QED
    BY <2>5, <2>8
<1>7. CASE StartServices
  <2>1. job.at = "snapshot" /\ job' = [job EXCEPT !.at = "up"]
        /\ UNCHANGED <<runtime, current, marker, moment>>
    BY <1>7 DEF StartServices
  <2>2. job' \in Jobs /\ job'.at = "up"
    BY <2>1, <1>t DEF Jobs, Places
  <2>3. JobKnows'
    BY <2>1, <2>2 DEF JobKnows
  <2> QED
    BY <2>1, <2>2, <2>3, <1>t, <1>r, RuntimeIsRewritten
<1>8. CASE MomentPasses
  <2>1. moment' = moment + 1 /\ UNCHANGED <<runtime, current, root, marker, job>>
    BY <1>8 DEF MomentPasses
  <2>2. BaselineTypeOK'
    BY <2>1, <1>t DEF BaselineTypeOK
  <2>3. RowsAreLate'
    BY <2>1 DEF RowsAreLate, Shape, Since
  <2>4. job.baseline \in Nat
    BY <1>t DEF Jobs
  <2>5. JobKnows'
    BY <2>1, <2>4, <1>t DEF JobKnows
  <2> QED
    BY <2>2, <2>3, <2>5
<1>9. CASE LoseContainer
  <2>1. runtime' = [db \in Cleaned |-> Missing] /\ job' = Start /\ UNCHANGED <<current, marker, moment>>
    BY <1>9 DEF LoseContainer
  <2>2. job' \in Jobs /\ JobKnows'
    BY <2>1 DEF Start, Jobs, Places, JobKnows
  <2>3. \A db \in Cleaned : \A r \in runtime'[db] : Shape(db, r) /\ Since(r)
    BY <2>1, MissingIsHarmless
  <2>4. DOMAIN runtime' = Cleaned
    BY <2>1
  <2> QED
    BY <2>1, <2>2, <2>3, <2>4, RuntimeIsRewritten
<1>10. ASSUME NEW db \in Critical, CopyDatabase(db) PROVE BaselineInv'
  <2>1. current' = [current EXCEPT ![db] = runtime[db]] /\ UNCHANGED <<runtime, marker, job, moment>>
    BY <1>10 DEF CopyDatabase
  <2>2. BaselineTypeOK' /\ JobKnows'
    BY <2>1, <1>t DEF BaselineTypeOK, JobKnows
  <2>3. ASSUME NEW d \in Critical, NEW r \in current'[d] PROVE Shape(d, r) /\ Since(r)
    <3>1. r \in current[d] \/ (d = db /\ r \in runtime[db])
      BY <2>1, <1>t
    <3> QED
      BY <3>1, <1>r, <1>c
  <2>4. RowsAreLate'
    BY <2>1, <2>3, <1>r DEF RowsAreLate, Shape, Since
  <2> QED
    BY <2>2, <2>4
<1>11. ASSUME NEW db \in Critical, Record(db) PROVE BaselineInv'
  <2>1. job.at = "up" /\ UNCHANGED <<current, root, marker, job, moment>>
    BY <1>11 DEF Record
  <2>2. PICK w \in Written(db, moment) :
          runtime' = [runtime EXCEPT ![db] = IF runtime[db] = Missing THEN {w} ELSE runtime[db] \cup {w}]
    BY <1>11 DEF Record
  <2>3. marker # 0
    BY <2>1 DEF JobKnows
  <2>4. Shape(db, w) /\ Since(w)
    BY <2>3, WrittenAreLate
  <2>5. ASSUME NEW d \in Cleaned, NEW r \in runtime'[d] PROVE Shape(d, r) /\ Since(r)
    <3>1. r \in runtime[d] \/ (d = db /\ r = w)
      BY <2>2, <1>t
    <3> QED
      BY <3>1, <2>4, <1>r
  <2>6. DOMAIN runtime' = Cleaned
    BY <2>2, <1>t
  <2>7. job' \in Jobs /\ JobKnows'
    BY <2>1, <1>t DEF JobKnows
  <2> QED
    BY <2>1, <2>5, <2>6, <2>7, RuntimeIsRewritten
<1>12. CASE UNCHANGED baselineVars
  <2>1. UNCHANGED <<runtime, current, marker, job, moment>>
    BY <1>12 DEF baselineVars
  <2>2. JobKnows'
    BY <2>1 DEF JobKnows
  <2> QED
    BY <2>1, <2>2, <1>t, <1>r, RuntimeIsRewritten
<1> QED
  BY <1>1, <1>2, <1>3, <1>4, <1>5, <1>6, <1>7, <1>8, <1>9, <1>10, <1>11, <1>12 DEF BaselineNext

(* what one database loses when it is cleaned *)
LEMMA EvidenceIsKept ==
  ASSUME BaselineInv, BaselineNext, NEW db \in Critical, job.at = db, job'.at # "boot",
         runtime[db] # Missing, NEW r \in runtime[db], r.market = "crypto",
         (r.born > 0 /\ job.read = "well") \/ r.waits = "yes"
  PROVE  r \in runtime'[db]
<1> USE DEF BaselineInv
<1>1. Shape(db, r) /\ Since(r) /\ DOMAIN runtime = Cleaned /\ db \in Cleaned /\ marker \in Nat
  BY DEF RowsAreLate, BaselineTypeOK, Cleaned
<1>2. /\ job.first = "yes" => marker = 0
      /\ job.first = "no" /\ job.read = "well" => job.baseline = marker
      /\ job.first \in {"yes", "no"} /\ job.at = db
  BY DEF JobKnows, BaselineTypeOK, Jobs, Critical
<1>3. r.born > 0 /\ job.read = "well" => job.first = "no" /\ r.born >= job.baseline
  BY <1>1, <1>2 DEF Since, Shape
<1>4. \/ db = "simulation" /\ CleanSimulation
      \/ db # "simulation" /\ CleanEvidence(db)
      \/ runtime' = runtime
  BY DEF BaselineNext, Bootstrap, FallBack, ReadMarker, CleanSimulation, CleanEvidence,
     RemoveObsoleteFiles, WriteMarker, StartServices, MomentPasses, LoseContainer, CopyDatabase,
     Record, Critical, Start
<1>5. CASE db = "simulation" /\ CleanSimulation
  <2>1. r.kind = "decision" \/ (r.kind = "ledger" /\ r.account = "crypto")
    BY <1>1, <1>5 DEF Shape
  <2>2. KeepsSimulation(r)
    BY <1>3, <2>1 DEF KeepsSimulation
  <2>3. runtime'["simulation"] = {x \in runtime["simulation"] \cup {MasterAccount} : KeepsSimulation(x)}
    BY <1>1, <1>5 DEF CleanSimulation
  <2> QED
    BY <1>5, <2>2, <2>3
<1>6. CASE db # "simulation" /\ CleanEvidence(db)
  <2>1. r.waits = "no"
    BY <1>1, <1>6 DEF Shape
  <2>2. job.first = "no" /\ r.born >= job.baseline
    BY <1>3, <2>1
  <2>3. Keeps(db, r)
    <3>1. db \in {"direction", "governance", "quality"}
      BY <1>6 DEF Critical
    <3> QED
      BY <3>1, <2>2 DEF Keeps
  <2>4. runtime'[db] = {x \in runtime[db] : Keeps(db, x)}
    BY <1>1, <1>6 DEF CleanEvidence
  <2> QED
    BY <2>3, <2>4
<1>7. CASE runtime' = runtime
  BY <1>7
<1> QED
  BY <1>4, <1>5, <1>6, <1>7

(* However often the container is lost between two steps of the script,    *)
(* what was recorded since the baseline is never taken for evidence of the *)
(* time before it, and a pending order keeps its decision                  *)
(* (crypto_lite_cleanup.main).                                             *)
THEOREM EvidenceOutlivesStarts == BaselineSpec => EvidenceSurvivesCleanup
<1>1. BaselineInv /\ [BaselineNext]_baselineVars =>
        [\A db \in Critical : job.at = db /\ job'.at # "boot" /\ runtime[db] # Missing =>
           \A r \in runtime[db] :
             r.market = "crypto" /\ ((r.born > 0 /\ job.read = "well") \/ r.waits = "yes")
               => r \in runtime'[db]]_baselineVars
  BY EvidenceIsKept
<1> QED
  BY <1>1, BaselineInvInit, BaselineInvNext, PTL DEF BaselineSpec, EvidenceSurvivesCleanup

-----------------------------------------------------------------------------
(* Sidecar: the ages stop at Oldest, so every record stays in its type     *)

ChildRows == [is : {"starting", "well", "hung", "stuck", "gone"}, uptime : 0..Oldest,
              start : 0..StartChecks[sidecar]]
StatusRows == [of : {"nobody", "child", "previous"}, beat : 0..Oldest, phase : {"RUNNING", "IDLE"},
               cycle : 0..Oldest]
TickRows == [age : 0..Oldest, symbol : {"valid", "invalid"}, stream : {"flows", "silent"},
             rest : {"up", "down"}]

LEMMA OldestIsAnAge ==
  /\ Oldest \in Nat /\ 0 \in 0..Oldest /\ Oldest \in 0..Oldest /\ MaxFailures \in Nat
  /\ \A age \in 0..Oldest : Elder(age) \in 0..Oldest
<1>1. StaleAfter \in Nat /\ CycleMax \in Nat /\ RestartAge \in Nat /\ MaxFailures \in Nat
  BY SidecarAssumption DEF SidecarAssumption
<1>2. Oldest \in Nat
  BY <1>1 DEF Oldest
<1> QED
  BY <1>1, <1>2 DEF Elder

LEMMA SidecarTypeInit == SidecarInit => SidecarTypeOK
BY OldestIsAnAge DEF SidecarInit, SidecarTypeOK, NoStatus, Launches

LEMMA SidecarTypeStep == SidecarTypeOK /\ [SidecarNext]_sidecarVars => SidecarTypeOK'
<1> SUFFICES ASSUME SidecarTypeOK, [SidecarNext]_sidecarVars PROVE SidecarTypeOK'
  OBVIOUS
<1>a. /\ sidecar \in Kinds /\ child \in ChildRows /\ status \in StatusRows /\ tick \in TickRows
      /\ watcher \in {"sleep", "check", "stop"} /\ failures \in 0..MaxFailures
  BY DEF SidecarTypeOK, ChildRows, StatusRows, TickRows
<1>b. ASSUME sidecar' = sidecar, child' \in ChildRows, status' \in StatusRows, tick' \in TickRows,
             watcher' \in {"sleep", "check", "stop"}, failures' \in 0..MaxFailures
      PROVE  SidecarTypeOK'
  BY <1>a, <1>b DEF SidecarTypeOK, ChildRows, StatusRows, TickRows
<1> USE OldestIsAnAge DEF ChildRows, StatusRows, TickRows
<1>1. CASE WriteBeat
  BY <1>1, <1>a, <1>b DEF WriteBeat
<1>2. CASE TurnCycle
  <2>1. status' = [of |-> status.of, beat |-> 0, cycle |-> 0,
                   phase |-> IF status.phase = "RUNNING" THEN "IDLE" ELSE "RUNNING"]
    BY <1>2, <1>a DEF TurnCycle
  <2> QED  BY <1>2, <1>a, <1>b, <2>1 DEF TurnCycle
<1>3. CASE QuoteArrives
  BY <1>3, <1>a, <1>b DEF QuoteArrives
<1>4. ASSUME NEW how \in {"gone", "hung", "stuck"}, ChildFails(how) PROVE SidecarTypeOK'
  BY <1>4, <1>a, <1>b DEF ChildFails
<1>5. CASE StreamSilent
  BY <1>5, <1>a, <1>b DEF StreamSilent
<1>6. CASE RestDown
  BY <1>6, <1>a, <1>b DEF RestDown
<1>7. CASE RestUp
  BY <1>7, <1>a, <1>b DEF RestUp
<1>8. CASE SleepToCheck
  <2>1. /\ child' = [is |-> child.is, uptime |-> Elder(child.uptime), start |-> child.start]
        /\ status' = [of |-> status.of, beat |-> Elder(status.beat), phase |-> status.phase,
                      cycle |-> Elder(status.cycle)]
        /\ tick' = [age |-> Elder(tick.age), symbol |-> tick.symbol, stream |-> tick.stream,
                    rest |-> tick.rest]
    BY <1>8, <1>a DEF SleepToCheck
  <2> QED  BY <1>8, <1>a, <1>b, <2>1 DEF SleepToCheck
<1>9. CASE CheckTca
  BY <1>9, <1>a, <1>b DEF CheckTca, Watch
<1>10. CASE CheckRealtime
  <2>1. tick' \in TickRows /\ watcher' \in {"sleep", "check", "stop"}
    BY <1>10, <1>a DEF CheckRealtime, Watch
  <2> QED  BY <1>10, <1>a, <1>b, <2>1 DEF CheckRealtime
<1>11. CASE CheckDirection
  BY <1>11, <1>a, <1>b DEF CheckDirection, Watch
<1>12. CASE LaunchSidecar
  BY <1>12, <1>a, <1>b DEF LaunchSidecar, Launches
<1>13. CASE UNCHANGED sidecarVars
  BY <1>13, <1>a, <1>b DEF sidecarVars
<1> QED
  BY <1>1, <1>2, <1>3, <1>4, <1>5, <1>6, <1>7, <1>8, <1>9, <1>10, <1>11, <1>12, <1>13
  DEF SidecarNext

(* A sidecar, its files and its supervisor keep their types, every age     *)
(* within Oldest (the three supervisors).                                  *)
THEOREM SidecarTypeCorrect == SidecarSpec => []SidecarTypeOK
BY SidecarTypeInit, SidecarTypeStep, PTL DEF SidecarSpec

-----------------------------------------------------------------------------
(* RealtimeFeed: the message at hand is of a symbol of the stream *)

StreamRows == [at : {"closed", "check", "recv", "exit", "signal"}, symbols : SUBSET Assets,
               symbol : Assets \union {"none"}, price : Prices \union {"none"}]
RefreshRows == [at : {"idle", "write"}, rows : SUBSET Assets]
SignalNames == {"none", "HOLD", "STOP_TOUCH", "TARGET_TOUCH", "ENTRY_CONFIRM", "WATCH"}

LEMMA FeedTypeInit == FeedInit => FeedTypeOK
BY DEF FeedInit, FeedTypeOK, Closed

LEMMA FeedTypeStep == FeedTypeOK /\ [FeedNext]_feedVars => FeedTypeOK'
<1> SUFFICES ASSUME FeedTypeOK, [FeedNext]_feedVars PROVE FeedTypeOK'
  OBVIOUS
<1>a. /\ held \subseteq Assets /\ watchlist \subseteq Assets /\ quotes \subseteq Assets
      /\ signals \in [Assets -> SignalNames] /\ refresh \in RefreshRows /\ stream \in StreamRows
  BY DEF FeedTypeOK, SignalNames, RefreshRows, StreamRows
<1>b. ASSUME held' \subseteq Assets, watchlist' \subseteq Assets, quotes' \subseteq Assets,
             signals' \in [Assets -> SignalNames], refresh' \in RefreshRows, stream' \in StreamRows
      PROVE  FeedTypeOK'
  BY <1>b DEF FeedTypeOK, SignalNames, RefreshRows, StreamRows
<1>c. Closed \in StreamRows
  BY DEF Closed, StreamRows
<1>1. ASSUME NEW s \in Assets, BarWorkerBuys(s) \/ BarWorkerSells(s) PROVE FeedTypeOK'
  BY <1>1, <1>a, <1>b DEF BarWorkerBuys, BarWorkerSells
<1>2. ASSUME NEW rows \in SUBSET Assets, ReadPositions(rows) PROVE FeedTypeOK'
  BY <1>2, <1>a, <1>b DEF ReadPositions, RefreshRows
<1>3. CASE SetWatchlist
  BY <1>3, <1>a, <1>b DEF SetWatchlist, RefreshRows, SignalNames
<1>4. CASE Connect
  BY <1>4, <1>a, <1>b DEF Connect, StreamRows
<1>5. CASE CheckSubscription
  BY <1>5, <1>a, <1>b, <1>c DEF CheckSubscription, StreamRows
<1>6. CASE NoMessage
  BY <1>6, <1>a, <1>b DEF NoMessage, StreamRows
<1>7. CASE StreamFails
  BY <1>7, <1>a, <1>b, <1>c DEF StreamFails
<1>8. ASSUME NEW s \in Assets, NEW p \in Prices, Message(s, p) PROVE FeedTypeOK'
  <2>1. stream' = [at |-> "exit", symbols |-> stream.symbols, symbol |-> s, price |-> p]
    BY <1>8, <1>a DEF Message, StreamRows
  <2> QED  BY <1>8, <1>a, <1>b, <2>1 DEF Message, UpsertQuote, StreamRows
<1>9. CASE ProtectPosition
  <2>1. held' \subseteq Assets
    BY <1>9, <1>a DEF ProtectPosition
  <2> QED  BY <1>9, <1>a, <1>b, <2>1 DEF ProtectPosition, StreamRows
<1>10. ASSUME NEW action \in {"ENTER", "WAIT"}, EvaluateSignal(action) PROVE FeedTypeOK'
  <2>1. stream' = [at |-> "check", symbols |-> stream.symbols, symbol |-> "none", price |-> "none"]
    BY <1>10, <1>a DEF EvaluateSignal, StreamRows
  <2>2. SignalOf(stream.symbol, stream.price, action) \in SignalNames
    BY DEF SignalOf, SignalNames
  <2>3. signals' \in [Assets -> SignalNames]
    BY <1>10, <1>a, <2>2 DEF EvaluateSignal
  <2> QED  BY <1>10, <1>a, <1>b, <2>1, <2>3 DEF EvaluateSignal, StreamRows
<1>11. ASSUME NEW s \in Assets, RestRefresh(s) PROVE FeedTypeOK'
  BY <1>11, <1>a, <1>b DEF RestRefresh, UpsertQuote
<1>12. CASE UNCHANGED feedVars
  BY <1>12, <1>a, <1>b DEF feedVars
<1> QED
  BY <1>1, <1>2, <1>3, <1>4, <1>5, <1>6, <1>7, <1>8, <1>9, <1>10, <1>11, <1>12
  DEF FeedNext, RefreshStep, StreamStep

(* Watchlist, stream and tables keep their types: whatever is subscribed,  *)
(* quoted or signalled is an asset of the market (realtime_worker.py).     *)
THEOREM FeedTypeCorrect == FeedSpec => []FeedTypeOK
BY FeedTypeInit, FeedTypeStep, PTL DEF FeedSpec
================================================================================
