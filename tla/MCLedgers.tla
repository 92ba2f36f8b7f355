------------------------------ MODULE MCLedgers ------------------------------
(***************************************************************************)
(* Instances for TLC of the parts beside the simulation that keep a ledger *)
(* of their own.  They share no variable: each writes tables nobody else   *)
(* writes, so that what holds of one alone holds of it beside the others.  *)
(* scene says which of them moves.                                         *)
(***************************************************************************)
EXTENDS ForwardTest, CryptoShadow, CryptoResearch, DirectionLedger, TcaStore, PaperMirror,
        EntrySizing, Maintenance, CleanBaseline, Universe, HealthReport

VARIABLE scene

ledgersVars ==
  <<scene, forwardVars, cryptoVars, researchVars, directionVars, tcaVars, mirrorVars,
    sizingVars, maintenanceVars, baselineVars, universeVars, healthVars>>

(* a quiet bar with or without a signal, and one that reaches both levels  *)
DailyBars ==
  {[open |-> 1, range |-> x[1], signal |-> x[2]] :
     x \in {<<"quiet", 0>>, <<"quiet", 1>>, <<"both", 1>>}}

OneSetup == {[strategy |-> "TREND", regime |-> "BULL"]}
Losses == {-1}
BarsOfEach == [s \in Symbols |-> IF s = Btc THEN 2 ELSE 3]
TwoMarks == <<1, 2>>
TwoDatabases == <<"a", "b">>
OneAccount == {[equity |-> 1000, gross |-> 1500]}

(* those that do not move start anywhere *)
Someone(S) == CHOOSE x \in S : TRUE

LedgersInit ==
  /\ scene \in {"forward", "crypto", "research", "direction", "tca", "mirror", "sizing",
                "maintenance", "baseline", "universe", "health"}
  /\ ForwardInit /\ CryptoInit /\ ResearchInit /\ DirectionInit /\ TcaInit /\ MirrorInit
  /\ SizingInit /\ MaintenanceInit /\ BaselineInit /\ UniverseInit /\ HealthInit
  /\ scene # "sizing" => account = Someone(Accounts) /\ request = Someone(Requests)
  /\ scene # "health" => focus = "main"

OfForward(A) ==
  /\ scene = "forward" /\ A
  /\ UNCHANGED <<scene, cryptoVars, researchVars, directionVars, tcaVars, mirrorVars,
                 sizingVars, maintenanceVars, baselineVars, universeVars, healthVars>>
OfCrypto(A) ==
  /\ scene = "crypto" /\ A
  /\ UNCHANGED <<scene, forwardVars, researchVars, directionVars, tcaVars, mirrorVars,
                 sizingVars, maintenanceVars, baselineVars, universeVars, healthVars>>
OfResearch(A) ==
  /\ scene = "research" /\ A
  /\ UNCHANGED <<scene, forwardVars, cryptoVars, directionVars, tcaVars, mirrorVars,
                 sizingVars, maintenanceVars, baselineVars, universeVars, healthVars>>
OfDirection(A) ==
  /\ scene = "direction" /\ A
  /\ UNCHANGED <<scene, forwardVars, cryptoVars, researchVars, tcaVars, mirrorVars,
                 sizingVars, maintenanceVars, baselineVars, universeVars, healthVars>>
OfTca(A) ==
  /\ scene = "tca" /\ A
  /\ UNCHANGED <<scene, forwardVars, cryptoVars, researchVars, directionVars, mirrorVars,
                 sizingVars, maintenanceVars, baselineVars, universeVars, healthVars>>
OfMirror(A) ==
  /\ scene = "mirror" /\ A
  /\ UNCHANGED <<scene, forwardVars, cryptoVars, researchVars, directionVars, tcaVars,
                 sizingVars, maintenanceVars, baselineVars, universeVars, healthVars>>
OfSizing(A) ==
  /\ scene = "sizing" /\ A
  /\ UNCHANGED <<scene, forwardVars, cryptoVars, researchVars, directionVars, tcaVars,
                 mirrorVars, maintenanceVars, baselineVars, universeVars, healthVars>>
OfMaintenance(A) ==
  /\ scene = "maintenance" /\ A
  /\ UNCHANGED <<scene, forwardVars, cryptoVars, researchVars, directionVars, tcaVars,
                 mirrorVars, sizingVars, baselineVars, universeVars, healthVars>>
OfBaseline(A) ==
  /\ scene = "baseline" /\ A
  /\ UNCHANGED <<scene, forwardVars, cryptoVars, researchVars, directionVars, tcaVars,
                 mirrorVars, sizingVars, maintenanceVars, universeVars, healthVars>>
OfUniverse(A) ==
  /\ scene = "universe" /\ A
  /\ UNCHANGED <<scene, forwardVars, cryptoVars, researchVars, directionVars, tcaVars,
                 mirrorVars, sizingVars, maintenanceVars, baselineVars, healthVars>>
OfHealth(A) ==
  /\ scene = "health" /\ A
  /\ UNCHANGED <<scene, forwardVars, cryptoVars, researchVars, directionVars, tcaVars,
                 mirrorVars, sizingVars, maintenanceVars, baselineVars, universeVars>>

(* The actions of each part, one by one, so that TLC counts each of them  *)
LedgersNext ==
  \/ \E c \in Candidates, q \in Quotes : OfForward(DayCloses(c, q))
  \/ \E c \in Candidates, k \in {"forward", "horizon"} : OfForward(RegisterCandidate(c, k))
  \/ \E r \in Runners : OfForward(StartRun(r))
  \/ \E r \in Runners, c \in Candidates : OfForward(LoadHistory(r, c))
  \/ \E r \in Runners : OfForward(ReadState(r))
  \/ \E r \in Runners : \E t \in runner[r].rows : OfForward(InsertTrade(r, t))
  \/ \E r \in Runners : OfForward(UpsertEquity(r))
  \/ \E r \in Runners : OfForward(UpsertState(r))
  \/ \E r \in Runners : OfForward(CandidateFails(r))
  \/ \E r \in Runners : OfForward(FinishRun(r))
  \/ \E r \in Runners : OfForward(RunnerDies(r))
  \/ \E s \in Symbols : OfCrypto(BarCloses(s))
  \/ OfCrypto(StartCycle)
  \/ \E s \in Symbols, exit \in {"none", "price"}, r \in Routes, a \in Asks :
       OfCrypto(BeginBar(s, exit, r, a))
  \/ \E r \in Routes : OfCrypto(FillPending(r))
  \/ \E x \in Results : OfCrypto(ExitAtPrice(x))
  \/ OfCrypto(CountBar)
  \/ \E x \in Results : OfCrypto(ExitInTime(x))
  \/ OfCrypto(NothingHeld)
  \/ OfCrypto(Decide)
  \/ OfCrypto(AddBuyOrder)
  \/ OfCrypto(SetLastProcessed)
  \/ OfCrypto(BarFails)
  \/ OfCrypto(EngineCut)
  \/ OfResearch(BarEnds)
  \/ OfResearch(StartResearch)
  \/ OfResearch(AdvanceEvaluations)
  \/ OfResearch(RecordDecision)
  \/ \E touch \in BOOLEAN : OfResearch(FollowBlocked(touch))
  \/ OfResearch(BlockEntry)
  \/ OfResearch(NothingBlocked)
  \/ OfResearch(MoveCursor)
  \/ OfResearch(ResearchFails)
  \/ OfResearch(ResearchCut)
  \/ OfDirection(CacheStep)
  \/ OfDirection(ReadBars)
  \/ \E i \in DOMAIN predictions, touch \in [1..Window -> Touches] :
       OfDirection(EvaluatePair(i, touch))
  \/ OfDirection(AllEvaluated)
  \/ OfDirection(LookForPending)
  \/ \E d \in Decisions : OfDirection(Register(d))
  \/ OfDirection(DirectionStops)
  \/ OfDirection(SaveLedger)
  \/ OfDirection(ContainerLost)
  \/ OfTca(TcaTick)
  \/ \E g \in Signals : OfTca(SetSignal(g))
  \/ \E ts \in 0..LastTick : OfTca(SetQuote(ts))
  \/ OfTca(ReadSignal)
  \/ OfTca(ReadQuote)
  \/ OfTca(FollowUp)
  \/ OfTca(NoteSignal)
  \/ OfTca(InsertEvent)
  \/ OfTca(WorkerStops)
  \/ OfMirror(SleeveTrades)
  \/ OfMirror(AddSlot)
  \/ OfMirror(DisableSlot)
  \/ \E x \in Sessions : OfMirror(StartMirror(x))
  \/ \E x \in Sessions : OfMirror(FindEvent(x))
  \/ \E x \in Sessions : OfMirror(ReserveEvent(x))
  \/ \E x \in Sessions : OfMirror(SendRequest(x))
  \/ \E x \in Sessions, executed \in BOOLEAN : OfMirror(RequestFails(x, executed))
  \/ \E x \in Sessions : OfMirror(FinishEvent(x))
  \/ \E x \in Sessions : OfMirror(EndMirror(x))
  \/ \E x \in Sessions : OfMirror(SessionDies(x))
  \/ \E a \in Layers : \E x \in Answers[a] : OfSizing(AssessorAnswers(a, x))
  \/ \E a \in Layers : OfSizing(AssessorRaises(a))
  \/ OfSizing(Combine)
  \/ OfSizing(LeverageGuard)
  \/ OfSizing(GuardRaises)
  \/ OfSizing(FinalizeEntry)
  \/ OfSizing(FillBuy)
  \/ OfSizing(CancelBuy)
  \/ \E d \in Names : OfMaintenance(Write(d))
  \/ \E p \in Programs : OfMaintenance(Die(p))
  \/ \E p \in Programs : OfMaintenance(Relaunch(p))
  \/ OfMaintenance(Tick)
  \/ OfMaintenance(Discover)
  \/ \E p \in Programs : OfMaintenance(PauseOne(p))
  \/ OfMaintenance(AllStopped)
  \/ OfMaintenance(BeginCapture)
  \/ OfMaintenance(Capture)
  \/ OfMaintenance(CaptureFails)
  \/ OfMaintenance(Verify)
  \/ OfMaintenance(Ready)
  \/ OfMaintenance(AbortResumes)
  \/ OfMaintenance(OperatorDies)
  \/ OfMaintenance(ManualResume)
  \/ OfMaintenance(GuardianResumes)
  \/ OfBaseline(Bootstrap)
  \/ OfBaseline(FallBack)
  \/ OfBaseline(ReadMarker)
  \/ OfBaseline(CleanSimulation)
  \/ OfBaseline(RemoveObsoleteFiles)
  \/ OfBaseline(WriteMarker)
  \/ OfBaseline(StartServices)
  \/ OfBaseline(MomentPasses)
  \/ OfBaseline(LoseContainer)
  \/ \E db \in Cleaned \ {"simulation"} : OfBaseline(CleanEvidence(db))
  \/ \E db \in Critical : OfBaseline(CopyDatabase(db))
  \/ \E db \in Critical : OfBaseline(Record(db))
  \/ OfUniverse(BeginCycle)
  \/ OfUniverse(SkipRefresh)
  \/ OfUniverse(RefreshFails)
  \/ OfUniverse(SyncMarket)
  \/ OfUniverse(WriteState)
  \/ OfUniverse(BeginSimulation)
  \/ OfUniverse(BeginGovernance)
  \/ OfUniverse(EndCycle)
  \/ OfUniverse(CopyLab)
  \/ OfUniverse(CopyGovernance)
  \/ OfUniverse(HourPasses)
  \/ OfUniverse(CycleCut)
  \/ OfUniverse(RestoreCopies)
  \/ \E S \in SUBSET Coins : OfUniverse(DiscoverCoins(S))
  \/ \E s \in Coins : OfUniverse(RegisterArena(s))
  \/ \E s \in Coins : OfUniverse(PlaceBuy(s))
  \/ \E s \in Coins : OfUniverse(FillOrder(s))
  \/ \E s \in Coins : OfUniverse(SellPosition(s))
  \/ \E s \in Coins : OfUniverse(DecideArena(s))
  \/ \E s \in Coins : OfUniverse(ProtectiveExit(s))
  \/ OfHealth(MainBeats)
  \/ OfHealth(MainBegins)
  \/ OfHealth(MainReportsProgress)
  \/ OfHealth(MainReplaced)
  \/ OfHealth(DirectionBeats)
  \/ OfHealth(DirectionBegins)
  \/ OfHealth(RegisterPrediction)
  \/ OfHealth(DirectionRaises)
  \/ OfHealth(DirectionReplaced)
  \/ OfHealth(CopyLedger)
  \/ OfHealth(WriteBackupStatus)
  \/ OfHealth(BackupFails)
  \/ OfHealth(ExportStorage)
  \/ OfHealth(ReadMain)
  \/ OfHealth(ReadStorage)
  \/ OfHealth(ReadDirection)
  \/ OfHealth(ReadBackup)
  \/ OfHealth(Publish)
  \/ OfHealth(TimePasses)
  \/ \E how \in {"fine", "scan", "errors", "raised"} : OfHealth(MainEnds(how))
  \/ \E errors \in {"no", "yes"} : OfHealth(DirectionEnds(errors))
  \/ \E result \in {"OK", "PARTIAL", "ERROR"} : OfHealth(RescueEnds(result))

LedgersSpec == LedgersInit /\ [][LedgersNext]_ledgersVars

=============================================================================
