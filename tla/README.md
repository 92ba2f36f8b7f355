# Verification of V6 Quant Lab

V6 Quant Lab is a virtual trading laboratory: several Python processes on one
machine share a handful of SQLite databases, decide on closed market bars,
fill orders in a paper account, and copy the databases to a persistent volume
because the runtime file system is lost with the container. This directory
holds TLA+ models of the parts whose correctness depends on the order of steps,
TLC configurations that check them on small instances, and TLAPS proofs.

Paths below are relative to the repository. `simulation_db.py` means
`src/simulation_db.py`, and so on, unless the file is in the root.

## 1. Inventory

### Processes

`cloud_start.sh` restores the runtime databases (`storage_rescue.py bootstrap`),
cleans legacy rows, takes a first snapshot (`storage_rescue.py snapshot`) and
starts the processes. `V6_SINGLE_CRYPTO_ACCOUNT=1` is the default: one paper
account `crypto-main` trades every crypto symbol, and three horizons (short,
medium, long) compete for each symbol.

| process | what it does | shared state it writes |
|---|---|---|
| `worker_supervisor_v8.py` -> `live_worker_v8.py` | the bar worker: every 60 s `AutoOrchestratorV8.full_cycle` | simulation_lab, model_governance, market cache, status and progress files |
| `realtime_supervisor.py` -> `realtime_worker.py` | quotes, protective exits, advisory signals | simulation_lab, quote and signal tables |
| `tca_supervisor.py` | execution-quality observations | TCA tables |
| `storage_rescue.py watch` (and its direction thread) | copies the critical databases to the volume, purges staging files | `v6-snapshots/current` |
| `direction_shadow_supervisor.py` | LONG/SHORT/NO_TRADE predictions and their evaluation | direction_forward |
| exporters, external intelligence, dashboards | read and present | JSON files only |

### Components, their state, what can go wrong, what makes them correct

| component | state and operations | hard behaviour | correctness |
|---|---|---|---|
| simulation database (`simulation_db.py`) | orders, positions, trades, cash, decisions, cursors; one transaction per method | no lock spans two methods, callers write back what they read earlier | rows of one fill change together; a lot is held or realised once; the cash figure is the ledger's |
| bar worker (`simulation_engine.py`) | locals between two database calls; `process_asset_horizon` bar by bar | abandoned bars are replayed; horizons of different bar length take turns on one account | no look-ahead, no bar decided twice, holding time exact, every order resolved |
| realtime worker (`realtime_layer.py`, `realtime_worker.py`) | quotes, watchlist, signals; `execute_realtime_protective_exit` | races with the bar worker on the same position | a position is closed once, no booked cash is lost |
| orchestrator (`auto_orchestrator_v8.py`) | calibration budget, cycle over symbols | one symbol's exception must not stop the cycle; pairs that keep failing | every pair is calibrated in the end, an arena's incumbent is left alone |
| governance (`champion_challenger.py`) | arenas, challengers, snapshots in a database of its own | two databases without a common transaction | at most one active arena per pair; a promotion is applied once |
| snapshots and rescue (`storage_rescue.py`, `_checkpoint_persistent`) | one snapshot per database, staging files of several writers | older copies replacing newer ones, purge of a file in use, disk full, lost container | the snapshot is always whole, never undone by a restart, and catches up |
| supervision (`worker_supervisor_v8.py`, `live_worker_v8.py`, `worker_progress.py`, `status_file.py`) | heartbeat, progress and request files | heartbeats survive a stuck cycle; files replaced while read | a stuck worker is restarted, a slow one is not |
| sidecar supervisors (`realtime_supervisor.py`, `tca_supervisor.py`, `direction_shadow_supervisor.py`) | child process, its status file, the quotes' age | a status file outlives its writer; a stream that is silent is not a worker that is dead | what hangs is replaced, what is well is left running |
| watchlist and stream (`realtime_worker.py`, `realtime_layer.py`) | watchlist, subscription, quote and signal tables | two threads over one list, a limited number of stream slots | a held symbol is streamed in the end |
| market cache (`market_cache.py`) | bars per symbol and timeframe, time of the last attempt | throttled fetches, bars still open, failed requests | no gap; only the last row can be partial |
| forward validation (`forward.py`, `forward_db.py`) | candidate state, trades, equity | several runners; a cut between trade, equity and state row | replay changes nothing: a bar has one result |
| multi-horizon, paper mirror (`horizon.py`, `paper_mirror.py`) | sleeves as above; mirrored events around a broker call | a cut or a lost answer between reservation and result | a trade is sent at most once |
| crypto v2 shadow (`crypto_v2/`) | shadow account, event plan, research ledger | bars in several transactions, replays, caps over positions and orders | the account is conserved; an evaluation never looks at its own bar |
| direction ledger (`direction_forward.py`) | predictions with a window | restart, late bars, ledger restored from a snapshot | evaluated samples are of disjoint windows, each in its own |
| entry gate and risk sizing (`entry_gate.py`, `risk_sizing.py`, `leverage_guard.py`, ...) | pure functions on one entry | assessors that raise or find no row | an entry that was not assessed is not made; caps hold after rounding |
| TCA (`tca_engine.py`, `tca_worker.py`) | events with marks, the last signal seen | the worker stops between noting a signal and writing its event; quotes whose time goes back | samples are not inflated |
| universe (`dynamic_universe.py`) | enabled symbols | a held symbol leaving the universe; databases restored from different moments | whoever is held or in an arena is processed |
| clean baseline (`crypto_lite_cleanup.py`), maintenance pause (`ops/prepare_deploy.py`) | databases and a marker; stopped processes and a lease | interruption anywhere | evidence since the baseline survives; nobody stays paused; copies are of one instant |
| health report (`runtime_health_exporter.py`) | one JSON file, from the files of four others | files outlive their writers, loops hang while heartbeats go on | HEALTHY is published of healthy processes only |
| trial ledger, migration, local backup | append-only rows, one-shot file jobs | interruption | repeatable |
| research, statistics, dashboards, legacy stock adapters | no state carried between steps | numerical | outside the models |

`PROJECT.json` lists the same parts with what is modelled of each, and under
`hazards` every place in the code where one of the hard behaviours bites.

### How the modelled parts interact

    AutoOrchestratorV8._run_ready_once            realtime_worker
            | one symbol after another                  | one quote at a time
            v                                           v
    SimulationLab.process_crypto_symbol_adaptive   execute_realtime_protective_exit
            | read / transaction / read / ...           | read, then one transaction
            +------------------> SimulationDB <---------+
                                     | after each fill or exit
                                     v
                        _checkpoint_persistent --> v6-snapshots/current <-- storage_rescue.py

The other parts touch these at few points: the direction worker reads the bars the
bar worker caches (`MarketCache`, `DirectionLedger`); the realtime worker reads the
positions and writes quotes and signals, which the TCA worker polls (`RealtimeFeed`,
`TcaStore`); the universe decides which symbols a cycle visits (`Universe`); the
clean baseline runs between the bootstrap and the start of the services
(`CleanBaseline`); the exporters read files. Forward validation, the sleeves and
the mirror are started from the dashboard (`app.py`) or `run_forward_once.py` and
keep databases of their own. Crypto V2 has no launcher at this commit.

## 2. Modules

| module | models | rests on |
|---|---|---|
| `SimulationDB` | tables of the shared crypto account and the transactions on them | - |
| `SimulationLab` | bar worker, realtime worker and clock on those tables; the properties | EXTENDS `SimulationDB` |
| `PaperAccount` | abstract: what the account promises, no process in sight | - |
| `MCSimulationLab` | values the cfg files cannot write down | EXTENDS `SimulationLab` |
| `SimulationLabProofs` | theorems about `SimulationLab` | EXTENDS `SimulationLab`, `TLAPS` |
| `SnapshotStore` | checkpoints, rescue cycle, purge, bootstrap on a small volume | - |
| `SnapshotStoreProofs` | theorems about `SnapshotStore` | EXTENDS `SnapshotStore`, `TLAPS` |
| `Governance` | calibration budget, arenas, promotion over two databases | - |
| `GovernanceProofs` | theorems about `Governance` | EXTENDS `Governance`, `TLAPS` |
| `Supervision` | bar worker and supervisor over the status and request files, with time | - |
| `SupervisionProofs` | theorems about `Supervision` | EXTENDS `Supervision`, `TLAPS` |
| `ForwardTest` | candidates and sleeves booked by several runners | - |
| `CryptoShadow` | account, event plan and caps of the crypto v2 engine | - |
| `CryptoResearch` | its evaluations and blocked entries | - |
| `MarketCache` | the cached bars of one pair | - |
| `DirectionLedger` | direction worker and its predictions | EXTENDS `MarketCache` |
| `TcaStore` | execution-cost events of one symbol | - |
| `LedgerProofs` | theorems about `DirectionLedger`, `ForwardTest`, `TcaStore`, `CryptoShadow`, `CryptoResearch` | EXTENDS them, `TLAPS` |
| `PaperMirror` | sessions that mirror a sleeve's trades to a broker | - |
| `EntrySizing` | one entry from its request to the fill | - |
| `OrderProofs` | theorems about `PaperMirror`, `EntrySizing` | EXTENDS them, `TLAPS` |
| `Maintenance` | the pause before a deploy | - |
| `MaintenanceProofs` | theorems about `Maintenance` | EXTENDS `Maintenance`, `TLAPS` |
| `CleanBaseline` | the clean baseline of every start | - |
| `Universe` | the refresh of the universe within a cycle | - |
| `HealthReport` | the health report and the files it reads | - |
| `Sidecar` | the three sidecar supervisors | - |
| `RealtimeFeed` | watchlist, stream, quotes and signals | - |
| `RuntimeProofs` | theorems about the last five | EXTENDS them, `TLAPS` |
| `MCLedgers` | instances of the eleven parts that keep a ledger or a file of their own | EXTENDS them |
| `MCServices` | instances of `Sidecar` and `RealtimeFeed` with their fairness | EXTENDS them |

### SimulationDB and SimulationLab

Every operator of `SimulationDB` with a primed variable is one SQLite
transaction. A caller's earlier reads arrive as parameters, as they do in the
code, so a stale read is written back stale.

**Money is provenance.** The cash column is a number. What matters is which
fills that number reflects, so `cash` is the set of BUY orders it was debited
for and the set of trades it was credited for. Writing a number computed from an
old read is writing back an old set, and a lost update is a set with an element
missing.

**A lot stands for a position's quantity, price and entry bar.** It is named by
the BUY order that opened it. `entryOrder` is kept apart because the code writes
that column in another statement than the rest (`upsert_position` leaves it).

**The worker's program counter is the code's.** Between two database calls
nothing protects the worker, so each label of `worker.at` is a gap between two
calls:

| label | code | next call |
|---|---|---|
| idle | loop of `_run_ready_once` | `select_crypto_horizon` |
| begin, bar | `process_asset_horizon` up to and including its loop header | cursor read, first-run registration |
| exec, settle | `_execute_pending` | pending order and position read; cancel, fill BUY, fill SELL |
| protect, guard | `_protect_position` | position read; upsert or close |
| financing, charge | `_accrue_financing` | cash read; `set_cash` |
| margin, liquidate, liquidating | `_margin_check` | positions read; account read; close, per position |
| decide, order | decision and order of the closed bar | `add_decision`; `add_order` |
| advance | `set_last_processed` | the last write of the bar |

Reads that no other process can tell apart are merged into one step; a step
never contains two writes, except that `SelectHorizon` moves the cursors of all
losing horizons at once. No other process reads those cursors, and a failure
between two of them is a `SelectHorizon` with a smaller `ready` set followed by
`Abandon`.

`Abandon` is an exception caught by the cycle's loop over symbols, a kill by the
supervisor or a crash of the worker: commits stay, locals are lost.
`RealtimeTrigger` and `RealtimeExit` are the two halves of
`execute_realtime_protective_exit`: it decides on a position it has read, and
closes whatever is there later.

Numbers are free choices: whether a bar reaches stop or target, whether sizing
leaves a notional, whether cash is negative or the margin is breached, and what
`decision_for` answers. Every choice the numbers allow is in the model; some
choices may not be reachable for given prices, so what holds in the model holds
in the code, and the two counterexamples below were compared with the source
step by step.

Bars are named by their close time; `OpenOf(h, b)` is the open of bar `b`. A
"medium" bar is twice a "short" one in the runs, so bars of two horizons overlap
without coinciding, which is what makes one account for several horizons hard.

### SnapshotStore

The content of a database file is the number of the last commit in it. The
volume's size is counted in copies. Workers and the rescue have a program
counter each (`worker[w].at`, `rescue`), with a step at every point where the
snapshot directory is read or changed:

| action | code |
|---|---|
| `CommitFill`, `OpenCheckpoint`, `CopyCheckpoint`, `ReplaceCheckpoint`, `FailCheckpoint` | a fill's transaction, then `_checkpoint_persistent`: staging file, `Connection.backup`, `os.replace`, the `except` branch |
| `KillWorker` | `_stop` in `worker_supervisor_v8.py` |
| `StartCycle`, `Backup`, `OpenCopy`, `WriteCopy`, `ReplaceCopy`, `RetryCycle`, `FailCycle`, `FinishCycle`, `StartWatch` | `snapshot_all`, `sqlite_backup`, `persist_one`, ENOSPC retry, `watch` |
| `Purge` (inside four of them) | `purge_old_snapshot_copies`: it unlinks every `.tmp` and `.new`, whoever is writing it |
| `Restart`, `Bootstrap` | a lost container; `bootstrap_runtime` |

A worker whose staging file was purged goes on writing an unlinked file and finds
out at `os.replace`; the caller never looks at the result. The two kinds of
backup differ: `sqlite_backup` pins the source with BEGIN, the checkpoint does
not, so it ends with the source as it is when the last page is copied.

Only `simulation_lab.sqlite3` has several writers, and it is the one modelled.
`V6_SNAPSHOT_KEEP` is 0 (no archives), as in production.

### Governance

A pair is a symbol and a horizon; pairs are numbered in the order `calibrate_due`
visits them. A model is its signature (strategy and frozen parameters, what
`model_signature` hashes). `model` and `updated` are in simulation_lab; `arenas`
and `research` are in model_governance. Each step is one transaction on one of
them, and `worker.at` names the gap the worker is in:

| label | code | next call |
|---|---|---|
| idle | the loop of `live_worker_v8.py` | `_pop_request`, then `full_cycle` |
| pair | `calibrate_due`, head of the loop | `active_arena`, `_model_due`, budget, backtest |
| initial | a first model is saved | `mark_research` |
| register | a candidate is calibrated | `register_challenge`: `active_arena`, `mark_research` |
| insert, refresh | research is noted | INSERT of the arena; `save_model` of the same signature |
| simulate | the trading phase (`SimulationLab`) | `process_active` |
| arena | head of its loop | evaluation and gate |
| promote | the challenger is saved as the model | `_set_arena_result` |
| mark | the arena is closed | `mark_research` |

`KillWorker` is the supervisor or a crash, in any gap; `CatchAttempt`,
`CatchCalibration` and `CatchGovernance` are exceptions caught by the loop over
pairs and the loop over arenas. Which signature a calibration finds and what
the gate answers are free, within its limits on forward days: promotion not
before `MinForward`, rejection not before `MaxForward`.

Only the bar worker writes models and arenas, and the supervisor terminates or
kills the old worker, and pauses, before it starts another; the dashboard asks
through the request file.

### Supervision

**Time.** Every time stamp is kept as its age; `Tick` adds a unit to all of them,
and the module needs no clock. A step takes no time, a wait does: `Tick` is
disabled while a process is due (`MainIsDue`, `HeartIsDue`, `SupervisorIsDue`). A
worker that is ill is not waited for.

**State.** `mem` is `worker_state` with `cycle_progress` (both under `status_lock`),
`file` is `worker_status.json`: missing, left by an earlier process, or a payload of
this one. STARTING, ONLINE, DEGRADED and ERROR are one status, RESTING: the
supervisor does not tell them apart. `main` and `heart` are the two threads that
write the file. Each takes its payload under the lock and replaces the file later,
outside it, within `Write`; updating `mem` and taking the payload are two locked
blocks of the main loop, merged because nobody else changes `mem`. The main thread's
payload needs no copy: `mem` does not change until it is in place.

| action | code |
|---|---|
| `EnterLoop`, `ReadRequest`, `Unlink`, `UnlinkFails`, `StartScheduled` | start of the threads, `_pop_request`, head of the main loop |
| `Report`, `FinishCycle`, `EndWrite`, `Wake` | `_report_progress`, the end of a cycle (completed or failed), `atomic_write_json`, `_sleep_until_due` |
| `TakePayload`, `EndBeat` | `_heartbeat_loop` |
| `Launch`, `Check`, `Stop` | `main`, `_restart_reason`, `_stop` of the supervisor |
| `Queue` | `_queue_worker_request` of the dashboard |
| `FallIll` | what may be wrong with a process: its cycle is stuck or endless, its disk refuses writes, all of it stops, or it exits |

The cycle itself (`full_cycle`) is reports and an end; what it does is in
`SimulationLab` and `Governance`. Process ids of successive workers are taken to be
different, and the wall clock not to jump. A main loop that is stuck between two
cycles would never be replaced, as its heartbeat goes on and shows no cycle; nothing
in that part of the loop waits, so the model has no such illness.

### The ledgers: ForwardTest, DirectionLedger, TcaStore, CryptoShadow, CryptoResearch

**ForwardTest** models `run_once`, `process_candidate` and `process_sleeve`. Cash,
quantity and cost basis are functions of the fills executed since the registration,
so `state[c].fills`, a set of trade rows, stands for the three. A runner is a process
or a dashboard session; two of them may hold the same candidate, each with the history
it loaded when it came to it. A bar is booked in up to four transactions
(`InsertTrade` per fill, `UpsertEquity`, `UpsertState`), and `runner[r].rows` are the
fills still to be written; an exception (`CandidateFails`) or the death of the process
(`RunnerDies`) may come between any two. `booked` is a history: the state first written
for each bar.

**MarketCache** has the cached rows of a pair as two sets, `final` and `partial`, by
whether their bar had closed when they were fetched. `DirectionLedger` reads it in
`ReadBars` and then evaluates, looks for a pending row and inserts one in three
transactions over that one copy; `SaveLedger` copies the ledger to the volume, and
`ContainerLost` brings back an earlier ledger and an empty cache.

**TcaStore** is `TCAWorker` on one symbol: quote and signal as `RealtimeFeed` writes
them, `NoteSignal` and `InsertEvent` the two transactions between which a stop loses an
event, `FollowUp` the marks. `raised` is a history: how often a signal has become a
trigger.

**CryptoShadow** is one horizon's account of the crypto v2 engine: the event plan in
time order, never cut within one time (`BoundedEvents`), and a bar as the transactions
`FillPending`, `ExitAtPrice`, `CountBar`, `ExitInTime`, `Decide`, `AddBuyOrder`,
`SetLastProcessed`. The caps are sums over positions and pending orders. An order's
strategy is routed again at the fill, with the BTC bars the engine has read by then
(`late`). **CryptoResearch** is what the research engine adds to each bar: the
evaluations advanced by it, the new decision, the followed entry that the caps blocked.

### Orders and files: EntrySizing, PaperMirror, Maintenance, CleanBaseline, Universe, HealthReport

**EntrySizing** takes one entry from its request to the fill: nine assessors answer or
raise one after the other, `Combine` takes the groups together as `active_entry_sizing`
does, `LeverageGuard` cuts to the room, `FinalizeEntry` is the gate. Percentages are
integers and products are rounded down. A score is one value for each step of its scale.

**PaperMirror**: a session reads the sleeve's rows, and for each without an event
reserves one (`INSERT OR IGNORE`), asks the broker and writes the outcome. A request may
be executed though its answer is lost; sessions die anywhere.

**Maintenance** is `ops/prepare_deploy.py`: discovery, SIGSTOP one process at a time,
the copies with `guard` between them, and the guardian with its lease. A process is a
pid and a start time. **CleanBaseline** is `crypto_lite_cleanup.py` between the bootstrap
and the services, row by row with one row for each kind the statements tell apart.
**Universe** is the refresh within a cycle (`DynamicUniverse.refresh_due`) with the
positions and arenas that pin a symbol, each read at its moment, and the orders that do not.
**HealthReport** is `runtime_health_exporter.py` with the loops whose files it reads; ages
saturate at `Old`, beyond every limit.

### Services: Sidecar, RealtimeFeed

**Sidecar**: time goes from one supervisor check to the next. The child may hang, be
stuck in a cycle or be gone; its status file carries whose it is, because a new process
finds the file of the one before it. At each launch `child.start` is chosen: the checks the
process takes to its first heartbeat. A check does not wait for that heartbeat. **RealtimeFeed**: `ReadPositions` and `SetWatchlist`
are one thread's read and write, the stream thread treats each message in three
transactions. `held` is the bar worker's table; what a close does to cash is in
`SimulationLab`.

### Composition

`SimulationLab` composes the bar worker, the realtime worker's exits and the shared
tables; `DirectionLedger` composes the worker with the cache it reads; `Universe` composes
cycle, realtime exits, governance and restored copies as far as they concern which symbols
are processed; `HealthReport` composes the exporter with four writers.

`MCLedgers` and `MCServices` are not compositions. Their parts share no variable, so what
holds of a part alone holds beside the others, and exploring them together would only
multiply states. `scene` picks the part that moves and the others stay in their initial
state; a property of a part that does not move is true of that state.

## 3. Runs

| run | instance | result |
|---|---|---|
| `lab_bar_worker` | bar worker alone, 1 symbol, 2 horizons, 6 instants, 2 orders, 1 abandoned bar; fair | all hold, about 415,000 states |
| `lab_two_workers` | bar and realtime worker, 2 symbols, 1 horizon, 4 instants, 2 orders, 1 abandoned bar; symmetric symbols | all hold, about 2.1 million states |
| `lab_replayed_bar` | as the first, smaller | `NoLookahead` is violated |
| `lab_double_close` | bar and realtime worker, 1 symbol, nothing abandoned | `NoDoubleClose` is violated |
| `snapshot_restarts` | 2 workers and the rescue, 3 commits, 2 faults, 1 lost container, room for 4 copies of which 1 is the reserve; fair | all hold, about 475,000 states |
| `snapshot_acked` | 2 workers and the rescue, 2 commits, no fault | `AckedFillOnVolume` is violated |
| `governance_cycles` | 3 pairs of which the first never has enough bars, budget 2, 2 signatures, 4 instants, 2 arenas, 1 cut; fair | all hold, about 720,000 states |
| `governance_change_won` | 1 pair, 1 arena, 1 cut | `EveryChangeWon` is violated |
| `supervision_worker` | waits of 1 unit, cycles of 4, limits 3, 3, 4 and 8; 1 illness, 2 requests; fair | all hold, about 314,000 states |
| `supervision_crossed` | the same without illness and requests | `StatusNeverGoesBack` is violated |
| `ledgers` | eleven scenes (below) | all hold, about 917,000 states |
| `services` | three sidecars through three failures; 2 assets and 1 stream slot; fair | both hold, about 136,000 states |

**lab_bar_worker.** With one process, every stale write is harmless:
`CashReflectsLedger` (the cash figure reflects exactly the fills and the trades),
`LotAccountedOnce` (a lot is held under its order's id or realised exactly once),
`ImplementsAccount` (each step on the tables is one step of `PaperAccount`).
Across horizons: `NoLookaheadUnlessAbandoned`, `AgeCountsEachBarOnce` (bars_held
counts each bar of the position's own horizon once), and `OrdersResolve`: an order with a
bar of its horizon to come is filled or cancelled. Four bars of the short horizon and two of the medium one after the
history are enough for an entry, a wait while the other horizon's bar closes, an
exit order and a change of owner; two orders are an entry and an exit, or an
entry that is cancelled and a second one.

**lab_two_workers.** What remains true with the realtime worker:
`OnePendingOrder`, `SellClosesItsLotOnce` (a SELL has exactly one trade, of the
lot it was decided for), `LotHeldOrRealized` (no lot vanishes), `WorkerFlowsKept`
(no flow booked by the bar worker ever leaves the cash figure; the realtime close
reads cash in its transaction, the bar worker does not, so it is realtime
proceeds that can be overwritten). Two symbols are needed for a margin
liquidation of several positions while exits come in.

**lab_replayed_bar** (finding). An order is committed before the bar's cursor.
If the bar is abandoned in between, the next cycle replays the same bar, and
`_execute_pending` fills the order at that bar's open, before the close it was
decided at. `ARCHITECTURE.md` excludes this.

**lab_double_close** (finding). `_protect_position` reads the row and writes it
back with an upsert; if the realtime worker closes it in between, the upsert
brings it back and it is closed and credited again. The docstring of the realtime
exit says the atomic method prevents this.

**snapshot_restarts.** `SnapshotStaysWhole`: once there is a snapshot, every later
instant has a complete copy of some commit. `SnapshotCarriedOver`: what a lost
container left behind is never undone. `CheckpointCoversItsFill`: True means the
own fill was on the volume at that instant. `SnapshotCatchesUp`: when commits and
faults end, the snapshot becomes and stays the runtime database. Three commits
give two copies in flight and one newer state; two faults are two orphaned
staging files, which with room for four copies fill the volume unless they are
purged.

**snapshot_acked** (finding). Nothing orders the replacements: a copy finished
earlier can replace the checkpoint of a later fill.

**governance_cycles.** `OneActiveArena`; `ChampionChain` (the champion of an arena
is what the arena before it left in production, and so is the model in use, up to a
promotion that was cut short); `ChallengersSpaced` (two scheduled challenges of a
pair are the recalibration time apart, whatever was cut short between them);
`EveryPairGetsModel` (a pair with enough bars gets its first model although failing
pairs are attempted before it in every cycle, while those are fewer than the
budget; with as many failing pairs as the budget, the pairs behind them are never
attempted). Two arenas are what a chain and a distance need; the third pair makes
arenas of two pairs meet in one pass of `process_active`.

**governance_change_won** (finding). `process_active` saves the challenger before it
closes the arena. Cut in between, the arena is judged again on later bars, may be
rejected, and the challenger stays in production. The comment in `calibrate_due`
promises that a model wins an arena before it replaces the champion.

**supervision_worker.** `OnlySickAreStopped`: no healthy worker is stopped, neither
for its predecessor's file nor in a long productive cycle nor because two writes
crossed. `OverrunIsBounded`: no cycle outlives a limit by more than the time between two
checks, under a fresh heartbeat or under progress. `StatusIsOfThisCycle`: a stale payload
that lands last hides the running cycle for a heartbeat at most. `RequestServedOnce`:
a request starts at most one cycle. `CyclesGoOn` and `SickAreReplaced`: cycles are
begun and ended for ever, and a worker that is stuck, endless, frozen or gone is
replaced. The limits are the tightest `SupervisionAssumption` allows: with a grace, a stale
time or a progress limit one unit shorter (two units for the hard limit) TLC finds a
healthy worker stopped; the real ones (checks 20 s, heartbeat 15 s, limits 240, 900 and 3600 s)
leave more. One illness shows a stop and the worker after it; the second request is
the one that arrives between the reading and the removal of the first.

**supervision_crossed** (finding). The lock covers the copy of the payload, not the
replacement of the file: a heartbeat payload copied before a progress payload can
land after it. `docs/runtime_progress.md` says the replacements cannot race.

**ledgers.** One scene for each part:

| scene | instance | property |
|---|---|---|
| forward | 1 candidate or sleeve, 2 runners, 3 days, 1 cut; bars that are quiet or reach both levels | `CashIsItsTrades`: the state is what the trade rows up to its cursor leave; `BarsBookedAlike`: a bar has one result whoever books it, and the equity curve has no gap |
| crypto | 2 symbols with 2 and 3 bars, 1 setup, 1 failed bar or cut | `CapitalConserved`: cash, positions and realized results add up to the initial equity |
| research | 4 bars, horizon 2, 2 interruptions | `EvaluationsAreForward`: no evaluation uses its decision's bar, and each interruption costs at most one bar of it |
| direction | bars of 2 units, refresh 2, overlap 1 bar, 8 instants, window 2, 1 lost container | `OnlyLastRowIsPartial`, `SamplesDoNotOverlap` |
| tca | 2 signals, 2 marks, 4 ticks, 2 stops | `SamplesAreGenuine`: no more events than changes, marks in order and not before their time |
| mirror | 2 sessions, 2 trades, 1 lost answer or death | `OneRequestPerTrade` |
| sizing | every answer of every assessor, a request that is nothing and one that must be cut | `EntriesFailClosed`: a filled entry was vetoed and left unassessed by none, is no larger than the strictest allows and within the leverage |
| maintenance | 2 programs, 2 databases, 1 write, 1 death, 2 attempts | `ReadyIsOneCut`, `PausedHaveAGuardian` |
| baseline | 3 moments, 1 recorded row, 1 lost container | `EvidenceSurvivesCleanup` |
| universe | 2 coins, a universe of 1, 1 cut or lost container | `WatchedAreActive` |
| health | limits of 0 and 1 unit, 1 prediction | `HealthyIsTrue` |

Three bars are an entry, an exit and a bar after a cut; two runners are enough because a
runner is affected by another only through the rows, and what any number of them has
written is what one has (this is what `BarsHaveOneResult` proves). The second interruption
of the research scene is needed for a bar to be counted out of its order. Two programs make
one of them run while the other is stopped. The larger limits of the health report add
waiting only.

**services.** `SidecarsSettle`: once nothing fails any more, each of the three sidecars
comes to run and is left running, though it finds its predecessor's file, a quote that is
old or a symbol that is no longer listed. The property has one exception, in its own text:
from some time on no process starts promptly (`Prompt`: before the first check, or within
the grace of the direction worker) and the supervisor stops processes before their first
heartbeat again and again. The instance lets every kind start too slowly (one check late for
tca and realtime, two for direction, whose grace is 2), and without the exception TLC finds
that loop for each of the three kinds. `HeldIsStreamed`: a position that stays open comes
under the stream, also when there are more positions than slots (the cap is on the other
symbols).

### Bounds and fairness

`MaxTime`, `MaxOrders`, `MaxCrashes`, `MaxCommits`, `MaxFaults`, `MaxRestarts`,
`MaxArenas`, `MaxStops`, `MaxRequests`, and in the ledgers and services `LastDay`,
`MaxAborts`, `LastBar`, `MaxCuts`, `FinalBar`, `MaxBreaks`, `MaxNow`, `MaxLosses`, `LastTick`,
`MaxChanges`, `MaxTrades`, `MaxLost`, `Ceiling`, `MaxWrites`, `MaxDeaths`, `MaxAttempts`,
`LastMoment`, `MaxRecorded`, `MaxBaselineLosses`, `LastHour`, `MaxMishaps`, `MaxPredictions`
and `MaxFailures` bound the runs; each is a guard of the action it bounds. The runs of the
lab and `ledgers` end when their clocks and bars do, so they do not check deadlock; the
other runs do.

`FairBarSpec` assumes that time goes on (strong fairness of `Tick`, which is
disabled while a bar is processed), that a worker under way takes its next step
(weak; the supervisor restarts one that does not, which is `Abandon`), and that
the cycle comes to every symbol again with every horizon's data ready (strong;
the cycle's loop goes over all symbols, and data that is never ready would be an
outage, not a behaviour of this code). `FairSpec` of `SnapshotStore` assumes that
the rescue's loop and a worker in a checkpoint take their next step; `watch`
catches every exception and has no exit. `FairSpec` of `Governance` assumes that the
worker takes its next step (weak) and that not every cycle from some point on is a
forced one (strong: a forced cycle needs somebody who presses the button again;
under forced cycles only, a pair that is recalibrated each time can use up the budget).
`FairSpec` of `Supervision` is weak fairness of time, of the two threads and of the
supervisor: the operating system schedules them, and an ill worker's steps are
disabled, not unfair. Illnesses are finite in number; a worker that fell ill in every
cycle would end none. `ServicesFairness` is weak fairness of the loops of a sidecar that
is not ill, of its supervisor, of quotes that arrive over a stream that flows, of a REST
endpoint that comes up again, and of the two threads of the realtime worker; messages,
purchases and failures are not assumed to happen.

## 4. Theorems

`SimulationLabProofs` proves, for any number of symbols, horizons, bars, orders
and abandoned bars and for every interleaving of both workers:

- `TypeCorrect`: `Spec => []TypeOK`.
- `OnePendingOrderHolds`: `Spec => []OnePendingOrder`. `pending_order`,
  `add_decision` and `add_order` are three transactions, so the property is not
  inductive. `PendingInv` adds what the worker knows while it is about to place an
  order (`NonePendingWhileOrdering`) and while it settles one
  (`OrderReadExists`); the realtime worker never touches orders.
- `WorkerFlowsAreKept`: `Spec => []WorkerFlowsKept`. Not inductive either, since
  cash is overwritten from the worker's copy. `FlowInv` says the copy itself misses
  at most realtime proceeds, in every state in which the worker may write it back
  (`CopyMissesOnlyRealtime`); that is where a new stale write would break the proof.
- `NoLotIsLost`: `Spec => []LotHeldOrRealized`, and `SellsCloseTheirLot`:
  `Spec => []SellClosesItsLotOnce`. Both are about tables, and the argument is split in
  two. Six kinds of step (`LedgerStep`: `Quiet`, `Cancels`, `Buys`, `WritesBack`, `Closes`,
  `Places`) keep the tables in order (`LotTables`: lots and trades are of filled BUYs, none
  of which is missing, a SELL's trade is of its lot). And every step of both workers is one
  of the six, because of what the copies in their hands may be (`CopiesInv`: the order
  a worker settles is still pending, the row it may write back is of the lot that is held or
  was closed since, and of the lot that a pending SELL of the symbol was decided for).
- `CashIsTheLedger`: `BarSpec => []CashReflectsLedger`, `LotsAreAccountedOnce`:
  `BarSpec => []LotAccountedOnce`. Without the realtime worker the copies are up to date
  wherever they are used (`Alone`: `CopiesAreCurrent`, `MoneyIsCurrent`,
  `OrdersWhatItMay`), so a write-back changes nothing and every step is one of `Settles`,
  which keeps `AccountTables` (a position's entry order is its lot, a lot is sold once, cash
  is the ledger).
- `TheBarWorkerIsTheAccount`: `BarSpec => ImplementsAccount`. The refinement of
  `PaperAccount`: initial states map to initial states, and under `AloneInv` each step on
  the tables maps to one step of the account or to a stutter. This is also what fails with
  the realtime worker: the double close of `lab_double_close` is no step of the account.

- `FillsFollowDecisions`: `Spec => []NoLookaheadUnlessAbandoned`, and `EveryBarCountsOnce`:
  `Spec => []AgeCountsEachBarOnce`. Horizons of different bar lengths take turns on one
  account, and what one of them leaves another may find. `HorizonInv` describes the cursors
  of all of them, as long as no bar was abandoned: a cursor is on its horizon's grid and
  the bars still to come follow it without a gap (`CursorsOnGrid`, `BarsFollow`); a symbol
  that has a position or an order is worked on by its own horizon only (`OwnerWorks`,
  `OneOwner`), so it is the cursor of that horizon that orders, decisions and ages are
  compared with (`OrdersBehind`, `DecisionsBehind`, `AgesCount`). A fill happens at the open
  of the next bar on that grid, which is not before the bar decided on.

`SnapshotStoreProofs` proves `StoreTypeCorrect`, `SnapshotIsCarriedOver`,
`SnapshotIsAlwaysWhole` and `CheckpointsCoverTheirFill` (the four safety properties of
`snapshot_restarts`) for any finite number of workers, any capacity and any number of
commits, faults and restarts. The strengthening, `CopiesInv`, says of every file that
is about to take the snapshot's place that its content lies between what the last
container left behind and the last commit, that no worker runs while a container
boots, and that a checkpoint's copy contains the fill it is for.

`GovernanceProofs` proves, for any number of pairs, signatures, arenas and cuts and any
durations:

- `GovernanceTypeCorrect`: `Spec => []TypeOK`, with `WorkerKnows`: what the program
  counter implies of the locals.
- `OneArenaPerPair`: `Spec => []OneActiveArena`. The check and the INSERT are two
  transactions; `NoneActiveAtInsert` carries the answer of the first to the second.
- `ChallengesAreSpaced`: `Spec => []ChallengersSpaced`. `ResearchNoted` (the research
  time of a pair is never before the registration of one of its arenas) holds at
  every gap because the research is noted first; `DueAtRegister` carries what
  `_model_due` answered to the INSERT; `TimesOrdered` orders the clock readings.

  Both properties rest on `StepEffects`, which sorts the steps by what they do to arenas,
  research times and the cycle's clock.
- `ChampionsFollow`: `Spec => []ChampionChain`, over the two databases of a promotion.
  `ChainInv` says at each gap which of them is ahead: an active arena is its pair's last
  (`ActiveIsLast`), an arena still to be decided is active (`TodoIsOpen`), between the two
  transactions of a promotion the challenger is the model and its arena active (`Promoted`),
  until something is cut the champion of any other active arena is in production
  (`ChampionInUse`), and a refresh writes the model that is there (`RefreshesTheSame`).
  `ChainEffects` sorts the steps by what they do to models and arenas.

`SupervisionProofs` proves, for all periods and limits with `SupervisionAssumption` and
any number of illnesses and requests:

- `SupervisionTypeCorrect`: `Spec => []TypeOK`, every age within its bound.
- `HealthyAreLeftAlone`: `Spec => []OnlySickAreStopped`. `WorkerInv` says where the
  three programs can be at a time (`Shape`) and, of a healthy worker, how far each
  wait has come (`WaitsAreBounded`), that a first status is about to be written
  (`FirstStatusIsDue`), and how far behind each payload and the file can be at this
  point of the heartbeat (`StampsAreRecent`, `Behind`). `NoReason` then adds up the
  delays and compares them with the limits: this is where the assumption is used.
- `StatusShowsTheCycle`: `Spec => []StatusIsOfThisCycle`, from `CycleIsShown`: a
  payload younger than the cycle is of the cycle.
- `RequestsStartOneCycle`: `Spec => []RequestServedOnce`, from `RequestsAreUnserved`.
- `OverrunsAreCaught`: `Spec => []OverrunIsBounded`, which is about the ill worker, of whom
  `WorkerInv` says little. `OverrunInv` says that a payload younger than the cycle shows the
  cycle, and one younger than its last report shows that report (`Shows`, `PayloadsShow`), so
  that the first check after a limit either reads the overrun or a heartbeat that is too old,
  or finds no file of the worker after the grace; `CaughtInTime` carries this from check to
  check (`SinceCheck`). A silent worker must be noticed before one without progress, which is
  `LimitsAssumption`; without it the bound would be that of the longer limit.

`LedgerProofs` proves:

- `DirectionTypeCorrect`, `PartialRowsAreLast` (`DirectionSpec => []OnlyLastRowIsPartial`)
  and `SamplesAreIndependent` (`DirectionSpec => []SamplesDoNotOverlap`) for any bar
  length, refresh interval, overlap, window and number of lost containers. `CacheInv` adds
  that cached bars have begun; `DirectionInv` that a worker's last bar does not lie before
  one that a prediction was evaluated with (`ReaderIsAhead`, `EvaluatedHaveClosed`), not
  even with the empty cache of a new container, whose first answer goes back to the
  beginning.
- `ForwardTypeCorrect`, `CashOfEveryRun` (`ForwardSpec => []CashIsItsTrades`) and
  `BarsHaveOneResult` (`ForwardSpec => []BarsBookedAlike`) for any number of candidates,
  runners, days and cuts. Nothing but `INSERT OR IGNORE` stands between two runners that
  hold the same candidate, so that a state row may go back to that of an earlier bar. What
  saves the ledger is that a bar's result follows from the bars before it. `BookedInv` says
  so: `LedgerOf` a candidate (the bars booked have no gap, each with the result that
  follows from the one before; the state row is one of them; every fill of a booked bar
  has its row; every row is a fill of the bar's result) and, of each runner, `AtWork`: what
  it is about to write is that same result, whenever it read. `ForwardShape` adds that the
  history in a runner's hand is a prefix of the bars that have closed.
- `TcaTypeCorrect` and `SamplesAreNotInflated` (`TcaSpec => []SamplesAreGenuine`) for any
  marks and any number of stops. `PaidFor`: an event in the table or in the worker's hand
  has been paid for by a change of the signal that nobody else counts; `AllMarked`: the
  marks of an event are in order.
- `CapitalIsConserved` (`CryptoSpec => []CapitalConserved`) and `LimitsHold`
  (`CryptoSpec => []WithinLimits`: positions and orders together within the gross limit and
  the number of positions) for any symbols, sizes, results, cuts and failed bars. An order
  stands only beside an empty position (`OneOfBoth`), so no fill replaces a position; what
  the engine is about to order still fits beside what there is (`OrderFits`), because between
  the approval and the order no row grows; a fill pays no more than its order reserved. Both
  need the laws of a sum over the symbols (`SumSame`, `SumWithout`), which the library states
  by an induction theorem that cannot be instantiated here. They are proved by a least
  counterexample instead: a set of least cardinality on which no sum exists, or on which two
  sums differ, loses one element and is no longer one.
  `WithinLimits` is stated in `LedgerProofs`; no run checks it. There is no such theorem
  about the limits of one strategy and of one regime: they do not hold (section 6).
- `ResearchTypeCorrect`: the rows of the research ledger name bars that have closed, and
  `EvidenceIsForward` (`ResearchSpec => []EvaluationsAreForward`) for any horizon and number
  of interruptions. The number of bars a row has counted is compared with the set of them,
  and neither is a function of the other. `EvidenceInv` keeps account (`RowPaid`): what a row
  has counted, less the bars that came in their order, plus those it may be shown again, is
  at most the number of interruptions. The engine is ahead of its cursor by no more bars
  than it was interrupted at (`GapsAreBreaks`), its plan has no gap (`PlanRuns`), and a row
  counts no bar before its first until there were two interruptions (`RowForward`).

`OrderProofs` proves, for any request, account, leverage and cost rate,
`SizingTypeCorrect` and `FilledEntriesAreSafe` (`SizingSpec => []EntriesFailClosed`): a
veto leaves a reason (`VetoesAreNoted`), min() and products of percentages only go down
(`GroupsAreStrict`), so the combined amount is cut as far as the strictest assessor asks
(`AmountIsCut`), and the guard's room solves the leverage inequality with the fee of the
fill (`RoomIsKept`). For any number of sessions, trades and lost answers,
`MirrorTypeCorrect` and `TradesAreSentOnce` (`MirrorSpec => []OneRequestPerTrade`): who has
reserved a trade holds it alone (`OneHolder`) and its row is PENDING until the answer is
written (`HolderIsPending`).

`MaintenanceProofs` proves, for any programs, databases, budget and lease,
`MaintenanceTypeCorrect`, `PausedAreGuarded` (`[]PausedHaveAGuardian`, from
`PauseHasLease`) and `ReadyIsACut` (`[]ReadyIsOneCut`, from `StillFrozen`: as long as every
process is the one found and stopped, no database has moved since the last of them
stopped, whatever happened to others in between).

`RuntimeProofs` proves `HeldIsLookedAfter` (`UniverseSpec => []WatchedAreActive`; what a
cycle has read stays true until it is used, `ReadsStayTrue`, and so do the two copies on the
volume, `CopiesAreConsistent`), `HealthyMeansHealthy` (`HealthSpec => HealthyIsTrue`; ages
in the exporter's hand bound those of the loops, `ReadingStaysTrue`, `ProgressIsRecent`,
`BackupIsBehind`), `EvidenceOutlivesStarts` (`BaselineSpec => EvidenceSurvivesCleanup`; rows
since the baseline are later than it, `RowsAreLate`, and what a job has concluded from the
marker is still true of it, `JobKnows`), `SidecarTypeCorrect` and `FeedTypeCorrect`.

The proofs assume what the modules assume of their constants (`DBAssumption`,
`LabAssumption`, `SnapshotAssumption`, `GovernanceAssumption`, `SupervisionAssumption` and so
on): the default horizon is a horizon, sentinels differ from proper values, periods and the
holding limit are positive, bounds are naturals, marks increase, and limits leave room for
what they limit. Of the supervisor: the write of the first status within the grace, two
writes and a heartbeat before the heartbeat is stale, one unit of work or one cycle more
before it has no progress or is too long (`SupervisionAssumption`); and the limit of
progress is not below the grace nor below the stale time (`LimitsAssumption`; 900 s against
240 s both). Of the health report: the limit of a completed
cycle is not above that of a running one (300 s and 900 s). Of the pause: the work budget
is shorter than the lease. TLC evaluates them in the runs.

Model-checked only:

- `OrdersResolve`, `SnapshotCatchesUp`, `EveryPairGetsModel`, `CyclesGoOn`, `SickAreReplaced`,
  `SidecarsSettle`, `HeldIsStreamed`: liveness under fairness is beyond the prover.

Every safety and action property of a passing run is stated by a theorem.

## 5. Not modelled, and why

- Prices, indicators, statistics, sizing formulas: floating-point data; their
  outcomes are free choices.
- Marks, diagnostics, equity history of the lab: they feed only those numbers.
- Account registration, schema migration, legacy nine-account mode, stock
  adapters (`twstock_support.py`): not on the production path of the single crypto account.
- `-wal` files beside a snapshot, archives, and the critical databases other than
  simulation_lab in the detail of `SnapshotStore` (`Universe` and `CleanBaseline` restore
  several of them from different moments).
- Metrics snapshots and the event log of arenas.
- The prospective scores and scorecards of the forward test, the features and levels of crypto
  v2, the scores of the direction engine: functions of rows that are modelled.
- The Alpaca and Fugle streams, which the single crypto account leaves idle, `prune_ticks`,
  and the reads of the broker beside its orders.
- `trial_ledger.py`: no script of the repository calls it.
- Migration scripts and the Windows backup: one-shot copies of files.
- HTTP clients, dashboards, exporters other than the health report: I/O without state of
  their own.
- A pid that is given to another process between the comparison of its start time and the
  signal (`ops/prepare_deploy.py:143` and `:145`, `:73` and `:75`): the two system calls are
  one step of `Maintenance`.
- `simulation_lab` and `model_governance` restored from copies of different age
  (`champion_challenger.py:486`): `Governance` has one volume for both, `Universe` restores
  arenas and positions from different moments but has no models table.

## 6. Observations

Beside the five findings of the runs, which contradict a text of the repository, the
modelling met behaviour that no text rules out. Each is in the models as it is in the code.

- `forward.py:56`: processing is idempotent if the vendor delivers the same bars again. A
  history that is re-adjusted (dividends, splits) gives a replayed bar other fills.
  `ForwardTest` takes a bar that has closed not to change.
- `crypto_v2/shadow_engine.py:188`: the route of an order's bar is worked out again at its
  fill, with BTC bars that may be later ones; the position is then counted against another
  strategy than the one whose cap approved it, and that cap may be exceeded.
- `crypto_v2/research_engine.py:59`: a bar that is begun again after an interruption advances
  the running evaluations twice (`EvaluationsAreForward` bounds the effect).
- `crypto_v2/research.py:463`: a cut between the close of a position and its record loses the
  research row of that trade; the account is not affected.
- `realtime_worker.py:79`: an empty watchlist is refused so that the last one is kept, but the
  check comes after `build_realtime_watchlist` has written the empty one; the stream closes
  until the next refresh.
- `market_cache.py:120`: a row fetched while its bar was open is served as closed from the
  moment it closes to the next refresh. `DirectionLedger` does not depend on prices, but a
  prediction may be made from a partial close.
- `paper_mirror.py`: two sessions may send a SELL before the BUY of the same sleeve, which the
  broker then answers with no position; the later BUY stays open.
- `ops/prepare_deploy.py`: a guardian of an attempt that was aborted may continue processes
  after a later attempt has printed READY; the copies were complete by then.
- `crypto_lite_cleanup.py:322`: the marker is on the volume before the cleaned databases are.
  A container lost in between brings the old rows of the governance and quality databases
  back, and they are not cleaned again. A marker that cannot be read counts as a first run and
  deletes the direction predictions since the baseline.
- `tca_supervisor.py:55`, `realtime_supervisor.py:153`: the file is judged without its process
  id. A sidecar that takes longer than one check (10 s) to its first heartbeat, over a file
  older than 30 s, is stopped at that check, and so is the next one.
- `simulation_engine.py:310`: a bar that is replayed after it was abandoned counts bars_held
  and charges financing again, so that TIME_EXIT may come a bar early.
- `dynamic_universe.py:137`: orders do not pin a symbol; a pending BUY of a symbol that leaves
  the universe is neither filled nor cancelled until it comes back.
- `runtime_health_exporter.py:145`: failed pair scans make a cycle DEGRADED when it has ended,
  but HEALTHY is reported while the next one runs.

## 7. What is left

- Hazards without a property: the realtime trigger on a lot that was replaced before the
  close (`realtime_layer.py:326`), a `-wal` file beside a restored database
  (`storage_rescue.py:185`), a request written between read and unlink
  (`live_worker_v8.py:140`), an arena that never collects enough trades
  (`champion_challenger.py:413`), a replayed bar that ages its position again
  (`simulation_engine.py:310`), a sidecar that starts slowly over an old file
  (`tca_supervisor.py:55`), databases restored from copies of different age
  (`champion_challenger.py:486`). Nothing in the repository says what should happen; all but
  the second, the fourth and the last are steps of the models that no property judges.
- Several databases in `SnapshotStore`, each with its own cursor of the rescue's loop.
