------------------------------- MODULE Universe -------------------------------
(***************************************************************************)
(* Which symbols the simulation attends to (DynamicUniverse.refresh_due    *)
(* within AutoOrchestrator.full_cycle): a cycle reads the arenas that are  *)
(* active, refreshes the universe when it is due, calibrates, simulates    *)
(* and decides arenas, all for symbols that are ACTIVE.  The realtime      *)
(* worker closes positions beside it.  simulation_lab and model_governance *)
(* are copied to the volume at different moments, and a lost container is  *)
(* followed by one that has the two copies and no dynamic_universe.json.   *)
(***************************************************************************)
EXTENDS Integers, FiniteSets

CONSTANTS
  Coins,            \* symbols of the market
  Limit,            \* _limit: how many a refresh selects
  RefreshAfter,     \* _refresh_hours
  LastHour,         \* bound: hours
  MaxMishaps        \* bound: discoveries that fail, workers that die, containers lost

UniverseAssumption == Limit \in Nat \ {0} /\ {RefreshAfter, LastHour, MaxMishaps} \subseteq Nat
ASSUME UniverseAssumption

VARIABLES
  lab,            \* simulation_lab: assets by status, positions, pending BUY orders
  arenas,         \* model_governance: symbols with an active arena
  universe,       \* dynamic_universe.json: updated_at of the market, or Never
  cycle,          \* where full_cycle is and what it has read
  copies,         \* the snapshots of both databases
  hour, mishaps

universeVars == <<lab, arenas, universe, cycle, copies, hour, mishaps>>

Never == -1
NoCycle == [at |-> "idle", since |-> 0, pinned |-> {}, selected |-> {}, held |-> {}]

UniverseInit ==
  /\ lab = [active |-> {}, inactive |-> {}, positions |-> {}, orders |-> {}]
  /\ arenas = {}
  /\ universe = Never /\ cycle = NoCycle
  /\ copies = [lab |-> lab, arenas |-> {}]
  /\ hour = 0 /\ mishaps = 0

Mishap == mishaps < MaxMishaps /\ mishaps' = mishaps + 1

-----------------------------------------------------------------------------
(* import_active of the single crypto account imports nothing;             *)
(* _pinned_universe reads the arenas before refresh_due reads the clock.   *)
BeginCycle ==
  /\ cycle.at = "idle"
  /\ cycle' = [NoCycle EXCEPT !.at = "universe", !.since = hour, !.pinned = arenas]
  /\ UNCHANGED <<lab, arenas, universe, copies, hour, mishaps>>

RefreshDue == universe = Never \/ cycle.since - universe >= RefreshAfter

SkipRefresh ==
  /\ cycle.at = "universe" /\ ~RefreshDue
  /\ cycle' = [cycle EXCEPT !.at = "calibrate"]
  /\ UNCHANGED <<lab, arenas, universe, copies, hour, mishaps>>

(* the exchange does not answer, or names no symbol: updated_at stays      *)
RefreshFails ==
  /\ cycle.at = "universe" /\ RefreshDue /\ Mishap
  /\ cycle' = [cycle EXCEPT !.at = "calibrate"]
  /\ UNCHANGED <<lab, arenas, universe, copies, hour>>

(* discover, then _position_symbols *)
DiscoverCoins(S) ==
  /\ cycle.at = "universe" /\ RefreshDue
  /\ S # {} /\ Cardinality(S) <= Limit
  /\ cycle' = [cycle EXCEPT !.at = "sync", !.selected = S, !.held = lab.positions]
  /\ UNCHANGED <<lab, arenas, universe, copies, hour, mishaps>>

KeepSelected == cycle.selected \cup cycle.held
Keep == cycle.selected \cup cycle.pinned \cup cycle.held

(* one transaction of _sync_market *)
SyncMarket ==
  /\ cycle.at = "sync"
  /\ lab' = [lab EXCEPT !.active = Keep, !.inactive = (@ \cup lab.active) \ Keep]
  /\ cycle' = [cycle EXCEPT !.at = "write"]
  /\ UNCHANGED <<arenas, universe, copies, hour, mishaps>>

WriteState ==
  /\ cycle.at = "write"
  /\ universe' = cycle.since
  /\ cycle' = [cycle EXCEPT !.at = "calibrate"]
  /\ UNCHANGED <<lab, arenas, copies, hour, mishaps>>

-----------------------------------------------------------------------------
(* The rest of the cycle, for symbols that are ACTIVE *)

(* calibrate_due passes over a pair with an active arena *)
RegisterArena(s) ==
  /\ cycle.at = "calibrate" /\ s \in lab.active \ arenas
  /\ arenas' = arenas \cup {s}
  /\ UNCHANGED <<lab, universe, cycle, copies, hour, mishaps>>

BeginSimulation ==
  /\ cycle.at = "calibrate"
  /\ cycle' = [cycle EXCEPT !.at = "simulate"]
  /\ UNCHANGED <<lab, arenas, universe, copies, hour, mishaps>>

PlaceBuy(s) ==
  /\ cycle.at = "simulate" /\ s \in lab.active \ (lab.positions \cup lab.orders)
  /\ lab' = [lab EXCEPT !.orders = @ \cup {s}]
  /\ UNCHANGED <<arenas, universe, cycle, copies, hour, mishaps>>

FillOrder(s) ==
  /\ cycle.at = "simulate" /\ s \in lab.active \cap lab.orders
  /\ \E filled \in BOOLEAN :
       lab' = [lab EXCEPT !.orders = @ \ {s}, !.positions = IF filled THEN @ \cup {s} ELSE @]
  /\ UNCHANGED <<arenas, universe, cycle, copies, hour, mishaps>>

SellPosition(s) ==
  /\ cycle.at = "simulate" /\ s \in lab.active \cap lab.positions
  /\ lab' = [lab EXCEPT !.positions = @ \ {s}]
  /\ UNCHANGED <<arenas, universe, cycle, copies, hour, mishaps>>

BeginGovernance ==
  /\ cycle.at = "simulate"
  /\ cycle' = [cycle EXCEPT !.at = "governance"]
  /\ UNCHANGED <<lab, arenas, universe, copies, hour, mishaps>>

DecideArena(s) ==
  /\ cycle.at = "governance" /\ s \in arenas
  /\ arenas' = arenas \ {s}
  /\ UNCHANGED <<lab, universe, cycle, copies, hour, mishaps>>

EndCycle ==
  /\ cycle.at = "governance"
  /\ cycle' = NoCycle
  /\ UNCHANGED <<lab, arenas, universe, copies, hour, mishaps>>

-----------------------------------------------------------------------------
(* Beside it *)

(* the realtime worker, between any two steps *)
ProtectiveExit(s) ==
  /\ s \in lab.positions
  /\ lab' = [lab EXCEPT !.positions = @ \ {s}]
  /\ UNCHANGED <<arenas, universe, cycle, copies, hour, mishaps>>

(* a copy after the last mishap would be restored by nobody *)
CopyLab ==
  /\ mishaps < MaxMishaps
  /\ copies' = [copies EXCEPT !.lab = lab]
  /\ UNCHANGED <<lab, arenas, universe, cycle, hour, mishaps>>

CopyGovernance ==
  /\ mishaps < MaxMishaps
  /\ copies' = [copies EXCEPT !.arenas = arenas]
  /\ UNCHANGED <<lab, arenas, universe, cycle, hour, mishaps>>

HourPasses ==
  /\ hour < LastHour
  /\ hour' = hour + 1
  /\ UNCHANGED <<lab, arenas, universe, cycle, copies, mishaps>>

CycleCut ==
  /\ cycle.at # "idle" /\ Mishap
  /\ cycle' = NoCycle
  /\ UNCHANGED <<lab, arenas, universe, copies, hour>>

RestoreCopies ==
  /\ Mishap
  /\ lab' = copies.lab /\ arenas' = copies.arenas
  /\ universe' = Never /\ cycle' = NoCycle
  /\ UNCHANGED <<copies, hour>>

UniverseNext ==
  \/ BeginCycle \/ SkipRefresh \/ RefreshFails \/ SyncMarket \/ WriteState
  \/ BeginSimulation \/ BeginGovernance \/ EndCycle
  \/ CopyLab \/ CopyGovernance \/ HourPasses \/ CycleCut \/ RestoreCopies
  \/ \E S \in SUBSET Coins : DiscoverCoins(S)
  \/ \E s \in Coins :
       \/ RegisterArena(s) \/ PlaceBuy(s) \/ FillOrder(s) \/ SellPosition(s)
       \/ DecideArena(s) \/ ProtectiveExit(s)

UniverseSpec == UniverseInit /\ [][UniverseNext]_universeVars

-----------------------------------------------------------------------------
(* A position is always looked after: its symbol is ACTIVE, so that bars   *)
(* with its stop are processed.  So is the symbol of an undecided arena,   *)
(* except from the loss of a container, which may bring back databases of  *)
(* two different moments, to the first refresh, which it makes due         *)
(* (_sync_market; _pinned_universe: "must not lose its symbol").           *)
WatchedAreActive ==
  /\ lab.positions \subseteq lab.active
  /\ universe # Never => arenas \subseteq lab.active
=============================================================================
