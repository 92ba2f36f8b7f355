--------------------------- MODULE MCSimulationLab ---------------------------
(***************************************************************************)
(* Instances of SimulationLab for TLC: the values a cfg cannot write down. *)
(***************************************************************************)
EXTENDS SimulationLab, TLC

(* "medium" bars are twice as long as "short" ones *)
TwoPeriods == [h \in Horizons |-> IF h = DefaultHorizon THEN 2 ELSE 1]
OnePeriod == [h \in Horizons |-> 1]

(* the two symbols of the account are interchangeable *)
SymbolSymmetry == Permutations(Symbols)
=============================================================================
