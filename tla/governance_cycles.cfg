\* Pair 1 has too few bars in every cycle; three pairs share a budget of two.
CONSTANTS
  N = 3
  Failing = {1}
  Signatures = {s1, s2}
  s1 = s1
  s2 = s2
  NoModel = NoModel
  Budget = 2
  Recalibrate = 2
  MinForward = 1
  MaxForward = 1
  MaxTime = 3
  MaxArenas = 2
  MaxStops = 1
SPECIFICATION FairSpec
INVARIANTS OneActiveArena ChampionChain ChallengersSpaced
PROPERTIES EveryPairGetsModel
