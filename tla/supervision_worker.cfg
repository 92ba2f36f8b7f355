\* The bar worker under its supervisor: one illness, two manual requests.
SPECIFICATION FairSpec
CONSTANTS
  CheckEvery = 1
  Grace = 3
  Stale = 3
  NoProgress = 4
  HardLimit = 8
  Delay = 1
  Beat = 1
  Poll = 1
  Boot = 2
  Write = 1
  Unit = 1
  Cycle = 4
  MaxFaults = 1
  MaxRequests = 2
INVARIANTS
  OnlySickAreStopped
  OverrunIsBounded
  StatusIsOfThisCycle
  RequestServedOnce
PROPERTIES
  CyclesGoOn
  SickAreReplaced
