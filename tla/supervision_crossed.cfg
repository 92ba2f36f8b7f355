\* Two writes of the status file that cross.
SPECIFICATION Spec
CONSTANTS
  CheckEvery = 1
  Grace = 3
  Stale = 3
  NoProgress = 4
  HardLimit = 8
  Delay = 1
  Beat = 1
  Poll = 1
  Boot = 2
  Write = 1
  Unit = 1
  Cycle = 4
  MaxFaults = 0
  MaxRequests = 0
PROPERTIES
  StatusNeverGoesBack
