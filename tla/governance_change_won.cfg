\* One pair, one stopped worker.
CONSTANTS
  N = 1
  Failing = {}
  Signatures = {s1, s2}
  s1 = s1
  s2 = s2
  NoModel = NoModel
  Budget = 1
  Recalibrate = 2
  MinForward = 1
  MaxForward = 1
  MaxTime = 2
  MaxArenas = 1
  MaxStops = 1
SPECIFICATION Spec
INVARIANTS EveryChangeWon
