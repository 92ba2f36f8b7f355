SPECIFICATION Spec
CONSTANTS
  Workers = {bar, realtime}
  bar = bar
  realtime = realtime
  Room = 4
  Reserve = 1
  MaxCommits = 2
  MaxFaults = 0
  MaxRestarts = 0
INVARIANT AckedFillOnVolume
