SPECIFICATION FairSpec
CONSTANTS
  Workers = {bar, realtime}
  bar = bar
  realtime = realtime
  Room = 4
  Reserve = 1
  MaxCommits = 3
  MaxFaults = 2
  MaxRestarts = 1
INVARIANTS SnapshotCarriedOver
PROPERTIES SnapshotStaysWhole CheckpointCoversItsFill SnapshotCatchesUp
