\* Two failures of a sidecar; two assets and one slot of the stream.
SPECIFICATION ServicesSpec
CONSTANTS
  StaleAfter = 2
  StartupGrace = 2
  CycleMax = 3
  WarnAge = 2
  RestartAge = 3
  StartChecks <- FirstBeats
  MaxFailures = 3
  Assets = {a1, a2}
  Prices = {"stop", "mid"}
  Cap = 1
PROPERTIES
  SidecarsSettle
  HeldIsStreamed
