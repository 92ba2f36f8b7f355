SPECIFICATION Spec
CONSTANTS
  btc = btc
  eth = eth
  medium = medium
  Symbols = {btc, eth}
  Horizons = {medium}
  DefaultHorizon = medium
  NoSymbol = NoSymbol
  Period <- OnePeriod
  MaxHold = 2
  StartTime = 1
  MaxTime = 4
  MaxOrders = 2
  MaxCrashes = 1
INVARIANTS OnePendingOrder SellClosesItsLotOnce LotHeldOrRealized WorkerFlowsKept
CHECK_DEADLOCK FALSE
SYMMETRY SymbolSymmetry
