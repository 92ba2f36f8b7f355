SPECIFICATION Spec
CONSTANTS
  btc = btc
  
  medium = medium
  Symbols = {btc}
  Horizons = {medium}
  DefaultHorizon = medium
  NoSymbol = NoSymbol
  Period <- OnePeriod
  MaxHold = 2
  StartTime = 1
  MaxTime = 4
  MaxOrders = 2
  MaxCrashes = 0
INVARIANT NoDoubleClose
CHECK_DEADLOCK FALSE
