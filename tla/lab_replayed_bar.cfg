SPECIFICATION BarSpec
CONSTANTS
  btc = btc
  short = short
  medium = medium
  Symbols = {btc}
  Horizons = {short, medium}
  DefaultHorizon = medium
  NoSymbol = NoSymbol
  Period <- TwoPeriods
  MaxHold = 3
  StartTime = 2
  MaxTime = 4
  MaxOrders = 2
  MaxCrashes = 1
INVARIANT NoLookahead
CHECK_DEADLOCK FALSE
