SPECIFICATION FairBarSpec
CONSTANTS
  btc = btc
  short = short
  medium = medium
  Symbols = {btc}
  Horizons = {short, medium}
  DefaultHorizon = medium
  NoSymbol = NoSymbol
  Period <- TwoPeriods
  MaxHold = 3
  StartTime = 2
  MaxTime = 6
  MaxOrders = 2
  MaxCrashes = 1
INVARIANTS LotAccountedOnce CashReflectsLedger NoLookaheadUnlessAbandoned AgeCountsEachBarOnce
PROPERTIES OrdersResolve ImplementsAccount
CHECK_DEADLOCK FALSE
