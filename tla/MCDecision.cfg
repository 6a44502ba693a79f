SPECIFICATION CycleSpec
CONSTANTS
  FloatBits = 8
  PriceSigFigs = 2
  PriceMaxDecimals = 2
  Base = 10
  MaxStaleness = 2
  Launch <- Launches
  Market <- Markets
  OtherIntents <- Wishes
  NewPrice <- Amendments
  Lacks <- Unsupported
  ExecState <- States
  Version <- Versions
  MaxTime = 1
  MaxOrders = 3
INVARIANTS  BestLegalIsSent HeadroomHolds SpecsGetTheirTurn
CHECK_DEADLOCK FALSE
