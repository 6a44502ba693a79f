CONSTANTS
  EntryOrder = {"e1"}
  ExitOrder = {"x1", "x2"}
  Position = {1, 2}
  MaxQty = 2
  MaxPrice = 1
  MaxFills = 4
  MaxCrashes = 1
  Fee = 1
  Scale = 2
  Funds = 60
  Exact = 1000
SPECIFICATION FairSpec
INVARIANTS OrphansAreInert MarginOncePerFill ReleasedIsFree
PROPERTIES EntryHeals 
