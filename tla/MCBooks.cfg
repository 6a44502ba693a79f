CONSTANTS
  Position = {p1, p2}
  RequestId = {r1, r2}
  Amount = {30, 60}
  Gain <- Gains
  Exact = 100
  MaxCalls = 5
  PositionId = {q1}
  Fill = {f1, f2, f3, f4}
  Payment = {u1}
  MaxQty = 3
  MaxPrice = 2
  MaxCrashes = 2
SPECIFICATION BooksSpec
SYMMETRY Symmetry
CHECK_DEADLOCK FALSE
INVARIANTS BalancedIfExact QuantityIsFills
