CONSTANTS
  o1 = o1
  Order = {o1, o2}
  MaxQty <- Quantities
  MaxAmends <- Amendments
  MaxCrashes = 1
  Elsewhere = {"STARTED", "RECONCILED", "SIGNAL_RECEIVED"}
SPECIFICATION Spec
CHECK_DEADLOCK FALSE
INVARIANTS WriteAhead FilledIsExact CancelledIsDead
PROPERTY FinishedStays
