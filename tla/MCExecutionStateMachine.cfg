CONSTANTS
  Caller = {c1, c2}
  NoCaller = NoCaller
  Request = {"r1", "r2", "r3", "r4", "r5"}
  MaxLog = 5
SPECIFICATION Spec

INVARIANTS AlwaysReplays RequestOnce MemoryIsHistory EmergencyIsFinal ReconcilesBeforeTrading
