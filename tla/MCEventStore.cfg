CONSTANTS
  Proc = {p1, p2}
  NoProc = NoProc
  Key = {k1, k2}
  NoKey = NoKey
  MaxEvents = 3
  MaxFailures = 1
SPECIFICATION Spec
INVARIANTS AlwaysReadable 
 
