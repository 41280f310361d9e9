SPECIFICATION Spec
CONSTANTS
  Threads = {t1, t2}
  NoThread = NoThread
  Requests = {r1, r2, r3}
  NoRequest = NoRequest
  Refused = {r3}
  MaxFaults = 2
SYMMETRY Symmetry
CHECK_DEADLOCK FALSE
INVARIANTS OneCycle OnePlace
PROPERTY LedgerSpec
