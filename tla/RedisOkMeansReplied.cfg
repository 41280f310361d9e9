SPECIFICATION Spec
CONSTANTS
  Threads = {t1}
  NoThread = NoThread
  Requests = {r1, r2, r3}
  NoRequest = NoRequest
  Refused = {}
  MaxFaults = 1
CHECK_DEADLOCK FALSE
INVARIANT OkMeansReplied
