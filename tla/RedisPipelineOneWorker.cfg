SPECIFICATION FairSpec
CONSTANTS
  Threads = {t1}
  NoThread = NoThread
  Requests = {r1, r2, r3}
  NoRequest = NoRequest
  Refused = {r3}
  MaxFaults = 2
INVARIANTS TypeOK WriteSound
PROPERTY LedgerFairSpec
