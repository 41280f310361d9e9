SPECIFICATION ReplySpec
CONSTANTS
  ReplyLengths = {2, 4}
  MaxBatch = 3
  MaxRequests = 4
INVARIANTS  ReadsForMore
CHECK_DEADLOCK FALSE
