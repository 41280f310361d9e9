SPECIFICATION FairSpec
CONSTANTS
  Threads = {1, 2}
  Ports = {5000, 5001}
  Echo = {5001}
  MaxClients = 2
  MaxLines = 1
  MaxErrors = 2
INVARIANTS OneChain  ServesOn StopIsClean
PROPERTIES Exits SessionsEnd
CHECK_DEADLOCK FALSE
