CONSTANTS
  Ops = {"READ", "WRITE", "MFENCE"}
  FenceCalls = 5
  Peers = {"peer"}
SPECIFICATION FenceFair
PROPERTIES FencedReadReturns
CHECK_DEADLOCK FALSE
