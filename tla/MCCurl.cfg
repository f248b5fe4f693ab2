CONSTANTS
  NPorts = 2
  RxBuf = 3
  MaxSeg = 2
  StreamLen = 3
  MaxRead = 2
  Paddings = {0, 1}
  WireLen = 2
  MaxConnects = 2
  MaxFaults = 1
SPECIFICATION CurlSpec
INVARIANTS OnlyThisConnection StreamPrefix AckedIsStored
PROPERTIES EndAfterData KeyStopsCurl
CHECK_DEADLOCK FALSE
