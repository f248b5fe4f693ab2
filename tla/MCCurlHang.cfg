CONSTANTS
  NPorts = 2
  RxBuf = 2
  MaxSeg = 1
  StreamLen = 1
  MaxRead = 1
  Paddings = {0}
  WireLen = 3
  MaxConnects = 1
  MaxFaults = 0
SPECIFICATION CurlSpec
INVARIANT PromptHearsKeys
