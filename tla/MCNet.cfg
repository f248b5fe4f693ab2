CONSTANTS
  Neighbours = {gw, ns}
  Remember = {ns}
  Far = {far}
  Gateway = gw
  DnsServer = ns
  NoHost = none
  RX_RING = 3
  ARP_CACHE_N = 2
  Byte = 3
  Ports = 4
  MaxCalls = 2
  MaxSent = 2
  PSTOP = 4
  Reserve = 2
  MaxPages = 2
  MaxNext = 4
  MaxArrivals = 5
  MaxTaken = 5
  NoPacket = nopacket
  MaxDepth = 2
SPECIFICATION Spec
INVARIANTS OneLapLate OwnAnswer CacheTrue NoReentry
CHECK_DEADLOCK FALSE
