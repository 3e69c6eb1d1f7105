SPECIFICATION FairSpec
CONSTANTS
  a = a
  b = b
  Peers <- MCPeers
  SeqModulus = 64
  InitSeq <- FarFromWrap
  RecvWindow = 7
  InitTransitWindow = 20
  MaxPacketSize = 3
  HeaderSize = 2
  ResendLimit = 2
  Bounds <- ThreeBytes
PROPERTIES
  DroppedPacketIsResent
\* Both connections may have ended: nothing is left to do.
CHECK_DEADLOCK FALSE
