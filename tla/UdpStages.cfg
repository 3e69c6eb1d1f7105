SPECIFICATION StageSpec
CONSTANTS
  a = a
  b = b
  Peers <- MCPeers
  SeqModulus = 64
  InitSeq <- FarFromWrap
  RecvWindow = 8
  InitTransitWindow = 20
  MaxPacketSize = 4
  HeaderSize = 2
  ResendLimit = 2
  Bounds <- OneFault
  Master = a
  SyncSeqs = {3, 63}
  MaxFaults = 2
  MaxCollisions = 3
INVARIANTS
  ConnectedPeersAgree
  EndedIsDisconnected
PROPERTIES
  HalfOpenEnds
  WrittenIsDelivered
  LoopsEndTogether
\* Attempts end, and connections have ended: nothing is left to do.
CHECK_DEADLOCK FALSE
