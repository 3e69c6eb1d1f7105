SPECIFICATION Spec
CONSTANTS
  a = a
  b = b
  Peers <- MCPeers
  SeqModulus = 32
  InitSeq <- AtWrap
  RecvWindow = 8
  InitTransitWindow = 20
  MaxPacketSize = 4
  HeaderSize = 2
  ResendLimit = 2
  Bounds <- FaultsOrClose
INVARIANTS
  TypeOK
  NoByteForgotten
  SentPacketsFit
  TransitWindowBounded
PROPERTIES
  ImplementsStream
\* Both connections may have ended: nothing is left to do.
CHECK_DEADLOCK FALSE
