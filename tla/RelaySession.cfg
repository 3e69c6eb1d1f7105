SPECIFICATION FairSpec
CONSTANTS
  a1 = a1  a2 = a2  b1 = b1
  ka = ka  kb = kb
  Conns = {a1, a2, b1}
  Keys = {ka, kb}
  KeyOf <- SameKey
  Other <- MCOther
  Protocols = {"tcp"}
  MaxPayloads <- TwoOneWay
INVARIANTS
  NeverBothWaiting
  PairsAreSessions
  StreamsAgree
  RelayedInOrder
PROPERTIES
  PeerFailureIsNoticed
  AcceptedIsNotForgotten
CHECK_DEADLOCK FALSE
