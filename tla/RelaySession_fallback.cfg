SPECIFICATION HealthySpec
CONSTANTS
  a1 = a1  a2 = a2  b1 = b1
  ka = ka  kb = kb
  Conns = {a1, b1}
  Keys = {ka, kb}
  KeyOf <- OneEach
  Other <- MCOther
  Protocols = {"tcp"}
  MaxPayloads <- Silent
INVARIANTS
  JoinedClientsConnect
CHECK_DEADLOCK FALSE
