SPECIFICATION ForwardingSpec
CONSTANTS
  Client = client
  Server = server
  Listeners = {client, server}
  MaxCons = 1
  Writers = {client}
  MaxWrites = 2
  LocalSide = client
  Apps = {app1, app2}
  ChannelSize = 1
  TunnelSize = 1
  MaxDatagrams = 3
  LargeDatagrams = {3}
INVARIANTS
  ForwardedInOrder
  NothingIsLeftBehind
  DatagramsInOrder
PROPERTIES
  DatagramsAreForwarded
CHECK_DEADLOCK FALSE
