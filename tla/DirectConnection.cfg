SPECIFICATION Spec
CONSTANTS
  Clients = {local, target}
  Reachable = {local, target}
  UdpWorks = TRUE
INVARIANTS
  SameSocket
\* Both clients have decided.
CHECK_DEADLOCK FALSE
