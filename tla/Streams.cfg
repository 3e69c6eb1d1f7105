SPECIFICATION StreamSpec
CONSTANTS
  MaxMessages = 2
  Sizes = {1024, 32734, 32768}
  MaxLength = 32767
  Header = 3
  Overhead = 31
  FrameSize = 3
  PlainSize = 2
  ReadSize = 2
  MaxPending = 2
  Clients = {a}
  Silent = {z}
  Invited = {a}
  QueueSize = 1
INVARIANTS
  ReceivedInOrder
  FlushedIsSent
  CleanEndIsComplete
PROPERTIES
  WritesAndReadsReturn
  EveryConnectionIsDecided
\* The writer and the reader may both have ended.
CHECK_DEADLOCK FALSE
