SPECIFICATION Spec
CONSTANTS
  MaxMessages = 3
  Sizes = {1024}
  MaxLength = 32767
  Header = 3
  Overhead = 31
  FrameSize = 3
  PlainSize = 2
  ReadSize = 2
  MaxPending = 2
INVARIANT
  EachMessageOnce
CHECK_DEADLOCK FALSE
