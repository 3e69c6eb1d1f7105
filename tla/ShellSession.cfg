SPECIFICATION FairSpec
CONSTANTS
  Keys = {right, wrong}
  ServerKey = right
  ReadSize = 1
  ReaderChannel = 2
  WriterChannel = 1
  PtySize = 1
  MaxTyped = 4
  MaxOutput = 2
INVARIANTS
  StreamsInOrder
PROPERTIES
  StatusIsFinal
  EndIsNoticed
  ExitIsReported
  ProgramEndsWithSession
\* The session may be over on both sides.
CHECK_DEADLOCK FALSE
