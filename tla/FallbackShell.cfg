SPECIFICATION FallbackSpec
CONSTANTS
  Keys = {right}
  ServerKey = right
  ReadSize = 20
  ReaderChannel = 1
  WriterChannel = 1
  PtySize = 1
  MaxTyped = 3
  MaxOutput = 0
  PipeSize = 1
  Bytes <- MCBytes
  Scripts <- MCScripts
  Impatient <- MCImpatient
  Programs <- MCPrograms
  ProcessOutput <- MCProcessOutput
  ProcessErrors <- MCProcessErrors
  MaxInFlight = 1
INVARIANTS
  DisplayAgrees
  KeysAreWhole
  OutputIsConverted
PROPERTIES
  KeyIsTaken
  SessionEnds
\* The session may be over on both sides.
CHECK_DEADLOCK FALSE
