SPECIFICATION StageSpec
CONSTANTS
  MaxCons = 2
  MaxWrites = 2
  Targets = {t1, t2}
INVARIANTS
  StreamsInOrder
  NoIdIsUnknown
  BashIsWhole
  SocketsAreRemoved
PROPERTIES
  SessionEndsTogether
\* A session that has ended at both ends does nothing more, nor does a target
\* whose session has ended.
CHECK_DEADLOCK FALSE
