CONSTANTS
  MaxChunks = 2
  MaxSurprises = 1
  FrameLengths = {1}
  LineBuffer = 0
  Modes = {"direct", "bounded", "converse"}
SPECIFICATION FairSpec
INVARIANTS
  TypeOK
  ObservationIsEarned
  NothingLeftBehind
PROPERTY AlwaysReturns
CHECK_DEADLOCK FALSE
