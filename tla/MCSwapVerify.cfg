CONSTANTS
  NoIndex = NoIndex
  None = None
  BigEndian = FALSE
  Files <- MCFiles

SPECIFICATION Spec

INVARIANTS
  AcceptedIsSound
  WellFormedAccepted
  SwappedOnce
  DataMapComplete
  ReadsVerified

CHECK_DEADLOCK FALSE
