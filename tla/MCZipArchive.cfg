CONSTANTS
  Archives <- MCArchives
  WellFormed <- MCWellFormed
  SigLen = 2
  kLFHLen = 2
  kEOCDLen = 3
  kCDELen = 3
  kWriteBufSize = 2
  classes_dex = "classes"
  NoFile = NoFile
SPECIFICATION Spec
INVARIANTS
  OpenedInMap
  Released
  WellFormedExtracted
PROPERTY ImplementsUnzip
CHECK_DEADLOCK FALSE
