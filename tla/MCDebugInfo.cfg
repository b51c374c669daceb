CONSTANTS
  Items <- MCItems
  Payload = 16
  MaxBytes = 3
  Half = 32
  Word = 1024
  stringIdsSize = 2
  typeIdsSize = 1
SPECIFICATION Spec
INVARIANTS
  InStep
  KnownOverruns
  LocalsAccounted
CHECK_DEADLOCK FALSE
