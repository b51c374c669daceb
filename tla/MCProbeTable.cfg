CONSTANTS
  a = a
  b = b
  c = c
  Names <- ModelNames
  Hashes <- ModelHashes
  Inputs <- ModelInputs
  NoAnswer = NoAnswer

SPECIFICATION Spec

INVARIANTS
  TypeOK
  ChainUnbroken
  NeverFull

PROPERTIES
  ImplementsLookup
  SearchesEnd

CHECK_DEADLOCK FALSE
