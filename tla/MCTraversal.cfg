SPECIFICATION Spec
CONSTANTS
  Node <- MCNode
  Addr <- MCAddr
  Root <- MCRoot
  Programs <- MCPrograms
INVARIANTS
  TypeOK
  StackDiscipline
  StackIsPath
  VisitedClosed
PROPERTIES
  ImplementsDump
  Terminates
CHECK_DEADLOCK FALSE
