SPECIFICATION Spec
CONSTANTS
  Node <- MCNode
  Addr <- MCAddr
  Root <- MCRoot
  Programs <- SharedPrograms
PROPERTY AlwaysTerminates
CHECK_DEADLOCK FALSE
