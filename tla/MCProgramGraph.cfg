SPECIFICATION Spec
CONSTANTS
  Node <- MCNode
  Addr <- MCAddr
  Root = 0
  NoCall = NoCall
  NoMethod = NoMethod
  Dexes <- MCDexes
  Options <- MCOptions
INVARIANTS
  NodesAreUnique
  GraphIsComplete
  GraphIsSound
PROPERTY GetsWritten
CHECK_DEADLOCK FALSE
