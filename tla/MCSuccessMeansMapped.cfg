SPECIFICATION Spec
CONSTANTS
  p1 = p1
  p2 = p2
  t1 = t1
  t2 = t2
  Proc = {p1, p2}
  Path = {t1, t2}
  NoFile = NoFile
  Foreign = Foreign
  Commands <- MCCommands
INVARIANT SuccessMeansMapped
CHECK_DEADLOCK FALSE
