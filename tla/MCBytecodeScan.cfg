CONSTANT Methods <- MCMethods
SPECIFICATION Spec
INVARIANTS
  WidthsAgree
  CallsNameTheirMethod
PROPERTY ImplementsDecoding
CHECK_DEADLOCK FALSE
