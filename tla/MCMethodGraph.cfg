SPECIFICATION Spec
CONSTANT Codes <- MCCodes
INVARIANTS
  TypeOK
  ClustersPartition
  SpuriousFlow
  MissingOnlyIntoClusters
PROPERTY Returns
CHECK_DEADLOCK FALSE
