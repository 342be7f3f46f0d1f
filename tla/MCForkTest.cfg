CONSTANTS
  NCells = 3
  MaxCollections = 3
  NULL = NULL
  a1 = a1
  a2 = a2
  a3 = a3
  a4 = a4
  a5 = a5
  a6 = a6
  Addr <- MCAddr
SPECIFICATION Spec
INVARIANTS
  TypeOK
  WalkSeesOnlyRefs
  ConclusionSound
  CommitNeverFails
PROPERTIES
  ParentTerminates
  ImplementsAbstractForkTest
CHECK_DEADLOCK FALSE
