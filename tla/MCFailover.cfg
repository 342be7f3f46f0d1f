CONSTANTS
  N <- MCN
  Disciplined = TRUE

SPECIFICATION Spec

INVARIANT TypeOK
INVARIANT NoAverFailure
INVARIANT ChildrenDisjoint

PROPERTY FindNoFalseMiss
PROPERTY ImplementsAbstractLand
