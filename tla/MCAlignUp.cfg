CONSTANTS
  W = 8
SPECIFICATION Spec
INVARIANTS
  AlignUpCorrect
CHECK_DEADLOCK FALSE
