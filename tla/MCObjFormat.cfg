CONSTANTS
  W = 8
  SegSize = 64
  MaxPadUnits = 3
SPECIFICATION Spec
INVARIANTS
  ScanParsesLayout
  ScanFixesAllRefs
CHECK_DEADLOCK FALSE
