\* A client that may free a range that is already free.
CONSTANTS
  N <- MCN
  Disciplined = FALSE

SPECIFICATION Spec

PROPERTY InsertRefusesOverlap
