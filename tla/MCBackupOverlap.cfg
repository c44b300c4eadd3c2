SPECIFICATION Spec
CONSTANTS
  MaxOperations = 3
  Overlap = TRUE
INVARIANTS RestoreIsConfirmed
