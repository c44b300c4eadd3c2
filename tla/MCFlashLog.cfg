SPECIFICATION Spec
CONSTANTS
  Readers = {"reader"}
  MaxRecordings = 3
  MaxCrashes = 1
  MaxMounts = 1
CHECK_DEADLOCK FALSE
INVARIANTS LiveIsKept SavedIsKept NewestIsKept
