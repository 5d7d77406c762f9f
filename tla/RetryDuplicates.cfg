SPECIFICATION Spec
CONSTANTS
  Tasks = {t1}
  Procs = {p1}
  Malformed = {}
  MaxAttempts = 2
  Redelivers = TRUE
  Faults = {}
  MaxFaults = 0
CHECK_DEADLOCK FALSE
INVARIANT NoDuplicateVectors
