SPECIFICATION Spec
CONSTANTS
  Tasks = {t1}
  Procs = {p1}
  Malformed = {}
  MaxAttempts = 2
  Redelivers = TRUE
  Faults = {"crash"}
  MaxFaults = 1
CHECK_DEADLOCK FALSE
PROPERTY DeadLetterBeforeAck
