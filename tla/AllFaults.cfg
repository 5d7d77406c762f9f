SPECIFICATION Spec
CONSTANTS
  Tasks = {t1}
  Procs = {p1, p2}
  Malformed = {}
  MaxAttempts = 2
  Redelivers = TRUE
  Faults = {"crash", "shutdown", "broker", "rebalance", "caught", "uncaught"}
  MaxFaults = 1
CHECK_DEADLOCK FALSE
SYMMETRY ProcSymmetry
INVARIANTS
  TypeOK
  SucceededIsStored
  NoTaskForgotten
PROPERTIES
  SettledForever
  AckAfterHandling
