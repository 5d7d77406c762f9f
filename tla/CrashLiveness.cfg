SPECIFICATION FairSpec
CONSTANTS
  Tasks = {t1, t2}
  Procs = {p1}
  Malformed = {t2}
  MaxAttempts = 2
  Redelivers = TRUE
  Faults = {"crash", "caught"}
  MaxFaults = 2
CHECK_DEADLOCK FALSE
PROPERTY EventuallySettled
