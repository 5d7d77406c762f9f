SPECIFICATION Spec
CONSTANTS
  Tasks = {t1, t2}
  Procs = {p1, p2}
  Malformed = {t2}
  MaxAttempts = 3
  Redelivers = FALSE
  Faults = {}
  MaxFaults = 0
CHECK_DEADLOCK FALSE
SYMMETRY ProcSymmetry
INVARIANTS
  QueuedIsDelivered
  OneCarrier
  NeverFailsByConflict
  DeadLetteredOnce
  WorkersAlive
PROPERTIES
  AttemptsNeverRewind
  DeadLetterBeforeAck
  ImplementsLifecycle
