SPECIFICATION Spec
CONSTANTS
  Tasks = {t1}
  Procs = {p1, p2}
  Nobody = Nobody
  MaxMoves = 4
  MaxFailures = 1
CHECK_DEADLOCK FALSE
SYMMETRY RepositorySymmetry
INVARIANTS
  TypeOK
  HistoryExplainsStatus
  AnsweredIsCommitted
PROPERTIES
  ActsAtOnce
