SPECIFICATION FairQueues
CONSTANTS
  Partitions = {a, b}
  Consumers = {c1, c2}
  Nobody = Nobody
  MaxRecords = 2
  MaxRebalances = 2
  MaxCrashes = 1
  MaxMessages = 3
  MaxLosses = 2
CHECK_DEADLOCK FALSE
INVARIANTS
  TypeOK
  CommittedIsHandled
  DepthErrsByLosses
PROPERTIES
  EventuallyHandled
  EventuallyTaken
  ImplementsTaskQueue
