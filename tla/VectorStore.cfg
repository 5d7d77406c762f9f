SPECIFICATION RetrievalSpec
CONSTANTS
  Indexes = {x1, x2}
  Ids = {i1, i2}
  Dims = {1, 2}
  MaxBatch = 2
  Crashes = TRUE
  Provider = "openai_compatible"
  DefaultDimension = 1
  NotGiven = NotGiven
SYMMETRY StoreSymmetry
INVARIANTS
  UniformDimension
  AcknowledgedIsDurable
PROPERTIES
  AcknowledgedIsFound
  CommittedDimensionIsStable
  BehavesLikeInMemory
