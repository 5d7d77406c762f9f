SPECIFICATION Spec
CONSTANTS
  k1 = k1
  k2 = k2
  k3 = k3
  Keys = {k1, k2, k3}
  Configured <- MCConfigured
  NotGiven = NotGiven
  DefaultLimit = 2
  Minute = 4
  MaxTime = 7
INVARIANTS
  TypeOK
  BurstBound
  NeverStarved
