SPECIFICATION Spec
CONSTANTS
  Clients = {c1, c2, c3}
  Services = {s1, s2}
  Threshold = 2
  Recovery = 2
  Nowhere = Nowhere
INVARIANT TypeOK
PROPERTIES
  OpensOnlyOnStreak
  Recovers
