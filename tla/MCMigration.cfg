SPECIFICATION Spec
CONSTANTS
  a = a
  b = b
  Instance = {a, b}
  Pools = {1, 2}
  Dialects = {"mysql", "postgres"}
  MaxFaults = 2
INVARIANTS StoreCanWrite LosesOnlyRace IndexesFollow
PROPERTY StartEnds
