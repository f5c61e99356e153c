SPECIFICATION FairSpec
CONSTANTS
  k1 = k1
  k2 = k2
  as1 = as1
  none = none
  Key = {k1, k2}
  Counter = {"solved"}
  Net = {}
  NoNet = none
  BufferSize = 1
  MaxBatch = 2
  MaxEvents = 3
  MaxLabels = 3
INVARIANT TypeOK
INVARIANT Conserved
INVARIANT ClosedMeansWritten
PROPERTY CloseEnds
PROPERTY LabelTakesEffect
\* Everything ends after Close.
CHECK_DEADLOCK FALSE
