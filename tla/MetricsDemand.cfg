SPECIFICATION FairSpec
CONSTANTS
  w1 = w1
  w2 = w2
  c1 = c1
  c2 = c2
  Windows = {w1, w2}
  Clusters = {c1, c2}
  InitialDelay = 1
  MaxDelay = 3
  MaxOps = 5
INVARIANTS SentInOrder NothingForgotten
PROPERTIES DemandAcknowledged
CHECK_DEADLOCK FALSE
