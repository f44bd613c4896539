SPECIFICATION FairSpec
CONSTANTS
  Depth = 2
  Cap = 3
  QueueLen = 1
  MaxEdges = 7
  MaxBursts = 4
INVARIANTS
  IrRxInv
  QueueInv
PROPERTIES
  BurstIsFrame
  BurstsHandled
