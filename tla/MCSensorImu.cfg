SPECIFICATION FairSpec
CONSTANTS
  QueueLen = 2
  Slots = 2
INVARIANTS
  SensorInv
  ConfiguredInOrder
PROPERTIES
  WholeUnlessOverrun
  InitEnds
