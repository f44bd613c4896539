SPECIFICATION Spec
CONSTANTS
  RingSize = 4
  Chunk = 2
  MaxWrite = 3
  MaxBytes = 6
INVARIANT
  SoleConsumer
CHECK_DEADLOCK FALSE
