SPECIFICATION Spec
CONSTANTS
  Byte = {b1, b2}
  Capacity = 3
  MaxLen = 2
INVARIANTS
  RingInv
PROPERTY
  FifoSpec
