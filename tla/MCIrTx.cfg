SPECIFICATION TxFairSpec
CONSTANTS
  Bytes = {0, 18, 255}
  Slots = 2
  MAX_SEGMENTS = 80
  Widths = {1, 279, 280, 840, 841, 845, 1125, 2249, 2250, 2535, 2536, 3375, 3376, 4500, 6750, 9000, 13500, 20000, 65535}
  Stretch = {0, 140, 280}
INVARIANTS
  IrTxInv
  DecodesAsSent
  NeverMisread
PROPERTIES
  TransmissionEnds
