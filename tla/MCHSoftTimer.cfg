SPECIFICATION FairSpec
CONSTANTS
  TaskClient = sensor
  IsrClient = {ir, i2c}
  Slots = 2
  TickMod = 28
  Delays = {2, 3}
  MaxLate = 1
  MaxStall = 1
  MaxSpan = 1
  MaxPutOff = 1
INVARIANTS
  TimerInv
  Timely
PROPERTIES
  TimersFire
CHECK_DEADLOCK FALSE
