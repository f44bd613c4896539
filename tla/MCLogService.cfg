SPECIFICATION LogFairSpec
CONSTANTS
  Sender = {log, cli}
  Logger = log
  QueueLen = 1
  LineMax = 2
  MaxLines = 2
  RingSize = 3
  Chunk = 2
  MaxWrite = 4
  MaxBytes = 6
INVARIANTS
  LogInv
  WholeLinesInOrder
  InOrderUntilRaced
PROPERTIES
  LinesWritten
  LoggingReturns
  Drains
CHECK_DEADLOCK FALSE
