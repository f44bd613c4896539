SPECIFICATION CliFairSpec
CONSTANTS
  RxChunk = 3
  RingRoom = 3
  ReadChunk = 2
  QueueLen = 1
  LineMax = 4
  MaxArgs = 1
  TableMax = 1
  Chars = {"h"}
  Earlier = {}
  Help <- HelpName
  Streams <- Lines
INVARIANTS
  RxInv
  CommandsAreLines
PROPERTIES
  InputConsumed
CHECK_DEADLOCK FALSE
