SPECIFICATION TmFairSpec
CONSTANTS
  Tasks = {log, cli}
  ISR = ISR
  QueueLen = 2
  MaxTask = 2
  MaxSends = 2
INVARIANTS
  TaskInv
PROPERTIES
  MessagesServed
  SendersReturn
CHECK_DEADLOCK FALSE
