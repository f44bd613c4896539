SPECIFICATION FairSpec
CONSTANTS
  Slots = 2
  MaxRequests = 3
INVARIANTS
  BusInv
  ReportedOnce
  OkMeansMoved
PROPERTIES
  ImplementsBus
  RequestsReported
CHECK_DEADLOCK FALSE
