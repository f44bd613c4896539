SPECIFICATION FairSpec
CONSTANTS
    MaxTicks = 3
    HalTimeout = 1
    Lines = {0, 5, 6}
    MaxEdges = 2
INVARIANTS BoardInv ClocksAsConfigured
PROPERTIES BootEnds EdgesAnswered
CHECK_DEADLOCK FALSE
