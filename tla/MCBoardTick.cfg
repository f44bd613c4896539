SPECIFICATION Spec
CONSTANTS
    MaxTicks = 3
    HalTimeout = 1
    Lines = {0}
    MaxEdges = 1
INVARIANTS TickIsZeroAtBoot
CHECK_DEADLOCK FALSE
