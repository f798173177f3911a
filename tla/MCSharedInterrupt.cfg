SPECIFICATION IntFairSpec
CONSTANTS
    LastChip = 2
    GATE = GATE
    DOOR = DOOR
    LEVER = LEVER
    PortA <- MCPortA
    PortB <- MCPortBSmall
    ReadChips = {0, 2}
INVARIANTS
    LowLineIsFlagged
    DispatchedOnce
PROPERTIES
    QuietChangesDispatched
