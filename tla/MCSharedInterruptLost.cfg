SPECIFICATION IntFairSpec
CONSTANTS
    LastChip = 2
    GATE = GATE
    DOOR = DOOR
    LEVER = LEVER
    PortA <- MCPortA
    PortB <- MCPortBSmall
    ReadChips = {}
PROPERTIES
    ChangesDispatched
