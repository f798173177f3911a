SPECIFICATION PinsFairSpec
CONSTANTS
    Wrap = 3
    FAN = FAN
    PUMP = PUMP
    Pins = {FAN, PUMP}
    Tasks = {"loop", "web"}
    LastSlot = 1
    LastRule = 1
    Layouts <- MCLayouts
    MaxPeriod = 1
    MaxEvents = 2
INVARIANTS
    WritesReachChip
    OutputFollowsRule
PROPERTIES
    SwitchIsDebounced
    DebounceEnds
