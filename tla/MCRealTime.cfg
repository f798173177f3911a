SPECIFICATION RtSpec
CONSTANTS
    TotalTeeth = 8
    MissingTeeth = 1
    History = 4
    HalfSlot = 100
    Speed = 6
    CountCap = 20
    QuietCap = 6
    CleanCap = 18
    MaxErrors = 1
    LogSize = 0
    Cylinders = 2
    FullTurn = 16
    Advance = 4
    Dwell = 3
    MaxDwell = 4
    RatedSpeed = 6
    ChargeCap = 7
    InjCyls <- Cyls
    InjTurn = 16
    DeadTime = 1
    OpenCap = 7
    MaxPoll = 1
    RevLimits <- MCRevLimits
    Widths <- MCWidths
    UnservedCap = 7
INVARIANTS
    DwellBoundedWhileServed
    NoSparkAboveRevLimit
    PulseBoundedWhileServed
PROPERTIES
    FlashOnlyOnOverlap
    SparkAtSparkAngle
