SPECIFICATION CrankSpec
CONSTANTS
    TotalTeeth = 10
    MissingTeeth = 1
    History = 8
    HalfSlot = 100
    Speed = 6
    CountCap = 44
    QuietCap = 10
    CleanCap = 42
    MaxErrors = 3
    LogSize = 3
INVARIANTS
    PositionIsTrue
    SyncRecovers
    LogIsWhole
