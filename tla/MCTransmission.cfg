SPECIFICATION TransFairSpec
CONSTANTS
    Wrap = 7
    Type = "4R100"
    Levers = {"PARK", "REVERSE", "OD", "LOW1"}
    UpshiftRpm <- MCUpshiftRpm
    DownshiftRpm <- MCDownshiftRpm
    TccLockGear = 3
    TccLockRpm = 1500
    TccApplyRate = 40
    ShiftTimeMs = 3
    GearEvery = 2
    LeverEvery = 4
    CounterLap = 5
    Speeds = {0, 1000, 2000, 3500}
    MaxUpdateGap = 2
    ReleaseTicks = 2
INVARIANTS
    OutputsMatchGear
    TccReleased
PROPERTIES
    GearLockedInLimp
    ShiftsInSequence
    LeverObeyed
    ShiftEnds
