SPECIFICATION FairSpec
CONSTANTS
    OIL = OIL
    LEAN = LEAN
    Wrap = 8
    Rules = {OIL, LEAN}
    Rule <- MCRule
    HoldCap <- MCHoldCap
    Edited = {}
    RecoveryMs = 3
    LimpRevLimit = 3000
    ConfigRevLimit = 6000
    CltRevLimits = {3500}
    LimpAdvanceCap = 10
    Advances = {15}
    ExpanderFault = 5
    FaultBits = {0, 1, 2, 3, 4, 5, 6, 7}
    HealthPeriod = 1
    I2cEnabled = TRUE
    SpiExpandersEnabled = TRUE
    Expander0Enabled = TRUE
    HasTrans = TRUE
    CleanCap = 5
    PrimeMs = 1
    BootTime = 1
    SinceBootCap = 1
    Rpms = {0, 900}
    MaxGap = 1
    MaxWork = 1
PROPERTIES
    LimpKeepsPromise
    LimpEventuallyEnds
