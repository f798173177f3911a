SPECIFICATION MixtureSpec
CONSTANTS
    Wrap = 9
    Banks = {1, 2}
    Decimation = 2
    CondensationMs = 5
    RampSteps = 2
    LowCap = 5
    AseMs = 3
    DfcoDelayMs = 3
    MaxGap = 2
    ActiveStates = {"stopped", "cranking", "running"}
INVARIANT
    ClosedLoopReadsProbe
