SPECIFICATION MixtureFairSpec
CONSTANTS
    Wrap = 9
    Banks = {1}
    Decimation = 2
    CondensationMs = 5
    RampSteps = 2
    LowCap = 5
    AseMs = 2
    DfcoDelayMs = 3
    MaxGap = 2
    ActiveStates = {"cranking", "running"}
INVARIANTS
    CondensationLasts
    FuelCutIsEarned
    EnrichmentEnds
PROPERTIES
    BanksSettle
