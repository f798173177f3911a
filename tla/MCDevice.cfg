SPECIFICATION DeviceFairSpec
CONSTANTS
    Settings = {"built in", "crashing"}
    DefaultSettings = "built in"
    BadSettings = {"crashing"}
    Kinds = {"built in", "custom"}
    DefaultKind = "built in"
    NoLimits = "none"
    Threshold = 2
    MaxEvents = 2
INVARIANTS
    SavedSettingsSurvive
    ForcedSafeModeIsOneShot
PROPERTIES
    SettingsReachFile
    DeviceComesUp
