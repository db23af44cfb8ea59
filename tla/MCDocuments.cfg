CONSTANTS
    None = None
    BadChannel = BadChannel
    TimeBits = 20
    MaxRepeatCount = 3
    MaxDuration = 45
    MaxInt = 10
    MaxUint32 = 20
    MaxInt64 = 180
    Files <- MCFiles
    Edits <- MCEdits
    MaxEdits = 1
SPECIFICATION Spec
INVARIANTS SavedPlanReloads EditedPlanIsStable ReportImpliesArtifacts YamlLeavesNoFiles RerunLosesOnlyParameters
CHECK_DEADLOCK FALSE
