SPECIFICATION Spec
CONSTANTS
    CommandIDs = {a, b, c}
    CacheCapacity = 2
    CacheTTL = 2
    StageTTL = 1
    MaxClock = 1
    MaxTokens = 2
    MaxRuns = 2
    Mixes <- ClientMixes
    MaxEdits = 1
SYMMETRY IDSymmetry
INVARIANTS
    AtMostOnce
    OneEffectPerPreview
    RunningUsesStoredIdentity
PROPERTIES
    CommitsWhatWasPreviewed
CHECK_DEADLOCK FALSE
