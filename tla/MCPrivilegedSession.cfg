SPECIFICATION FairSpec
CONSTANTS
    MaxSessions = 3
    MaxFaults = 2
    MaxCrashes = 1
INVARIANTS
    OneRootHelper
    AuthorizationsAreAccounted
    OneEffectPerCall
    TrustMatchesRecord
PROPERTY
    CallsReturn
CHECK_DEADLOCK FALSE
