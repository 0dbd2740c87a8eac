SPECIFICATION Spec
CONSTANTS
    MaxSessions = 3
    MaxFaults = 0
    MaxCrashes = 0
INVARIANT RenewalSucceeds
CHECK_DEADLOCK FALSE
