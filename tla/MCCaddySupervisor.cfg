SPECIFICATION Spec
CONSTANTS
    Configs = {"c1", "c2"}
    MaxStarts = 4
    MaxCalls = 5
    MaxFaults = 3
INVARIANTS
    NoStrayCaddy
    DigestIsServed
PROPERTIES
    CallsReturn
CHECK_DEADLOCK FALSE
