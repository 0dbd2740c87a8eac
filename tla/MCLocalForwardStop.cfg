\* The end of a reconnection against a Stop that returns.
CONSTANTS
    Modes = {"local", "remote"}
    Conns = {k1}
    EventCapacity = 1
    MaxLeases = 2
SPECIFICATION Spec
PROPERTIES
    NothingNewAfterStop
CHECK_DEADLOCK FALSE
