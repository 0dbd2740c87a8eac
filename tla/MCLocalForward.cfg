CONSTANTS
    Modes = {"local", "remote"}
    Conns = {k1}
    EventCapacity = 1
    MaxLeases = 2
SPECIFICATION FairSpec
INVARIANTS
    HoldingsAreOwned
    StoppedIsQuiet
PROPERTIES
    ImplementsRunHandle
    ForwardEnds
CHECK_DEADLOCK FALSE
