SPECIFICATION LogSpec
CONSTANTS
    LineBytes <- Lengths
    QueueBytes = 3
    QueueCommands = 2
    FileBytes = 3
    Archives = 2
    TailBytes = 2
    TailLines = 2
    MaxLines = 5
    MaxPolls = 3
INVARIANTS
    RefusalsAreCounted
    MarkerIsComing
    LogKeepsOrder
    PageNeverRepeats
PROPERTIES
    TailAndCloseReturn
CHECK_DEADLOCK FALSE
