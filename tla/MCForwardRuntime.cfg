\* Two concurrent Starts, Stop, Suspend and Shutdown over two runs, with
\* channels of one event; every call may be the last.
CONSTANTS
    f1 = f1
    c1 = c1
    c2 = c2
    s1 = s1
    Forwards = {f1}
    Starters = {c1, c2}
    Stoppers = {s1}
    MaxGeneration = 2
    EventCapacity = 1
SPECIFICATION FairSpec
INVARIANTS
    RunsAreOwned
    StatusIsTrue
PROPERTIES
    RunsLeave
CHECK_DEADLOCK FALSE
