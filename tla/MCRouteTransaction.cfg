SPECIFICATION FairSpec
CONSTANTS
  NoHosts = NoHosts
  NoCaddy = NoCaddy
  a = a
  b = b
  Desires <- MCDesires
  MaxFaults = 2
  MaxForeign = 1
INVARIANTS
    DriftIsRecorded
    RollbackIsComplete
PROPERTIES
    RecordIsTrue
    JournalIsCleared
