SPECIFICATION FairSpec
CONSTANTS
    Procs = {p1, p2}
    MaxRuns = 2
INVARIANT LockNamesSavedRun
PROPERTIES
    LockIsLease
    CommandsEnd
CHECK_DEADLOCK FALSE
