SPECIFICATION Spec

CONSTANTS
    MaxId = 2
    Shared <- MCShared
    MaxCrashes = 2

INVARIANTS
    FilesStayTogether
    MigratedCompletely

PROPERTY
    NothingLost

CHECK_DEADLOCK FALSE
