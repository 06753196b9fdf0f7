SPECIFICATION Spec
CONSTANTS
    Ledgers = {main, dev}
    MainLedger = main
    Versions = {v1}
    MaxId = 4
    MaxBirths = 2
    MaxCommands = 5
    ForeignIds = {2}
INVARIANTS
    NativeSlugsUnique
    PointersResolve
    TreeShowsEveryTask
PROPERTIES
    IdsNeverReused
    NewTasksAreFresh
CHECK_DEADLOCK FALSE
