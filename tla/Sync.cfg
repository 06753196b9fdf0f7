SPECIFICATION Spec
CONSTANTS
    PCs = {a, b}
    MaxEdits = 2
    MaxCommits = 4
    MaxCommands = 5
    MaxIncidents = 1
INVARIANTS
    WorkSurvives
    TaskledgerDirExists
    RemoteIsHealthy
    LocksStayOnTheirPC
SYMMETRY PCSymmetry
CHECK_DEADLOCK FALSE
