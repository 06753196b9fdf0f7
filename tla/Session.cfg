SPECIFICATION Spec
CHECK_DEADLOCK FALSE
CONSTANTS
    Procs = {p1, p2}
    Layouts = {"pipeline", "documented"}
    Edits <- MCEdits
    MaxCommands = 3
    Seconds = {1}
SYMMETRY Symmetry
INVARIANTS ConfigLoads ChangesAreLogged RecordsAreDistinct
PROPERTY WritesWhatWasAsked
