SPECIFICATION Spec
CONSTANTS
    Sessions = {s1, s2}
    Tasks = {t1}
    Paths = {p1, p2}
    MaxRecords = 2
    MaxCommands = 4
    MaxCrashes = 1
SYMMETRY Symmetry
INVARIANTS
    RefsResolve
    IndexFresh
PROPERTY NothingLostAlone
CHECK_DEADLOCK FALSE
