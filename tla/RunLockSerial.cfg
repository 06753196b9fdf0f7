SPECIFICATION SerialSpec
CONSTANTS
    Procs = {p1}
    MaxRuns = 4
INVARIANTS
    OneRunUnderCrashes
    EvidenceBeforeStage
PROPERTY CommandsAreAtomic
CHECK_DEADLOCK FALSE
