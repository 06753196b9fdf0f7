SPECIFICATION Spec
CONSTANTS
    Procs = {p1, p2}
    MaxRuns = 2
INVARIANT EachStartOwnsItsRun
CHECK_DEADLOCK FALSE
