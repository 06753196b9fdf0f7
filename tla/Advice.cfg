SPECIFICATION AdviceSpec
CONSTANTS
    Questions = {q1}
    Required = {q1}
    Answers = {yes}
    WithoutCriteria = {2}
    MaxPlans = 4
    MaxRuns = 6
    SetupPlans = 2
    SetupRuns = 3
INVARIANTS
    CanIsExact
    RemediationAccepted
    DoctorReportsOnlyOrphans
    DoctorAdviceAccepted
PROPERTY AdviceLeadsToDone
CHECK_DEADLOCK FALSE
