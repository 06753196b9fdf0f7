SPECIFICATION Spec
CONSTANTS
    Questions = {q1}
    Required = {q1}
    Answers = {yes}
    WithoutCriteria = {2}
    MaxPlans = 2
    MaxRuns = 4
INVARIANTS
    TypeOK
    AcceptedPlanCoherent
    WorkBasedOnAcceptedPlan
    RunLockCoherent
    ImplementingHasRun
    DoneWasValidated
PROPERTIES
    RunHistoryImmutable
    PlanHistoryMonotone
