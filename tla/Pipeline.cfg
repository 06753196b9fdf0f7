SPECIFICATION PipelineSpec
CONSTANTS
    Questions = {}
    Required = {}
    Answers = {yes}
    WithoutCriteria = {}
    MaxPlans = 1
    MaxRuns = 4
    MaxSteps = 2
    MaxEdits = 1
INVARIANT GuidanceIsSound
PROPERTY ReviewsEnd
CHECK_DEADLOCK FALSE
