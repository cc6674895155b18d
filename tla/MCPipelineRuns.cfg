\* Two overlapping runs of one pipeline that is edited and deleted under them.
CONSTANTS
    build = build
    test = test
    p1 = p1
    r1 = r1
    r2 = r2
    Pipelines <- OnePipeline
    Runs <- TwoRuns
    Streams = {}
    StepNames <- MCStepNames
    StepLists <- RunLists
    MaxFaults = 1
SPECIFICATION Spec
SYMMETRY RunSymmetry
INVARIANTS
    TypeOK
    DependenciesSucceedFirst
    OutcomeMatchesResults
    PipelineStatusJustified
    StepsHaveWorkspace
CHECK_DEADLOCK FALSE
