\* Expected to fail: a step that ran into its deadline is reported a success.
CONSTANTS
    build = build
    test = test
    p1 = p1
    r1 = r1
    r2 = r2
    Pipelines <- OnePipeline
    Runs <- OneRun
    Streams = {}
    StepNames <- MCStepNames
    StepLists <- StreamLists
    MaxFaults = 0
SPECIFICATION Spec
INVARIANT
    SuccessMeansExitZero
CHECK_DEADLOCK FALSE
