\* One run and the stream that follows it, with liveness.
CONSTANTS
    build = build
    test = test
    p1 = p1
    r1 = r1
    r2 = r2
    Pipelines <- OnePipeline
    Runs <- OneRun
    Streams = {s1}
    StepNames <- MCStepNames
    StepLists <- StreamLists
    MaxFaults = 1
SPECIFICATION FairSpec
INVARIANTS
    StreamDeliversWholeLog
    DoneStatusIsFinal
PROPERTIES
    RunSettles
    StreamEndsWithRun
CHECK_DEADLOCK FALSE
