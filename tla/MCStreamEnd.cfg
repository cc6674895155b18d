\* Expected to fail: the stream of a deleted run never ends.
CONSTANTS
    build = build
    test = test
    p1 = p1
    r1 = r1
    r2 = r2
    Pipelines <- OnePipeline
    Runs <- OneRun
    Streams = {s1}
    StepNames <- MCStepNames
    StepLists <- StreamLists
    MaxFaults = 0
SPECIFICATION FairSpec
PROPERTY
    StreamEndsAsDocumented
CHECK_DEADLOCK FALSE
