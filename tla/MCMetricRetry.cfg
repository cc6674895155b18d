\* Expected to fail: an ingester that could not start never forwards anything.
CONSTANTS
    i1 = i1
    i2 = i2
    Rows <- MCRows
    Ingesters <- One
    BatchSize = 2
    MaxFaults = 1
SPECIFICATION FairSpec
PROPERTY
    RetriedUntilForwarded
CHECK_DEADLOCK FALSE
