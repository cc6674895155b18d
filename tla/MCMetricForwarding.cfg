\* Two instances of the service, two failures or crashes.
CONSTANTS
    i1 = i1
    i2 = i2
    Rows <- MCRows
    Ingesters <- Two
    BatchSize = 2
    MaxFaults = 2
SPECIFICATION FairSpec
INVARIANTS
    TypeOK
    CopiesBounded
PROPERTIES
    ForwardsAtLeastOnce
    PendingIsForwarded
CHECK_DEADLOCK FALSE
