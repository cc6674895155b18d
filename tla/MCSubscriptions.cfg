\* Two instances of the service, two failed statements or crashes.
CONSTANTS
    o1 = o1
    w1 = w1
    w2 = w2
    Orgs <- OneOrg
    Workers <- TwoWorkers
    Cycles <- MCCycles
    Grace = 1
    Horizon = 6
    MaxFaults = 2
SPECIFICATION FairSpec
INVARIANT
    TypeOK
PROPERTIES
    NoFlapping
    LapsedIsSuspended
    ValidIsReactivated
