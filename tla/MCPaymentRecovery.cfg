\* Expected to fail: a payment that comes after the period reactivates nothing.
CONSTANTS
    o1 = o1
    w1 = w1
    w2 = w2
    Orgs <- OneOrg
    Workers <- OneWorker
    Cycles <- MCCycles
    Grace = 1
    Horizon = 4
    MaxFaults = 0
SPECIFICATION FairSpec
PROPERTY
    RecoveryReactivates
