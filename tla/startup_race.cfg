SPECIFICATION FairSpec
CONSTANTS
    n1 = n1
    n2 = n2
    c1 = c1
    c2 = c2
    c3 = c3
    Servers <- TwoServers
    LastTable = 3
    Seeds <- TwoSeeds
    Others <- OneOther
    MaxAttempts = 2
    MaxFaults = 2
INVARIANTS
    TypeOK
    SInv
    ServingIsSeeded
PROPERTIES
    HeldBackForGood
    SeedsOnlyPristineTables
    Recovers
\* the codes of the instance are finite: all of them may come to be deleted
CHECK_DEADLOCK FALSE
