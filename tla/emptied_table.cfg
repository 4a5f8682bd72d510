SPECIFICATION FairSpec
CONSTANTS
    n1 = n1
    n2 = n2
    c1 = c1
    c2 = c2
    c3 = c3
    Servers <- OneServer
    LastTable = 2
    Seeds <- OneSeed
    Others <- OneOther
    MaxAttempts = 2
    MaxFaults = 1
PROPERTY
    AlwaysRecovers
\* the codes of the instance are finite: all of them may come to be deleted
CHECK_DEADLOCK FALSE
