SPECIFICATION FairSpec
CONSTANTS
    k1 = k1
    k2 = k2
    c1 = c1
    c2 = c2
    c3 = c3
    Records <- TwoRecords
    Calls <- TwoCalls
    Statuses <- MitigationActionStatuses
    Graph <- MitigationActionTransitions
    InitialStatus = "draft"
    SeedStatuses = {"draft", "failed"}
    Order <- MitigationActionOrder
    IsRemote = TRUE
    Fields = {"f1"}
    Blank = "blank"
    MaxOthers = 1
    MaxVisits = 2
INVARIANTS
    TypeOK
    OfferedMovesAllowed
    RemoteTicked
PROPERTY
    SpinnerEnds
\* the calls are used up and the page has been left
CHECK_DEADLOCK FALSE
