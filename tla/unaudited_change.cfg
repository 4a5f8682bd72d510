SPECIFICATION Spec
CONSTANTS
    k1 = k1
    r1 = r1
    r2 = r2
    r3 = r3
    EntityType = "FaultEvent"
    Records <- OneRecord
    Requests <- TwoRequests
    Statuses <- FaultEventStatuses
    Graph <- FaultEventTransitions
    InitialStatus = "open"
    SeedStatuses <- FaultEventSeeds
    NeedsConfirmation = FALSE
    Fields = {"f1"}
    Blank = "blank"
    Lookahead = 0
    MayFail = TRUE
INVARIANT StatusChangesAudited
CHECK_DEADLOCK FALSE
