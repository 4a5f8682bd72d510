SPECIFICATION Spec
CONSTANTS
    k1 = k1
    r1 = r1
    r2 = r2
    r3 = r3
    EntityType = "MitigationAction"
    Records <- OneRecord
    Requests <- ThreeRequests
    Statuses <- MitigationActionStatuses
    Graph <- MitigationActionTransitions
    InitialStatus = "draft"
    SeedStatuses <- MitigationActionSeeds
    NeedsConfirmation = TRUE
    Fields = {"f1", "f2"}
    Blank = "blank"
    Lookahead = 0
    MayFail = FALSE
SYMMETRY RequestSymmetry
INVARIANTS
    IInv
    ReadYourWrites
    StatusChangesAudited
PROPERTIES
    StatusFollowsGraph
    ImplementsVersionedRecords
\* every request is answered once and then nothing is left to do
CHECK_DEADLOCK FALSE
