SPECIFICATION Spec
CONSTANTS
    k1 = k1
    r1 = r1
    r2 = r2
    r3 = r3
    EntityType = "FaultEvent"
    Records <- OneRecord
    Requests <- ThreeRequests
    Statuses <- FaultEventStatuses
    Graph <- FaultEventTransitions
    InitialStatus = "open"
    SeedStatuses = {"open", "mitigated"}
    NeedsConfirmation = FALSE
    Fields = {"f1"}
    Blank = "blank"
    Lookahead = 0
    MayFail = TRUE
SYMMETRY RequestSymmetry
INVARIANTS
    TypeOK
    OneWinner
    AuditFaithful
    ConflictHasWinner
    ReplyTellsTruth
PROPERTY ImplementsVersionedRecords
\* every request is answered once and then nothing is left to do
CHECK_DEADLOCK FALSE
