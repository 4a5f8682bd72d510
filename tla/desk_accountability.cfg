SPECIFICATION FairDeskSpec
CONSTANTS
    k1 = k1
    r1 = r1
    r2 = r2
    r3 = r3
    u1 = u1
    EntityType = "SolarSite"
    Records <- OneRecord
    Requests <- TwoRequests
    Users <- OneUser
    Standings = {"viewer", "admin", "inactive"}
    Statuses <- SolarSiteStatuses
    Graph <- SolarSiteTransitions
    InitialStatus = "online"
    SeedStatuses = {"online"}
    NeedsConfirmation = FALSE
    Fields = {"f1"}
    Blank = "blank"
    Lookahead = 0
    MayFail = TRUE
    TokenTTL = 1
    LoginTimeout = 1
    MaxChanges = 1
    LastMoment = 2
INVARIANTS
    HistoryInv
    ActorsHeldRole
    HistoryInOrder
    HistoryIsAPath
PROPERTY EventuallyAccounted
\* every request is answered once and then nothing is left to do
CHECK_DEADLOCK FALSE
