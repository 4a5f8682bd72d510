SPECIFICATION Spec
CONSTANTS
    n1 = n1
    n2 = n2
    a1 = a1
    a2 = a2
    q1 = q1
    q2 = q2
    q3 = q3
    q4 = q4
    Servers <- TwoServers
    Keys <- TwoKeys
    Requests <- FourRequests
    Limit = 1
    CleanupSize = 1
    RedisEnabled = TRUE
    MayFail = TRUE
    LastMinute = 1
    MaxLost = 1
SYMMETRY RequestSymmetry
INVARIANTS
    TypeOK
    RInv
    TicketsUnique
    OneLimitPerStore
    RefusedAtLimit
\* every request is made once and the clock stops at LastMinute
CHECK_DEADLOCK FALSE
