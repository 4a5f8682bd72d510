SPECIFICATION Spec
\* The user may leave the page for good, with every call over.
CHECK_DEADLOCK FALSE
CONSTANTS
    k1 = k1
    k2 = k2
    c1 = c1
    c2 = c2
    c3 = c3
    Records <- OneRecord
    Calls <- ThreeCalls
    Statuses <- SolarSiteStatuses
    Graph <- SolarSiteTransitions
    InitialStatus = "online"
    SeedStatuses = {"online"}
    Order <- SolarSiteOrder
    IsRemote = FALSE
    Fields = {"f1"}
    Blank = "blank"
    MaxOthers = 1
    MaxVisits = 2
SYMMETRY CallSymmetry
INVARIANTS
    WInv
    VersionsAsGiven
    WhatWasShownHappens
    OneMovePerConfirmation
