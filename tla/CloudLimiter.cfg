\* Three calls of the limited path and of one without limits, one more than there
\* are global slots. Time runs past the last reservation they can make.
SPECIFICATION FairSpec
CONSTANTS
    c1 = c1
    c2 = c2
    c3 = c3
    customerInfo = customerInfo
    organizations = organizations
    Calls <- ThreeCalls
    Paths <- TwoPaths
    Every <- Spacing
    Concurrent <- Ceiling
    GlobalConcurrent = 2
    Horizon = 1
INVARIANTS
    SlotsAccounted
    ReservationsApart
    NeverEarly
PROPERTIES
    EveryCallServed
