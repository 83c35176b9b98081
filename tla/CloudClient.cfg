\* Two posts over a limited and a merely paced path, from reserve to release.
\* Time passes while a call sleeps.  Under fairness: every post ends.
SPECIFICATION FairClientSpec
CONSTANTS
    c1 = c1
    c2 = c2
    customerInfo = customerInfo
    couponsBySeries = couponsBySeries
    NoCall = NoCall
    Calls <- TwoCalls
    Paths <- AllPaths
    Every <- Spacing
    Concurrent <- Ceiling
    GlobalConcurrent = 2
    Timeout = 1
    RefreshWindow = 2
    Hour = 3
    Lifetimes = {3}
    Horizon = 0
    LastTick = 2
INVARIANTS
    TalksWithinLimits
    NothingLeftBehind
PROPERTIES
    ImplementsLimiter
    ImplementsSession
    EveryPostEnds
