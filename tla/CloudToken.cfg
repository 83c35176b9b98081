\* Two posts, time for a token to be fetched, kept and to reach its window.
SPECIFICATION Spec
CONSTANTS
    c1 = c1
    c2 = c2
    NoCall = NoCall
    Calls <- TwoCalls
    Timeout = 1
    RefreshWindow = 2
    Hour = 4
    Lifetimes = {3}
    Horizon = 4
SYMMETRY Symmetry
INVARIANTS
    TypeOK
    RetryUsesNewToken
    NeverTooOld
    WasteBounded
PROPERTIES
    TokenNeverGoesBack
    ImplementsRemoteCalls
