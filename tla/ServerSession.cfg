\* Three calls in any mix of Do and Close, two seats: one more than the client
\* should ever need.  Under fairness, for the properties about what must happen.
SPECIFICATION FairSpec
CONSTANTS
    c1 = c1
    c2 = c2
    c3 = c3
    NoCall = NoCall
    Calls <- ThreeCalls
    Seats = 2
INVARIANTS
    TypeOK
    AtMostOnce
    ResultIsHonest
    RetryUsesNewToken
    CookieAgrees
    SeatsAccounted
    SingleSeat
PROPERTIES
    TokenNeverGoesBack
    EveryCallReturns
    ImplementsSerialCalls
