\* CloseReleasesSeat: documented, and violated by the code (see README.md, Findings).
SPECIFICATION Spec
CONSTANTS
    c1 = c1
    c2 = c2
    c3 = c3
    NoCall = NoCall
    Calls <- ThreeCalls
    Seats = 2
INVARIANT
    CloseReleasesSeat
