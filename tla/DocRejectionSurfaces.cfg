\* RejectionSurfaces: documented, and violated by the code (see README.md, Findings).
SPECIFICATION Spec
CONSTANTS
    c1 = c1
    c2 = c2
    Callers <- TwoCallers
    Tries = 2
INVARIANTS
    RejectionSurfaces
