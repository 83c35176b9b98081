\* Two callers of any two methods, each with a second try.
SPECIFICATION Spec
CONSTANTS
    c1 = c1
    c2 = c2
    Callers <- TwoCallers
    Tries = 2
SYMMETRY Symmetry
INVARIANTS
    TypeOK
    OkMeansApplied
    RepeatIsSafe
