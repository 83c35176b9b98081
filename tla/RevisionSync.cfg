\* Two items and events without id, four changes, any of the methods that take a
\* revision.  Under fairness: the caller catches up.
SPECIFICATION FairSpec
CONSTANTS
    i1 = i1
    i2 = i2
    NoID = NoID
    Items <- TwoItems
    LastRevision = 4
INVARIANTS
    JournalExact
    HandledOnce
    MirrorExact
PROPERTIES
    CatchesUp
