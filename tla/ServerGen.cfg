\* Two packages, six catalogs, two types that may be written by hand, runs killed at any step.
SPECIFICATION Spec
CONSTANTS
    Catalogs <- MCCatalogs
    Packages = {"edi", "suppliers"}
    overrides <- MCOverrides
    skipped = {"error"}
    duplicated = {"error"}
    ByHand <- MCByHand
    None = None
    Torn = Torn
    Edited = Edited
INVARIANTS
    EveryDtoOnce
    NoReferenceLost
