\* CommittedIsCurrent: documented, and violated by the code (see README.md, Findings).
SPECIFICATION Spec
CONSTANTS
    Catalogs <- MCCatalogs
    Packages = {"edi", "suppliers"}
    overrides <- MCOverrides
    skipped = {"error"}
    duplicated = {"error"}
    ByHand <- MCByHand
    None = None
    Torn = Torn
    Edited = Edited
INVARIANTS
    CommittedIsCurrent
