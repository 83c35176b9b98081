\* Two spellings, a fetched spec that drifts and a run that may be killed, any overlay of MCOverlays.
SPECIFICATION Spec
CONSTANTS
  o1 = o1
  o2 = o2
  bool = bool
  boolean = boolean
  host = host
  Absent = Absent
  NoPath = NoPath
  None = None
  Scalars = {host}
  Specs <- MCSpecs
  Overlays <- MCOverlays
  Guards <- MCGuards
  Words <- MCWords
  Numeral <- MCNumeral
INVARIANTS
  PublishedIsPinned
  EverySchemaItsType
PROPERTIES
  FixedStaysFixed
