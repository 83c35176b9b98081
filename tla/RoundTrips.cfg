\* Two callers, each reading an entity, editing it and writing it back once.
SPECIFICATION Spec
CONSTANTS
  NoCopy = NoCopy
  Callers = {c1, c2}
INVARIANTS
  SpellingsAgree
  NothingReadOnlySent
PROPERTIES
  WriteIsTheEdit
SYMMETRY
  Symmetry
\* The callers stop after one write each.
CHECK_DEADLOCK FALSE
