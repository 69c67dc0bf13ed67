SPECIFICATION Spec
CONSTANTS
  s1 = s1
  s2 = s2
  Selections = {s1, s2}
  None = None
  Torn = Torn
  MaxRows = 5
  MaxStarts = 2
SYMMETRY SelectionSymmetry
CHECK_DEADLOCK FALSE
INVARIANTS
  MarkersPrecedeRows
  DurableBeforeNative
PROPERTIES
  NothingAfterFatal
  ResumesOnlyUntouched
  ImplementsOneShot
