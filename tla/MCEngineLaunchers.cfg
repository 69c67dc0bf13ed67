SPECIFICATION OSpec
CONSTANTS
  None = None
  Calls = {c1, c2}
  Ops = {o1, o2}
  Owners = {w1, w2}
SYMMETRY Interchangeable
INVARIANTS EveryAnswerIsTrue SealedIsQuiet
PROPERTY ImplementsOneShot
CHECK_DEADLOCK FALSE
