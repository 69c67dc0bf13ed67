SPECIFICATION Spec
CONSTANTS
  c1 = c1
  c2 = c2
  o1 = o1
  o2 = o2
  d1 = d1
  None = None
  Calls = {c1, c2}
  Closures = {o1, o2}
  Diagnostics = {d1}
  Stages = {"discovery", "final", "diagnostic"}
SYMMETRY CallSymmetry
CHECK_DEADLOCK FALSE
INVARIANTS
  ClosureIsReal
  CleanupIsTrue
  FirstFailureKept
