SPECIFICATION Spec
CONSTANTS
  A = A
  B = B
  C = C
  la = la
  lb = lb
  lc = lc
  None = None
  Blocks = {A, B, C}
  Number <- ForkNumber
  Logs = {la, lb, lc}
  Block <- ForkBlock
  Eligible = {B}
  Tip = 2
  Quiet = FALSE
  Science = TRUE
  Captures = 2
  Reconnects = 1
  RangeBlocks = 2
  QueueCap = 1
  MaxStarts = 2
CHECK_DEADLOCK FALSE
INVARIANTS
  ConnectionsBounded
  RefusedNeverNative
  NothingPassedUnjudged
PROPERTIES
  ImplementsOneShot
