SPECIFICATION FairSpec
CONSTANTS
  A = A
  B = B
  C = C
  la = la
  lb = lb
  lc = lc
  None = None
  Blocks = {A, B}
  Number <- TwoNumber
  Logs = {la, lb}
  Block <- TwoBlock
  Eligible = {A, B}
  Tip = 2
  Quiet = TRUE
  Science = FALSE
  Captures = 1
  Reconnects = 1
  RangeBlocks = 2
  QueueCap = 1
  MaxStarts = 1
CHECK_DEADLOCK FALSE
INVARIANTS
  NothingLeftBehind
PROPERTIES
  Terminates
