SPECIFICATION Spec
CONSTANTS
  p1 = p1  p2 = p2  a = a  b = b  c = c  ra = ra  rb = rb  source = source
  None = None
  Procs <- TwoProcs
  Variants <- ThreeVariants
  Runs <- TwoRuns
  RunOf <- RunOfTwo
  MaxVariants = 1
  Source = source
  MayDrift <- Editable
INVARIANTS AnswerStands VerifiedIsPrepared
PROPERTY ImplementsLedger
CHECK_DEADLOCK FALSE
