SPECIFICATION Spec
CONSTANTS
  c1 = c1
  c2 = c2
  v2 = v2
  v4 = v4
  None = None
  Calls = {c1, c2}
  Ops = {v2, v4}
  V4Ops = {v4}
  Workflow = 2
  GrantLife = 3
  RunMargin = 4
  LaunchMargin = 4
  AuthLife = 5
  Horizon = 4
CHECK_DEADLOCK FALSE
INVARIANTS
  CompletedIsReal
  NothingConsumed
  WithinAuthority
  GoneMeansGone
  AnswerIsRecorded
PROPERTIES
  ImplementsOneShot
