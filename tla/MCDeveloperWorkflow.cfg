SPECIFICATION Spec
CONSTANTS
  p1 = p1
  p2 = p2
  v1 = v1
  v2 = v2
  r1 = r1
  r2 = r2
  s1 = s1
  s2 = s2
  Procs = {p1, p2}
  Variants = {v1}
  Runtimes = {r1, r2}
  Sensors = {s1, s2}
  None = None
  MaxDeaths = 1
SYMMETRY Interchangeable
INVARIANTS
  ReadyStands
  VerifiedIsConsented
  CardIsOneRun
