SPECIFICATION Spec
CONSTANTS
  NoEntry = NoEntry
  Repos = {r1, r2}
  Values = {v1}
  Procs = {p1, p2}
  Seconds = {s1, s2}
  Second <- OwnSecond
  r1 = r1
  r2 = r2
  v1 = v1
  v2 = v2
  p1 = p1
  p2 = p2
  s1 = s1
  s2 = s2
SYMMETRY Symmetry
INVARIANT OriginalKept
PROPERTY SharedOperations
