SPECIFICATION Spec
CONSTANTS
  p1 = p1
  p2 = p2
  r1 = r1
  r2 = r2
  r3 = r3
  s1 = s1
  s2 = s2
  Request = {p1}
  Sweeper = sweeper
  Run = {r1, r2}
  Upload = {}
  Export = {e1, e2}
  Row = {s1, s2}
  Content = {c1}
  None = None
  MaxActive = 1
  Fetching = {r1}
  MaxFaults = 0
INVARIANT
  CompletedSnapshotsKept
SYMMETRY StoreSymmetry
CHECK_DEADLOCK FALSE
