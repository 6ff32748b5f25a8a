SPECIFICATION Spec
CONSTANTS
  p1 = p1
  p2 = p2
  r1 = r1
  r2 = r2
  s1 = s1
  s2 = s2
  Request = {p1, p2}
  Sweeper = sweeper
  Run = {r1, r2}
  Upload = {u1}
  Export = {e1}
  Row = {s1, s2}
  Content = {c1}
  None = None
  MaxActive = 1
  Fetching = {r1}
  MaxFaults = 1
INVARIANTS
  ActiveRunsBounded
  UploadSingleUse
  DeletedUploadsAreGone
  ExportsReadable
  DeletionIsThorough
SYMMETRY StoreSymmetry
CHECK_DEADLOCK FALSE
