SPECIFICATION Spec
CONSTANTS
  w1 = w1
  w2 = w2
  m1 = m1
  m2 = m2
  Worker = {w1, w2}
  Message = {m1, m2}
  None = None
  HardLimit = 3
  KillLag = 1
  Slack = 2
  LockTTL = 5
  LossKinds = {"process", "host"}
  MaxTime = 14
  MaxLosses = 2
INVARIANTS
  OneHolder
  NoEarlyRedelivery
SYMMETRY LeaseSymmetry
CHECK_DEADLOCK FALSE
