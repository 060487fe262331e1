CONSTANTS
  Users = {u1}
  Passwords = {p1, p2}
  Roles = {operator, viewer}
  Logins = {l1, l2}
  Ops = {o1, o2}
  None = None
  Threshold = 2
  LockTime = 1
  TTL = 2
  MaxTime = 3
SPECIFICATION AccountsSpec
SYMMETRY Symmetry
CHECK_DEADLOCK FALSE
INVARIANTS ThresholdLocks TokensOfCurrentPassword
PROPERTIES LiveLockKept RevocationEffective
