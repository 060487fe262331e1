CONSTANTS
  Appends = {c1, c2, c3}
  Verifiers = {v1}
  MaxTries = 3
  MaxCrashes = 1
  MaxRestores = 1
SPECIFICATION Spec
SYMMETRY Symmetry
CHECK_DEADLOCK FALSE
INVARIANTS ChainIntact AnchoredOnlyCommitted RetryMeansProgress NoFalseAlarm
PROPERTIES AnchorsImmutable
