CONSTANTS
  Threads = {t1, t2}
  Events = {e1, e2}
  e1 = e1
  e2 = e2
  Patterns = {p, q}
  p = p
  q = q
  Branches = {a, b, c}
  a = a
  b = b
  c = c
  None = None
  RouteCount = 2
  Owners <- MCOwners
  ActionCount = 3
  RouteOf <- MCRouteOf
  Minimum <- MCMinimum
  Silent = {2}
  PatternOf <- MCPatternOf
  Alike <- MCAlike
  Hard <- MCHard
  Priority <- MCPriority
  TiesAbstain <- MCTiesAbstain
  Mappable <- MCMappable
  Certifies <- MCCertified
  TrainingSets <- MCTrainingSets
  Limit <- MCLimit
SYMMETRY Symmetric
SPECIFICATION Spec
CHECK_DEADLOCK FALSE
INVARIANTS ExecutedOnce IsolationHolds RecoveredOnce
