CONSTANTS
  j1 = j1  j2 = j2  w1 = w1  w2 = w2  idA = idA  idB = idB  None = None
  Jobs = {j1}
  Workers = {w1, w2}
  Ids = {idA, idB}
  IdOf <- SharedId
  Tokens = {1, 2, 3}
  MaxAttempts = 2
  LeaseTime = 1
  RetryDelay = 1
  MaxTime = 3
  MaxCrashes = 1
  Backend = "sqlite"
SPECIFICATION FairSpec
CHECK_DEADLOCK FALSE
PROPERTIES LeaseRespected OutcomeByHolder NoneLeftBehind
