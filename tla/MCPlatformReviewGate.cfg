CONSTANTS
  Null = Null
  Names <- MCNames
  KeyNames <- MCKeyNames
  LexSim <- MCLexSim
  Systems <- MCSystems
  Registered <- MCRegistered
  Profile <- MCProfile
  Kind <- MCKind
  Clients = {"x1", "x2"}
  Replica <- MCReplica
  Workers = {"w1", "w2"}
  Conns = {"c1", "c2"}
  Jobs = {1, 2}
  Refs = {1, 2}
  Keys <- MCKeys
  FirstKey = 1
  Values = {"v1", "v2", "v3"}
  Scripts <- MCScripts
  MaxTargets = 2
  MaxGrants = 2
  MaxAttempts = 2
SPECIFICATION Spec
CHECK_DEADLOCK FALSE
INVARIANT ReviewGateKept
