CONSTANTS
  Null = Null
  Names <- MCNames
  KeyNames = {}
  LexSim <- MCLexSim
  TermSim <- MCTermSim
  Foundries = {"A", "B"}
  a = a
  Threads = {a, b1, b2}
  Foundry <- MCFoundry
  Source <- MCSource
  Intents <- MCIntents
  Origins = {o1, o2, o3}
  Scopes <- MCScopes
  MaxExports = 4
  MaxPacks = 1
  MaxRestarts = 1
SPECIFICATION InheritanceSpec
SYMMETRY Symmetry
CHECK_DEADLOCK FALSE
INVARIANTS ConsensusBeforeAcceptance ReviewKept
