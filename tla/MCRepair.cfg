CONSTANTS
  Repairs = {r1, r2}
  Clients = {c1, c2}
  None = None
  Limit <- MCLimit
  Drifts <- MCDrifts
  Numerals <- MCNumerals
SYMMETRY Symmetric
SPECIFICATION Spec
CHECK_DEADLOCK FALSE
INVARIANTS Gated OncePerSignature Settled RollbackRestores
