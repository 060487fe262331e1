CONSTANTS
  Steps = {1, 2, 3}
  Daughters = {"d1", "d2"}
  DaughterOf <- MCDaughterOf
  Actions = {a1}
  Required = {1, 2}
  DryRun = {1}
  Inputs = {2}
  CapabilityOf <- MCCapabilityOf
  KindOf <- MCKindOf
  Offers <- MCOffers
  Workflows <- MCWorkflows
  Policies <- MCPolicies
  Events = {"e1", "e2"}
  Keys = {"k1", "k2"}
  Requests <- MCRequests
  Calls = {c1, c2}
  None = None
  Wild = Wild
  MaxSwaps = 1
SPECIFICATION Spec
CHECK_DEADLOCK FALSE
INVARIANTS Causal PolicyGated
PROPERTIES AtMostOnce
