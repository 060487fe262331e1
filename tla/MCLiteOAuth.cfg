CONSTANTS
  Null = Null
  Gone = Gone
  Systems = {1, 2}
  Refs = {"r1", "r2", "r3"}
  States = {1}
  Providers = {"microsoft-365", "salesforce"}
  Rotating = {"microsoft-365"}
  Revocable = {"salesforce"}
  ClientIds = {1, 2}
  Threads = {t1, t2}
  MaxTokens = 3
  MaxCrashes = 1
SPECIFICATION Spec
SYMMETRY Symmetry
CHECK_DEADLOCK FALSE
INVARIANTS AuthorizedOnce Forgotten CredentialsKept
