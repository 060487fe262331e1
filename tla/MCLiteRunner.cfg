CONSTANTS
  NConns = 1
  Systems = {s1}
  Uses <- MCUses
  Keys = {k1}
  Clients = {x1}
  None = None
  MaxVersion = 2
  MaxHooks = 2
  MaxCrashes = 1
SPECIFICATION FairSpec
CHECK_DEADLOCK FALSE
INVARIANTS DeliveredAtMostOnce PauseOvershoot ChangesEmitted
PROPERTIES QueuedServed
