SPECIFICATION FairSpec
CONSTANTS
  u1 = u1
  u2 = u2
  Units = {u1, u2}
  None = None
  MaxInstances = 3
  MaxSockets = 3
INVARIANTS LoadedIsListening NobodyServed
PROPERTY StopEnds
CHECK_DEADLOCK FALSE
