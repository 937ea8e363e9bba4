SPECIFICATION FairSpec
CONSTANTS
  Capacity = 2
  MaxFrames = 4
  MaxFaults = 2
INVARIANTS NothingVanishes QueueIsTheNewest StoppedIsClosed
PROPERTIES InOrder BacklogDrains
CHECK_DEADLOCK FALSE
