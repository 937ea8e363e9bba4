SPECIFICATION Spec
CONSTANTS
  Rates = {1, 2}
  MaxRate = 2
  Cap = 2
  Earlier <- MCEarlier
  MaxTime = 3
  MaxEvents = 3
INVARIANTS NoPhantomDose NoDoseLost
PROPERTY ImplementsMeter
CHECK_DEADLOCK FALSE
