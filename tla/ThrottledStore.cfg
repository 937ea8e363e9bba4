SPECIFICATION Spec
CONSTANTS
  Delay = 2
  Short = 1
  Interval = 3
  MaxTime = 6
  MaxEntries = 3
  MaxSetups = 3
INVARIANTS MarkSoonSaved NotPostponed LossIsBounded
PROPERTY FileKeepsSaved
CHECK_DEADLOCK FALSE
