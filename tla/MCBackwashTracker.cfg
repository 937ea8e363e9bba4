SPECIFICATION Spec
CONSTANTS
  Day = 3
  MinDuration = 1
  MaxGap = 1
  MaxOpen = 1
  WideTol = 0
  OffsetTol = 0
  ReportsMenu = TRUE
  Schedules <- MCSchedules
  Skews <- MCSkews
  Entries <- MCEntries
  MaxTime = 4
  MaxEvents = 2
  None <- MCNone
INVARIANTS DiskMatches ProjectionFollowsUnit EntryIsNotLost
PROPERTIES HistoryKept OwnCycleRecognised
CHECK_DEADLOCK FALSE
