SPECIFICATION Spec
CONSTANTS
  s1 = s1
  s2 = s2
  p1 = p1
  p2 = p2
  d1 = d1
  Units = {s1, s2}
  Uploads = {p1, p2}
  Dumps = {d1}
  Stems = {x}
  AnyUnit = AnyUnit
  NoWait = NoWait
  WaitsFor <- MCWaitsFor
  MaxPhotos = 9
  MaxMarkers = 1
  MaxFrames = 1
  MaxSwitches = 2
  MaxRequests = 3
  MaxCuts = 1
  MaxExports = 0
INVARIANT CasePhotoIsStored
CHECK_DEADLOCK FALSE
