SPECIFICATION FairSpec
CONSTANTS
  u1 = u1
  u2 = u2
  sensor = sensor
  button = button
  running_hours = running_hours
  relay = relay
  Units <- MCUnits
  Platforms = {sensor, button}
  Features <- MCFeatures
  PlatformOf <- MCPlatformOf
  Frames <- MCFrames
  Renamed <- MCRenamed
  MaxEvents = 2
INVARIANTS NoneLeftOut OneSetUp
PROPERTIES PromiseKept EverythingAppears
CHECK_DEADLOCK FALSE
