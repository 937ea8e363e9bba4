SPECIFICATION Spec
CONSTANTS
  Streams <- MCStreams
  Refused <- MCRefused
  ReadLimit = 7
  MaxNumber = 6
INVARIANTS MixedFrameEndsConnection NoFrameSkipped NoByteLost
PROPERTY HandledAtOnce
CHECK_DEADLOCK FALSE
