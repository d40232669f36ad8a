SPECIFICATION Spec
CONSTANTS
  Frames = 3
  HeaderLength = 2
  MaxPayload = 1
  RecvMax = 7
INVARIANTS FramesAsSent NoFrameWaits
CHECK_DEADLOCK FALSE
