SPECIFICATION FairSpec
CONSTANTS
  FLAG = FLAG
  DLE = DLE
  Plain = {x}
  Frames <- ShortFrames
  MaxFrames = 2
  MaxErrors = 0
PROPERTY IsFrameChannel
CHECK_DEADLOCK FALSE
