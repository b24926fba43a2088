SPECIFICATION FairSpec
CONSTANTS
  Camera = TRUE
  WORD_NUM_MAX = 14
  NoEntry = NoEntry
  Listed <- CameraListed
  Table <- CameraTable
  Delays = {}
  DelayClocks <- CameraDelayClocks
  ReleaseClocks = 3
  MaxReset = 1
  MaxNack = 2
INVARIANT CameraIsThere
PROPERTY GetsReleased
