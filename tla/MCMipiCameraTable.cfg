SPECIFICATION FairSpec
CONSTANTS
  Camera = TRUE
  WORD_NUM_MAX = 14
  NoEntry = NoEntry
  Listed <- CameraListed
  Table <- CameraTable
  Delays = {}
  DelayClocks <- CameraDelayClocks
  ReleaseClocks = 3
  MaxReset = 0
  MaxNack = 0
INVARIANT EveryEntrySent
