SPECIFICATION FairSpec
CONSTANTS
  Camera = FALSE
  WORD_NUM_MAX = 13
  NoEntry = NoEntry
  Listed <- BridgeListed
  Table <- BridgeTable
  Delays <- BridgeDelays
  DelayClocks <- BridgeDelayClocks
  ReleaseClocks = 3
  MaxReset = 1
  MaxNack = 2
INVARIANT TypeOK
INVARIANT OneEngine
INVARIANT InOrder
INVARIANT ReleasedIsDone
PROPERTY MovesOnWhenSent
PROPERTY GetsReleased
