CONSTANTS
  BUF_LEN = 3
  RX_LEN = 2
  Depth = 2
  RxDepth = 1
  Threshold = 1
  Timeout = 2
  InactiveMax = 2
  Period = 2
  Ticks = 5
  Counts = {2, 3}
  MaxChars = 5
SPECIFICATION FairSpec
INVARIANTS TypeOK Awake
PROPERTIES ReachesHost AlarmOnTime SilentWhenCounted WriteReturns Delivered
