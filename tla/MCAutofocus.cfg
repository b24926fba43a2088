SPECIFICATION FairSpec
CONSTANTS
  STEPS = 26
  LIMIT = 19
  SCAL = 3
  Lag = 1
  Depth = 12
  FocusFrames = 3
  ReadyFrames = 5
  MaxEvent = 2
INVARIANT TypeOK
INVARIANT FoundBehindBest
PROPERTY Ends
