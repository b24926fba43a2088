SPECIFICATION FairSpec
CONSTANTS
  MaxCable = 3
  MaxClock = 2
  MaxPoll = 2
INVARIANT TypeOK
INVARIANT OwedIsPending
INVARIANT NeverDeafOtherwise
INVARIANT LoopOwnsPort
PROPERTY DeafForGood
PROPERTY LoopTracksClock
