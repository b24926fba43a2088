SPECIFICATION FairSpec
CONSTANTS
  MaxCable = 2
  MaxClock = 2
  MaxPoll = 1
PROPERTY ActivePortHasClock
