SPECIFICATION FairSpec
CONSTANTS
  LUT_SIZE = 31
  Lut <- MCLut
  IntRegister = 150
  MaxEvent = 2
  MaxNack = 1
INVARIANT TypeOK
INVARIANT FinishedIsConfigured
PROPERTY MovesOnWhenStored
PROPERTY Finishes
