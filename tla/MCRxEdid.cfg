SPECIFICATION FairSpec
CONSTANTS
  NPort = 2
  NByte = 3
INVARIANT TypeOK
INVARIANT VerdictSound
INVARIANT CleanBootProvisions
PROPERTY NoNeedlessWear
PROPERTY BootEnds
PROPERTY ImplementsProvision
