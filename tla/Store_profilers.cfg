SPECIFICATION FairSpec
CONSTANTS
  Sources <- MCAllSources
  ResetAfterRead = TRUE
  UserReads = FALSE
  FlushPeriod = 2
  SamplingPeriod = 1
  MaxTime = 4
  MaxCount = 2
  MaxLevel = 1
INVARIANTS TypeOK CountedOnce NothingLost TimeCoveredOnce EnergyWithinLevels
PROPERTIES DestroyReturns Promise
