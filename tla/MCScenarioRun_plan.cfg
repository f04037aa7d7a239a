SPECIFICATION FairSpec
CONSTANTS
  Plan <- FullPlan
  Expected <- MCExpected
  TestCount = 2
  ChannelCapacity = 3
  Faults = TRUE
  CycleFits = TRUE
INVARIANTS
  ResultsAreOwn
PROPERTIES
  CompleteIsEarned
  SendsToIdle
  RunEnds
  NotifiedRuns
CHECK_DEADLOCK FALSE
