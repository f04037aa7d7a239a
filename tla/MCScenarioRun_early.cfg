SPECIFICATION Spec
CONSTANTS
  Plan <- FunctionalFirst
  Expected <- MCExpected
  TestCount = 2
  ChannelCapacity = 3
  Faults = FALSE
  CycleFits = TRUE
INVARIANT ResultsAreOwn
CHECK_DEADLOCK FALSE
