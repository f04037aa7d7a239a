SPECIFICATION Spec
CONSTANTS
  Station <- MCStation
  Page <- MCPage
  Cap = 4
  RingCap = 1
  MaxCalls = 2
CHECK_DEADLOCK FALSE
INVARIANTS
  ShownInOrder
  OneHoleAtMost
  PillIsTrue
PROPERTY
  StreamsEnd
