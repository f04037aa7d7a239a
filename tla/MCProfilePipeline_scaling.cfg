SPECIFICATION PipelineSpec
CONSTANTS
  MaxI32 <- MCMaxI32
  MinI32 <- MCMinI32
  None = None
  Refused = Refused
  Blank = Blank
  Panic = Panic
  DefaultCurve <- MCDefaultCurve
  Full <- MCFull
  Workbooks <- MCScalingWorkbooks
  Selections <- MCSelections
  Draws = {"high", "inner"}
  Extra = 1
INVARIANT NoPanic
CHECK_DEADLOCK FALSE
