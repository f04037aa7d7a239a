SPECIFICATION PipelineSpec
CONSTANTS
  MaxI32 <- MCMaxI32
  MinI32 <- MCMinI32
  None = None
  Refused = Refused
  Blank = Blank
  Panic = Panic
  DefaultCurve <- MCDefaultCurve
  Full <- MCFull
  Workbooks <- MCWorkbooks
  Selections <- MCSelections
  Draws = {"high", "inner"}
  Extra = 1
INVARIANTS
  RowsKept
  OutputsMeanTheSame
  SchedulesWriteTheirCurves
  RoomIsMade
  ScenariosCanBegin
  SelectorsStay
  ExpectationsMet
CHECK_DEADLOCK FALSE
