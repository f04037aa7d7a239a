SPECIFICATION Spec
CONSTANTS
  AnalogInput = {"ai1", "ai2"}
  BinaryInput = {"bi1"}
  AnalogOutput = {"ao1", "ao2"}
  BinaryOutput = {"bo1", "bo2", "bo3"}
  AoToAi <- MCAoToAi
  BoToBi <- MCBoToBi
  BiToBo <- MCBiToBo
  AiBounds <- MCAiBounds
  AoBounds <- MCAoBounds
  Startup <- MCStartup
  Plan <- MCPlan
  Entries = 1
  Tests <- MCTests
  Nothing = Nothing
  Breaks = 2
INVARIANTS VerdictIsOfTheProfile OutputsFollowProfile SidesAgree
