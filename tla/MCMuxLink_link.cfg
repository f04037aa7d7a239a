SPECIFICATION Spec
CONSTANTS
  Startup <- MCStartup
  Plan <- MCPlan
  MostEntries = 3
  NA <- MCNA
  Breaks = 1
  Lag = 2
INVARIANTS ReadFindsTheEntry OutstationHasProfile TestsSeeTheProfile
