SPECIFICATION Spec
CONSTANTS
  Scenarios <- MCScenarios
  Profile <- MCProfiles
  Bounds <- MCBounds
  MostEntries = 3
  First = "first"
  Width = 4
  Values <- MCValues
  MostLoads = 2
INVARIANTS WindowShowsActive SelectorNamesActive CacheAgrees PointsFollowProfile
PROPERTIES ImplementsStore
