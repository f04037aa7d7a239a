SPECIFICATION Spec
CONSTANTS
  alice = alice
  bob = bob
  Absent = Absent
  Nothing = Nothing
  Unknown = Unknown
  Clients <- MCClients
  Names <- MCNames
  BadNames <- MCBadNames
  SavedNames <- MCSavedNames
  Contents <- MCContents
  Length <- MCLength
  Shipped <- MCShipped
SYMMETRY MCSymmetry
INVARIANTS
  WorkIsKept
  SeedsAreShipped
  LoadsAreCurrent
  ListsMatchLoads
