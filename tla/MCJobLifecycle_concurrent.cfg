CONSTANTS
  Job = {j1}
  NoJob = NoJob
  Client = {c1, c2}
  Requests <- AllRequests
  PatientClients = FALSE
  StationsCrash = TRUE

SPECIFICATION Spec

INVARIANTS
  NoOrphanProcess
  FailedIsDead
  DeadPillIsTrue
  ProfileFileRemoved

PROPERTIES
  RemovedStaysRemoved

SYMMETRY Symmetry
