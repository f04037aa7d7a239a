CONSTANTS
  Job = {j1}
  NoJob = NoJob
  Client = {c1}
  Requests <- FullRequest
  PatientClients = FALSE
  StationsCrash = FALSE

SPECIFICATION Spec

INVARIANTS
  StoppedIsGoingDown
