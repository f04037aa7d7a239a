CONSTANTS
  Job = {j1, j2}
  NoJob = NoJob
  Client = {c1}
  Requests <- TwoRequests
  PatientClients = TRUE
  StationsCrash = TRUE

SPECIFICATION FairSpec

PROPERTIES
  KeepsPromise
  DownMeansDead
  ScenarioJobsEnd
  RequestsReturn
