------------------------- MODULE JobLifecycleProofs -------------------------
(***************************************************************************)
(* Proofs about JobLifecycle, for any set of job ids, any number of HTTP    *)
(* handlers, any requests, patient and impatient clients, and stations     *)
(* that crash or do not.                                                   *)
(***************************************************************************)
EXTENDS JobLifecycle, TLAPS

-----------------------------------------------------------------------------
(* Type correctness.                                                       *)

\* Terminating a station keeps the types of what it changes.
LEMMA KillTypes ==
  ASSUME TypeOK, NEW j \in Job, NEW s \in Station, KillAndEmit(j, s)
  PROVE  /\ alive' \in [Job -> SUBSET Station]
         /\ owner' \in [Job -> [Resource -> Owner]]
         /\ pill' \in [Job -> [Process ->
              {"none", "compiling", "starting", "running", "stopping", "stopped",
               "finished", "error"}]]
<1>1. /\ alive' \in [Job -> SUBSET Station]
      /\ owner' \in [Job -> [Resource -> Owner]]
  BY DEF TypeOK, KillAndEmit, Kill, Owner, Roles
<1>2. PICK shown \in {"stopped", "error"} : SetPill(j, s, shown)
  BY DEF KillAndEmit
<1>3. QED
  BY <1>1, <1>2 DEF TypeOK, SetPill, Process

\* The child a clean-up terminates next is a station of its job that it holds.
LEMMA NextToKillIsHeld ==
  ASSUME NEW j, NEW who, NEW s \in NextToKill(j, who)
  PROVE  s \in Station /\ owner[j][s] = who
BY DEF NextToKill, Holds

\* A handler's step keeps the types: create_job and stop_job.
LEMMA ClientTypes ==
  ASSUME TypeOK, NEW c \in Client,
         \/ RequestCreate(c)
         \/ \E j \in Job : RequestStop(c, j)
         \/ ClientStep(c)
  PROVE  TypeOK'
<1> USE JobLifecycleAssumption DEF TypeOK, jobVars, clientVars
<1>1. CASE RequestCreate(c)
  BY <1>1 DEF RequestCreate, MayRequest
<1>2. ASSUME NEW j \in Job, StopBegin(c, j),
             pending' \in [Client -> SUBSET Job], creating' \in SUBSET Client
      PROVE  TypeOK'
  <2>1. status' \in [Job -> {"absent", "Starting", "Running", "Stopping",
                             "Stopped", "Finished", "Failed"}] /\ token' \in SUBSET Job
    BY <1>2 DEF StopBegin, SetStatus
  <2>2. owner' \in [Job -> [Resource -> Owner]]
    BY <1>2 DEF StopBegin, Move, Owner
  <2>3. pill' \in [Job -> [Process -> {"none", "compiling", "starting", "running", "stopping",
                                       "stopped", "finished", "error"}]]
    BY <1>2 DEF StopBegin, SetPill, Process
  <2>4. /\ cpc' \in [Client -> {"idle", "enforce", "terminate", "mark"}]
        /\ target' \in [Client -> Job \cup {NoJob}]
        /\ \A d \in Client : cpc'[d] \in {"terminate", "mark"} => target'[d] \in Job
    BY <1>2 DEF StopBegin
  <2>5. UNCHANGED <<alive, profileFile, request, bg, orch, left>>
    BY <1>2 DEF StopBegin
  <2>6. QED
    BY <1>2, <2>1, <2>2, <2>3, <2>4, <2>5
<1>3. ASSUME NEW j \in Job, RequestStop(c, j) PROVE TypeOK'
  BY <1>2, <1>3 DEF RequestStop
<1>4. ASSUME NEW j \in Job, EnforceStop(c, j) PROVE TypeOK'
  BY <1>2, <1>4 DEF EnforceStop
<1>5. ASSUME NEW j \in Job, EnforceGone(c, j) PROVE TypeOK'
  BY <1>5 DEF EnforceGone
<1>6. CASE StopTerminate(c)
  <2>1. PICK s \in NextToKill(target[c], c) : KillAndEmit(target[c], s)
    BY <1>6 DEF StopTerminate
  <2>2. target[c] \in Job /\ s \in Station
    BY <1>6, NextToKillIsHeld DEF StopTerminate
  <2>3. QED
    BY <1>6, <2>1, <2>2, KillTypes DEF StopTerminate
<1>7. CASE StopJoin(c)
  BY <1>7 DEF StopJoin, Move, Owner, Roles
<1>8. CASE StopMark(c)
  BY <1>8 DEF StopMark, SetStatus, SetPill, Process
<1>9. ASSUME NEW j \in Job, NEW r \in Requests, CreateInsert(c, j, r) PROVE TypeOK'
  BY <1>9 DEF CreateInsert
<1>10. CASE CreateRejected(c)
  BY <1>10 DEF CreateRejected
<1>11. QED
  BY <1>1, <1>3, <1>4, <1>5, <1>6, <1>7, <1>8, <1>9, <1>10 DEF ClientStep

\* A step of run_job_background keeps the types.
LEMMA BackgroundTypes ==
  ASSUME TypeOK, NEW j \in Job, BackgroundStep(j)
  PROVE  TypeOK'
<1> USE DEF TypeOK, jobVars, clientVars, BgGo
<1>1. CASE BgBegin(j)
  BY <1>1 DEF BgBegin, AfterCheck
<1>2. CASE BgMissingBinary(j)
  BY <1>2 DEF BgMissingBinary
<1>3. ASSUME NEW s \in Station, NEW to \in {"fail", "abort"},
             BgBuildFails(j, s, to) \/ BgSpawnFails(j, s, to)
      PROVE  TypeOK'
  <2>1. CASE BgBuildFails(j, s, to)
    BY <2>1 DEF BgBuildFails, SetPill, Process
  <2>2. CASE BgSpawnFails(j, s, to)
    BY <2>2 DEF BgSpawnFails, SetPill, Process
  <2>3. QED
    BY <1>3, <2>1, <2>2
<1>4. CASE \/ BgOutstationBuildFails(j) \/ BgControlBuildFails(j)
           \/ BgOutstationSpawnFails(j) \/ BgControlSpawnFails(j)
  BY <1>3, <1>4 DEF BgOutstationBuildFails, BgControlBuildFails, BgOutstationSpawnFails,
                    BgControlSpawnFails, Station
<1>51. ASSUME NEW s \in Station, NEW to \in {"control_station", "store"}, BgSpawn(j, s, to)
       PROVE  TypeOK'
  BY <1>51 DEF BgSpawn, SetPill, Owner, Roles, Resource, Task
<1>5. CASE BgSpawnOutstation(j) \/ BgSpawnControl(j)
  BY <1>5, <1>51 DEF BgSpawnOutstation, BgSpawnControl, Station
<1>6. CASE BgPortWaitFails(j)
  BY <1>6 DEF BgPortWaitFails, jobVars
<1>7. CASE BgAbort(j)
  BY <1>7 DEF BgAbort, Kill, Holds, Owner, Roles
<1>8. CASE BgFail(j)
  BY <1>8 DEF BgFail, SetStatus, Move, Owner, Roles
<1>9. CASE BgStore(j)
  <2>1. owner' \in [Job -> [Resource -> Owner]]
    BY <1>9 DEF BgStore, Move, Owner, Roles
  <2>2. /\ status' = [status EXCEPT ![j] = IF @ = "absent" THEN "absent" ELSE "Running"]
        /\ bg' = [bg EXCEPT ![j] = "announce"]
        /\ UNCHANGED <<token, alive, profileFile, pill, request, orch, left, clientVars>>
    BY <1>9 DEF BgStore, SetStatus
  <2>3. QED
    BY <2>1, <2>2
<1>10. CASE BgAnnounce(j)
  <2>1. request[j].scenarios \in Nat
    BY JobLifecycleAssumption DEF NoRequest
  <2>2. pill' = [pill EXCEPT ![j]["test_runner"] = "running"]
    BY <1>10 DEF BgAnnounce, SetPill
  <2>3. /\ owner' \in [Job -> [Resource -> Owner]]
        /\ orch' \in [Job -> {"none", "loop", "scenario", "terminate", "mark",
                             "remove", "done"}]
        /\ left' \in [Job -> Nat]
    <3>1. CASE request[j].cs /\ request[j].scenarios > 0
      <4>1. /\ orch' = [orch EXCEPT ![j] = "loop"]
            /\ left' = [left EXCEPT ![j] = request[j].scenarios]
            /\ owner' = [owner EXCEPT ![j]["orchestrator_task"] = "background"]
        BY <1>10, <3>1 DEF BgAnnounce
      <4>2. owner' \in [Job -> [Resource -> Owner]]
        BY <4>1 DEF Owner, Roles
      <4>3. QED
        BY <2>1, <4>1, <4>2
    <3>2. CASE ~(request[j].cs /\ request[j].scenarios > 0)
      BY <1>10, <3>2 DEF BgAnnounce
    <3>3. QED
      BY <3>1, <3>2
  <2>4. QED
    BY <1>10, <2>2, <2>3 DEF BgAnnounce, Process
<1>11. CASE BgStoreHandles(j)
  BY <1>11 DEF BgStoreHandles, Move, Owner, Roles
<1>12. QED
  BY <1>1, <1>2, <1>3, <1>4, <1>5, <1>6, <1>7, <1>8, <1>9, <1>10, <1>11
     DEF BackgroundStep

\* A step of the orchestrator or of finish_job keeps the types.
LEMMA OrchestratorTypes ==
  ASSUME TypeOK, NEW j \in Job, OrchestratorStep(j)
  PROVE  TypeOK'
<1> USE DEF TypeOK, jobVars, clientVars, OrchGo
<1>1. CASE OrchBegin(j)
  BY <1>1 DEF OrchBegin
<1>2. CASE OrchCancelled(j)
  BY <1>2 DEF OrchCancelled
<1>3. CASE OrchScenarioComplete(j)
  BY <1>3 DEF OrchScenarioComplete
<1>31. CASE OrchScenarioError(j)
  BY <1>31 DEF OrchScenarioError
<1>4. CASE FinishTake(j)
  BY <1>4 DEF FinishTake, Move, Owner, Roles
<1>5. CASE FinishTerminate(j)
  <2>1. PICK s \in NextToKill(j, "orchestrator") : KillAndEmit(j, s)
    BY <1>5 DEF FinishTerminate
  <2>2. QED
    BY <1>5, <2>1, NextToKillIsHeld, KillTypes DEF FinishTerminate
<1>6. CASE FinishJoin(j)
  BY <1>6 DEF FinishJoin, Move, Owner, Roles
<1>7. CASE FinishMark(j)
  BY <1>7 DEF FinishMark, SetStatus, SetPill, Process
<1>8. CASE FinishRemove(j)
  BY <1>8 DEF FinishRemove, Move, Holds, Owner, Roles
<1>9. QED
  BY <1>1, <1>2, <1>3, <1>31, <1>4, <1>5, <1>6, <1>7, <1>8 DEF OrchestratorStep

\* A station that exits by itself keeps the types.
LEMMA StationExitTypes ==
  ASSUME TypeOK, NEW j \in Job, NEW s \in Station, StationExits(j, s)
  PROVE  TypeOK'
BY DEF TypeOK, StationExits, clientVars

\* Every step of the service keeps the types.
LEMMA TypeStep == TypeOK /\ [Next]_vars => TypeOK'
<1> SUFFICES ASSUME TypeOK, [Next]_vars PROVE TypeOK'
  OBVIOUS
<1>1. CASE UNCHANGED vars
  BY <1>1 DEF TypeOK, vars, jobVars, clientVars
<1>2. QED
  BY <1>1, ClientTypes, BackgroundTypes, OrchestratorTypes, StationExitTypes DEF Next

\* Every variable of the job service keeps its type, whatever the tasks do.
THEOREM TypeCorrect == Spec => []TypeOK
<1>1. Init => TypeOK
  BY DEF Init, TypeOK, Owner, Roles, NoRequest
<1>2. QED
  BY <1>1, TypeStep, PTL DEF Spec

-----------------------------------------------------------------------------
(* No process is orphaned.  By itself NoOrphanProcess is not inductive: a    *)
(* job could leave the map while its background task still had children to *)
(* store there.  Startup says that this cannot be, because only the          *)
(* orchestrator removes a job and it is spawned after the store.             *)

Startup ==
  \A j \in Job :
    /\ orch[j] # "none" => bg[j] \in {"handles", "done"}
    /\ Created(j) /\ status[j] = "absent" => bg[j] \in {"handles", "done"}
    /\ ~Created(j) => status[j] = "absent"

KeepInv == TypeOK /\ Startup /\ NoOrphanProcess

\* Every step keeps what Startup says of a job that is coming up.
LEMMA StartupStep == TypeOK /\ Startup /\ [Next]_vars => Startup'
<1> SUFFICES ASSUME TypeOK, Startup, [Next]_vars PROVE Startup'
  OBVIOUS
<1> USE DEF TypeOK, Startup, Created, jobVars, clientVars
<1>1. ASSUME NEW c \in Client, NEW j \in Job, StopBegin(c, j) PROVE Startup'
  BY <1>1 DEF StopBegin, SetStatus
<1>2. ASSUME NEW c \in Client, NEW j \in Job,
             RequestStop(c, j) \/ EnforceStop(c, j)
      PROVE  Startup'
  BY <1>1, <1>2 DEF RequestStop, EnforceStop
<1>3. ASSUME NEW c \in Client,
             RequestCreate(c) \/ StopTerminate(c) \/ StopJoin(c) \/ CreateRejected(c)
      PROVE  Startup'
  BY <1>3 DEF RequestCreate, StopTerminate, StopJoin, CreateRejected
<1>4. ASSUME NEW c \in Client, NEW j \in Job, EnforceGone(c, j) PROVE Startup'
  BY <1>4 DEF EnforceGone
<1>5. ASSUME NEW c \in Client, StopMark(c) PROVE Startup'
  BY <1>5 DEF StopMark, SetStatus
<1>6. ASSUME NEW c \in Client, NEW j \in Job, NEW r \in Requests, CreateInsert(c, j, r)
      PROVE  Startup'
  BY <1>6 DEF CreateInsert
<1>7. ASSUME NEW j \in Job, BackgroundStep(j) PROVE Startup'
  <2> USE DEF BgGo
  <2>1. CASE BgBegin(j)
    BY <2>1 DEF BgBegin, AfterCheck
  <2>11. CASE BgMissingBinary(j) \/ BgPortWaitFails(j)
    BY <2>11 DEF BgMissingBinary, BgPortWaitFails
  <2>12. CASE BgAbort(j) \/ BgStoreHandles(j)
    BY <2>12 DEF BgAbort, BgStoreHandles
  <2>2. ASSUME NEW s \in {"outstation", "control_station"}, NEW to \in {"fail", "abort"},
               BgBuildFails(j, s, to) \/ BgSpawnFails(j, s, to)
        PROVE  Startup'
    BY <2>2 DEF BgBuildFails, BgSpawnFails
  <2>3. ASSUME NEW s \in {"outstation", "control_station"},
               NEW to \in {"control_station", "store"}, BgSpawn(j, s, to)
        PROVE  Startup'
    BY <2>3 DEF BgSpawn
  <2>4. CASE BgFail(j) \/ BgStore(j)
    BY <2>4 DEF BgFail, BgStore, SetStatus
  <2>5. CASE BgAnnounce(j)
    BY <2>5 DEF BgAnnounce
  <2>6. QED
    BY <1>7, <2>1, <2>11, <2>12, <2>2, <2>3, <2>4, <2>5 DEF BackgroundStep, BgOutstationBuildFails,
       BgControlBuildFails, BgOutstationSpawnFails, BgControlSpawnFails,
       BgSpawnOutstation, BgSpawnControl
<1>8. ASSUME NEW j \in Job, OrchestratorStep(j) PROVE Startup'
  <2> USE DEF OrchGo
  <2>1. CASE \/ OrchBegin(j) \/ OrchCancelled(j) \/ OrchScenarioComplete(j)
             \/ OrchScenarioError(j) \/ FinishTake(j) \/ FinishTerminate(j) \/ FinishJoin(j)
    BY <2>1 DEF OrchBegin, OrchCancelled, OrchScenarioComplete, OrchScenarioError,
                FinishTake, FinishTerminate, FinishJoin
  <2>2. CASE FinishMark(j) \/ FinishRemove(j)
    BY <2>2 DEF FinishMark, FinishRemove, SetStatus
  <2>3. QED
    BY <1>8, <2>1, <2>2 DEF OrchestratorStep
<1>9. ASSUME NEW j \in Job, NEW s \in Station, StationExits(j, s) PROVE Startup'
  BY <1>9 DEF StationExits
<1>10. CASE UNCHANGED vars
  BY <1>10 DEF vars
<1>11. QED
  BY <1>2, <1>3, <1>4, <1>5, <1>6, <1>7, <1>8, <1>9, <1>10 DEF Next, ClientStep

\* Moving task handles leaves the children where they are.
LEMMA TasksMoveAlone ==
  ASSUME TypeOK, NEW j \in Job, NEW from, NEW to, Move(j, Task, from, to),
         NEW i \in Job, NEW s \in Station
  PROVE  owner'[i][s] = owner[i][s]
BY DEF TypeOK, Move, Resource, Station, Task

\* What a step has to show: each process that still runs is kept.
LEMMA KeptStep ==
  ASSUME KeepInv, [Next]_vars
  PROVE  NoOrphanProcess'
<1> SUFFICES ASSUME NEW i \in Job, NEW s \in alive'[i] PROVE Kept(i, s)'
  BY DEF NoOrphanProcess
<1>0. s \in Station
  BY TypeStep DEF KeepInv, TypeOK
<1> USE JobLifecycleAssumption
    DEF KeepInv, TypeOK, NoOrphanProcess, Kept, jobVars, clientVars, Roles
<1>1. ASSUME NEW c \in Client, NEW j \in Job, StopBegin(c, j), cpc[c] \in {"idle", "enforce"}
      PROVE  Kept(i, s)'
  BY <1>1 DEF StopBegin, SetStatus, Move, Resource
<1>2. ASSUME NEW c \in Client, NEW j \in Job, RequestStop(c, j) \/ EnforceStop(c, j)
      PROVE  Kept(i, s)'
  BY <1>1, <1>2 DEF RequestStop, EnforceStop, MayRequest
<1>3. ASSUME NEW c \in Client, RequestCreate(c) \/ CreateRejected(c)
      PROVE  Kept(i, s)'
  BY <1>3 DEF RequestCreate, CreateRejected, MayRequest
<1>4. ASSUME NEW c \in Client, NEW j \in Job, EnforceGone(c, j) PROVE Kept(i, s)'
  BY <1>4 DEF EnforceGone
<1>5. ASSUME NEW c \in Client, StopTerminate(c) PROVE Kept(i, s)'
  BY <1>5 DEF StopTerminate, KillAndEmit, Kill, Resource
<1>6. ASSUME NEW c \in Client, StopJoin(c) PROVE Kept(i, s)'
  BY <1>6 DEF StopJoin, Move, Holds, Resource, Task, Station
<1>7. ASSUME NEW c \in Client, StopMark(c) PROVE Kept(i, s)'
  BY <1>7 DEF StopMark, SetStatus
<1>8. ASSUME NEW c \in Client, NEW j \in Job, NEW r \in Requests, CreateInsert(c, j, r)
      PROVE  Kept(i, s)'
  BY <1>8 DEF CreateInsert, Created
<1>9. ASSUME NEW j \in Job, BackgroundStep(j) PROVE Kept(i, s)'
  <2> USE DEF BgGo
  <2>1. CASE BgBegin(j)
    BY <2>1 DEF BgBegin, AfterCheck
  <2>2. CASE BgMissingBinary(j)
    BY <2>2 DEF BgMissingBinary
  <2>21. CASE BgPortWaitFails(j)
    BY <2>21 DEF BgPortWaitFails
  <2>3. CASE BgOutstationBuildFails(j)
    BY <2>3 DEF BgOutstationBuildFails, BgBuildFails
  <2>31. CASE BgOutstationSpawnFails(j)
    BY <2>31 DEF BgOutstationSpawnFails, BgSpawnFails
  <2>4. CASE BgControlBuildFails(j)
    BY <2>4 DEF BgControlBuildFails, BgBuildFails
  <2>41. CASE BgControlSpawnFails(j)
    BY <2>41 DEF BgControlSpawnFails, BgSpawnFails
  <2>5. ASSUME NEW t \in Station, NEW to \in {"control_station", "store"},
               bg[j] \in {"outstation", "control_station"}, BgSpawn(j, t, to)
        PROVE  Kept(i, s)'
    BY <2>5 DEF BgSpawn, Station, Resource, Task
  <2>6. CASE BgSpawnOutstation(j) \/ BgSpawnControl(j)
    BY <2>5, <2>6 DEF BgSpawnOutstation, BgSpawnControl, BgSpawn, Station
  <2>7. CASE BgAbort(j)
    BY <2>7 DEF BgAbort, Kill, Holds, Resource
  <2>8. CASE BgFail(j)
    BY <2>8 DEF BgFail, SetStatus, Move, Resource, Station, Task
  <2>9. CASE BgStore(j)
    <3>1. status[j] # "absent"
      BY <2>9 DEF BgStore, Startup, Created
    <3>2. QED
      BY <2>9, <3>1 DEF BgStore, SetStatus, Move, Resource
  <2>10. CASE BgAnnounce(j)
    <3>1. \/ owner' = [owner EXCEPT ![j]["orchestrator_task"] = "background"]
          \/ owner' = owner
      BY <2>10 DEF BgAnnounce
    <3>2. owner'[i][s] = owner[i][s]
      <4>1. s # "orchestrator_task" /\ s \in Resource
        BY <1>0 DEF Station, Resource
      <4>2. owner \in [Job -> [Resource -> Owner]]
        OBVIOUS
      <4>3. QED
        BY ONLY <3>1, <4>1, <4>2, i \in Job, j \in Job
    <3>3. /\ orch'[i] = orch[i] \/ (i = j /\ orch'[i] = "loop")
          /\ bg[j] = "announce" /\ bg' = [bg EXCEPT ![j] = "handles"]
          /\ UNCHANGED <<status, alive, cpc, target>>
      <4>1. CASE orch' = [orch EXCEPT ![j] = "loop"]
        BY <2>10, <4>1 DEF BgAnnounce
      <4>2. CASE orch' = orch
        BY <2>10, <4>2 DEF BgAnnounce
      <4>3. QED
        BY <2>10, <4>1, <4>2 DEF BgAnnounce
    <3>4. orch[j] = "none"
      BY <3>3 DEF Startup
    <3>5. Kept(i, s)
      BY <3>3
    <3>6. QED
      BY <3>2, <3>3, <3>4, <3>5
  <2>11. CASE BgStoreHandles(j)
    <3>1. owner'[i][s] = owner[i][s]
      BY <1>0, <2>11, TasksMoveAlone DEF BgStoreHandles
    <3>2. QED
      BY <2>11, <3>1 DEF BgStoreHandles
  <2>12. QED
    BY <1>9, <2>1, <2>2, <2>21, <2>3, <2>31, <2>4, <2>41, <2>6, <2>7, <2>8,
       <2>9, <2>10, <2>11
       DEF BackgroundStep
<1>10. ASSUME NEW j \in Job, OrchestratorStep(j) PROVE Kept(i, s)'
  <2> USE DEF OrchGo
  <2>1. CASE OrchBegin(j)
    BY <2>1 DEF OrchBegin
  <2>11. CASE OrchCancelled(j)
    BY <2>11 DEF OrchCancelled
  <2>12. CASE OrchScenarioComplete(j)
    BY <2>12 DEF OrchScenarioComplete
  <2>13. CASE OrchScenarioError(j)
    BY <2>13 DEF OrchScenarioError
  <2>2. CASE FinishTake(j)
    BY <2>2 DEF FinishTake, Move, Resource
  <2>3. CASE FinishTerminate(j)
    BY <2>3 DEF FinishTerminate, KillAndEmit, Kill, Resource
  <2>4. CASE FinishJoin(j)
    BY <2>4 DEF FinishJoin, Move, Holds, Resource, Station, Task
  <2>5. CASE FinishMark(j)
    BY <2>5 DEF FinishMark, SetStatus
  <2>6. CASE FinishRemove(j)
    BY <2>6 DEF FinishRemove, Move, Holds, Resource
  <2>7. QED
    BY <1>10, <2>1, <2>11, <2>12, <2>13, <2>2, <2>3, <2>4, <2>5, <2>6 DEF OrchestratorStep
<1>11. ASSUME NEW j \in Job, NEW t \in Station, StationExits(j, t) PROVE Kept(i, s)'
  BY <1>11 DEF StationExits
<1>12. CASE UNCHANGED vars
  BY <1>12 DEF vars
<1>13. QED
  BY <1>2, <1>3, <1>4, <1>5, <1>6, <1>7, <1>8, <1>9, <1>10, <1>11, <1>12 DEF Next, ClientStep

\* Whatever the interleaving of requests, start-up, clean-up and crashes, for any
\* number of jobs and handlers, each running station process is in the hands
\* of a task that will terminate or store it, or of its job's map entry.
THEOREM ProcessesAreKept == Spec => []NoOrphanProcess
<1>1. Init => KeepInv
  BY DEF Init, KeepInv, TypeOK, Startup, NoOrphanProcess, Created, Owner, Roles, NoRequest
<1>2. KeepInv /\ [Next]_vars => KeepInv'
  BY TypeStep, StartupStep, KeptStep DEF KeepInv
<1>3. KeepInv => NoOrphanProcess
  BY DEF KeepInv
<1>4. QED
  BY <1>1, <1>2, <1>3, PTL DEF Spec

\* A job that has left the map never comes back.
THEOREM RemovedJobsStayRemoved == Spec => RemovedStaysRemoved
<1>1. TypeOK /\ [Next]_vars =>
        [\A j \in Job : Created(j) /\ status[j] = "absent" => status'[j] = "absent"]_vars
  <2> SUFFICES ASSUME TypeOK, Next, NEW i \in Job, Created(i), status[i] = "absent"
               PROVE  status'[i] = "absent"
    OBVIOUS
  <2> USE DEF TypeOK, Created, jobVars, clientVars, SetStatus
  <2>1. ASSUME NEW c \in Client, NEW j \in Job, StopBegin(c, j) PROVE status'[i] = "absent"
    BY <2>1 DEF StopBegin
  <2>2. ASSUME NEW c \in Client, RequestCreate(c) \/ \E j \in Job : RequestStop(c, j)
        PROVE  status'[i] = "absent"
    BY <2>1, <2>2 DEF RequestCreate, RequestStop
  <2>3. ASSUME NEW c \in Client, ClientStep(c) PROVE status'[i] = "absent"
    BY <2>1, <2>3 DEF ClientStep, EnforceStop, EnforceGone, StopTerminate, StopJoin,
                      StopMark, CreateInsert, CreateRejected
  <2>4. ASSUME NEW j \in Job, BackgroundStep(j) PROVE status'[i] = "absent"
    BY <2>4 DEF BackgroundStep, BgBegin, BgMissingBinary, BgOutstationBuildFails,
       BgControlBuildFails, BgBuildFails, BgOutstationSpawnFails, BgControlSpawnFails,
       BgSpawnFails, BgSpawnOutstation, BgSpawnControl, BgSpawn, BgPortWaitFails,
       BgAbort, BgFail, BgStore, BgAnnounce, BgStoreHandles
  <2>5. ASSUME NEW j \in Job, OrchestratorStep(j) PROVE status'[i] = "absent"
    BY <2>5 DEF OrchestratorStep, OrchBegin, OrchCancelled, OrchScenarioComplete,
       OrchScenarioError, FinishTake, FinishTerminate, FinishJoin, FinishMark, FinishRemove
  <2>6. ASSUME NEW j \in Job, NEW s \in Station, StationExits(j, s)
        PROVE  status'[i] = "absent"
    BY <2>6 DEF StationExits
  <2>7. QED
    BY <2>2, <2>3, <2>4, <2>5, <2>6 DEF Next
<1>2. QED
  BY <1>1, TypeCorrect, PTL DEF Spec, RemovedStaysRemoved

-----------------------------------------------------------------------------
(* A failed job is dead.  The failure is recorded when the background task  *)
(* is at "fail", so nothing may be alive there; the task gets there from    *)
(* "abort" having killed what it holds, so nobody else may hold a station   *)
(* while the job comes up.                                                 *)

ComingUp == {"none", "check", "outstation", "control_station", "abort", "fail", "store"}

HeldAtHome ==
  \A j \in Job : bg[j] \in ComingUp =>
    \A s \in Station : owner[j][s] \in {"nobody", "background"}

NotYetAlive ==
  \A j \in Job :
    /\ bg[j] \in {"none", "check", "outstation", "fail"} => alive[j] = {}
    /\ bg[j] = "control_station" => "control_station" \notin alive[j]

FailedInv ==
  /\ NotYetAlive
  /\ FailedIsDead
  /\ \A j \in Job : status[j] = "Failed" => bg[j] = "done"

\* Nobody but the background task holds a station of a job that is coming up.
LEMMA HeldAtHomeStep ==
  ASSUME TypeOK, Startup, HeldAtHome, [Next]_vars
  PROVE  HeldAtHome'
<1> SUFFICES ASSUME NEW i \in Job, bg'[i] \in ComingUp, NEW s \in Station
             PROVE  owner'[i][s] \in {"nobody", "background"}
  BY DEF HeldAtHome, ComingUp
<1> USE JobLifecycleAssumption
    DEF TypeOK, HeldAtHome, ComingUp, Roles, Resource, Station, Task, jobVars, clientVars
<1>1. ASSUME NEW c \in Client, NEW j \in Job, RequestStop(c, j) \/ EnforceStop(c, j)
      PROVE  owner'[i][s] \in {"nobody", "background"}
  <2>1. StopBegin(c, j)
    BY <1>1 DEF RequestStop, EnforceStop
  <2>2. owner[i][s] \in {"nobody", "background"}
    BY <2>1 DEF StopBegin
  <2>3. owner'[i][s] = owner[i][s] \/ owner[i][s] = "map"
    BY <2>1 DEF StopBegin, Move
  <2>4. QED
    BY <2>2, <2>3
<1>2. ASSUME NEW c \in Client,
             RequestCreate(c) \/ CreateRejected(c) \/ StopMark(c)
      PROVE  owner'[i][s] \in {"nobody", "background"}
  BY <1>2 DEF RequestCreate, CreateRejected, StopMark
<1>3. ASSUME NEW c \in Client, NEW j \in Job, EnforceGone(c, j)
      PROVE  owner'[i][s] \in {"nobody", "background"}
  BY <1>3 DEF EnforceGone
<1>4. ASSUME NEW c \in Client, StopTerminate(c)
      PROVE  owner'[i][s] \in {"nobody", "background"}
  BY <1>4 DEF StopTerminate, KillAndEmit, Kill
<1>5. ASSUME NEW c \in Client, StopJoin(c)
      PROVE  owner'[i][s] \in {"nobody", "background"}
  BY <1>5 DEF StopJoin, Move
<1>6. ASSUME NEW c \in Client, NEW j \in Job, NEW r \in Requests, CreateInsert(c, j, r)
      PROVE  owner'[i][s] \in {"nobody", "background"}
  BY <1>6 DEF CreateInsert, Created
<1>7. ASSUME NEW j \in Job, BackgroundStep(j)
      PROVE  owner'[i][s] \in {"nobody", "background"}
  <2> USE DEF BgGo
  <2>1. CASE BgBegin(j) \/ BgMissingBinary(j) \/ BgPortWaitFails(j)
    BY <2>1 DEF BgBegin, BgMissingBinary, BgPortWaitFails
  <2>2. CASE BgOutstationBuildFails(j) \/ BgControlBuildFails(j)
    BY <2>2 DEF BgOutstationBuildFails, BgControlBuildFails, BgBuildFails
  <2>3. CASE BgOutstationSpawnFails(j) \/ BgControlSpawnFails(j)
    BY <2>3 DEF BgOutstationSpawnFails, BgControlSpawnFails, BgSpawnFails
  <2>4. CASE BgSpawnOutstation(j)
    BY <2>4 DEF BgSpawnOutstation, BgSpawn
  <2>5. CASE BgSpawnControl(j)
    BY <2>5 DEF BgSpawnControl, BgSpawn
  <2>6. CASE BgAbort(j)
    BY <2>6 DEF BgAbort, Kill
  <2>7. CASE BgFail(j)
    BY <2>7 DEF BgFail, Move
  <2>8. CASE BgStore(j)
    BY <2>8 DEF BgStore, Move
  <2>9. CASE BgAnnounce(j)
    BY <2>9 DEF BgAnnounce
  <2>10. CASE BgStoreHandles(j)
    BY <2>10 DEF BgStoreHandles, Move
  <2>11. QED
    BY <1>7, <2>1, <2>2, <2>3, <2>4, <2>5, <2>6, <2>7, <2>8, <2>9, <2>10 DEF BackgroundStep
<1>8. ASSUME NEW j \in Job, OrchestratorStep(j)
      PROVE  owner'[i][s] \in {"nobody", "background"}
  <2> USE DEF OrchGo
  <2>1. CASE \/ OrchBegin(j) \/ OrchCancelled(j) \/ OrchScenarioComplete(j)
             \/ OrchScenarioError(j) \/ FinishMark(j)
    BY <2>1 DEF OrchBegin, OrchCancelled, OrchScenarioComplete, OrchScenarioError, FinishMark
  <2>2. CASE FinishTake(j)
    BY <2>2 DEF FinishTake, Move
  <2>3. CASE FinishTerminate(j)
    BY <2>3 DEF FinishTerminate, KillAndEmit, Kill
  <2>4. CASE FinishJoin(j)
    BY <2>4 DEF FinishJoin, Move
  <2>5. CASE FinishRemove(j)
    BY <2>5 DEF FinishRemove, Move
  <2>6. QED
    BY <1>8, <2>1, <2>2, <2>3, <2>4, <2>5 DEF OrchestratorStep
<1>9. ASSUME NEW j \in Job, NEW t \in Station, StationExits(j, t)
      PROVE  owner'[i][s] \in {"nobody", "background"}
  BY <1>9 DEF StationExits
<1>10. CASE UNCHANGED vars
  BY <1>10 DEF vars
<1>11. QED
  BY <1>1, <1>2, <1>3, <1>4, <1>5, <1>6, <1>7, <1>8, <1>9, <1>10 DEF Next, ClientStep

\* The job that fails is not alive, and no job that failed starts anything.
LEMMA FailedStep ==
  ASSUME KeepInv, HeldAtHome, FailedInv, [Next]_vars
  PROVE  FailedInv'
<1> SUFFICES ASSUME NEW i \in Job
             PROVE  /\ bg'[i] \in {"none", "check", "outstation", "fail"} => alive'[i] = {}
                    /\ bg'[i] = "control_station" => "control_station" \notin alive'[i]
                    /\ status'[i] = "Failed" => bg'[i] = "done" /\ alive'[i] = {}
  BY DEF FailedInv, NotYetAlive, FailedIsDead
<1> DEFINE Goal == /\ bg'[i] \in {"none", "check", "outstation", "fail"} => alive'[i] = {}
                   /\ bg'[i] = "control_station" => "control_station" \notin alive'[i]
                   /\ status'[i] = "Failed" => bg'[i] = "done" /\ alive'[i] = {}
<1>a. TypeOK /\ Startup /\ NoOrphanProcess
  BY DEF KeepInv
<1> USE <1>a DEF TypeOK, FailedInv, NotYetAlive, FailedIsDead, Station, jobVars, clientVars
<1>1. ASSUME NEW c \in Client, NEW j \in Job, RequestStop(c, j) \/ EnforceStop(c, j)
      PROVE  Goal
  BY <1>1 DEF RequestStop, EnforceStop, StopBegin, SetStatus
<1>2. ASSUME NEW c \in Client, RequestCreate(c) \/ CreateRejected(c) \/ StopJoin(c)
      PROVE  Goal
  BY <1>2 DEF RequestCreate, CreateRejected, StopJoin
<1>3. ASSUME NEW c \in Client, NEW j \in Job, EnforceGone(c, j) PROVE Goal
  BY <1>3 DEF EnforceGone
<1>4. ASSUME NEW c \in Client, StopTerminate(c) PROVE Goal
  BY <1>4 DEF StopTerminate, KillAndEmit, Kill
<1>5. ASSUME NEW c \in Client, StopMark(c) PROVE Goal
  BY <1>5 DEF StopMark, SetStatus
<1>6. ASSUME NEW c \in Client, NEW j \in Job, NEW r \in Requests, CreateInsert(c, j, r)
      PROVE  Goal
  BY <1>6 DEF CreateInsert, Created
<1>7. ASSUME NEW j \in Job, BackgroundStep(j) PROVE Goal
  <2> USE DEF BgGo
  <2>1. CASE BgBegin(j)
    BY <2>1 DEF BgBegin, AfterCheck
  <2>2. CASE BgMissingBinary(j) \/ BgPortWaitFails(j)
    BY <2>2 DEF BgMissingBinary, BgPortWaitFails
  <2>3. CASE BgOutstationBuildFails(j) \/ BgControlBuildFails(j)
    BY <2>3 DEF BgOutstationBuildFails, BgControlBuildFails, BgBuildFails
  <2>4. CASE BgOutstationSpawnFails(j) \/ BgControlSpawnFails(j)
    BY <2>4 DEF BgOutstationSpawnFails, BgControlSpawnFails, BgSpawnFails
  <2>5. CASE BgSpawnOutstation(j)
    BY <2>5 DEF BgSpawnOutstation, BgSpawn
  <2>6. CASE BgSpawnControl(j)
    BY <2>6 DEF BgSpawnControl, BgSpawn
  <2>7. CASE BgAbort(j)
    <3>1. bg[j] = "abort"
      BY <2>7 DEF BgAbort
    <3>2. ASSUME NEW s \in alive[j] PROVE s \in Holds(j, "background")
      <4>1. s \in Station /\ Kept(j, s)
        BY DEF NoOrphanProcess
      <4>2. owner[j][s] \in {"nobody", "background"}
        BY <3>1, <4>1 DEF HeldAtHome, ComingUp
      <4>3. owner[j][s] # "nobody"
        BY <4>1, JobLifecycleAssumption DEF Kept, Roles
      <4>4. QED
        BY <4>1, <4>2, <4>3 DEF Holds
    <3>3. QED
      BY <2>7, <3>1, <3>2 DEF BgAbort, Kill
  <2>8. CASE BgFail(j)
    BY <2>8 DEF BgFail, SetStatus
  <2>9. CASE BgStore(j)
    BY <2>9 DEF BgStore, SetStatus
  <2>10. CASE BgAnnounce(j) \/ BgStoreHandles(j)
    BY <2>10 DEF BgAnnounce, BgStoreHandles
  <2>11. QED
    BY <1>7, <2>1, <2>2, <2>3, <2>4, <2>5, <2>6, <2>7, <2>8, <2>9, <2>10 DEF BackgroundStep
<1>8. ASSUME NEW j \in Job, OrchestratorStep(j) PROVE Goal
  <2> USE DEF OrchGo
  <2>1. CASE \/ OrchBegin(j) \/ OrchCancelled(j) \/ OrchScenarioComplete(j)
             \/ OrchScenarioError(j) \/ FinishTake(j) \/ FinishJoin(j)
    BY <2>1 DEF OrchBegin, OrchCancelled, OrchScenarioComplete, OrchScenarioError,
                FinishTake, FinishJoin
  <2>2. CASE FinishTerminate(j)
    BY <2>2 DEF FinishTerminate, KillAndEmit, Kill
  <2>3. CASE FinishMark(j)
    BY <2>3 DEF FinishMark, SetStatus
  <2>4. CASE FinishRemove(j)
    BY <2>4 DEF FinishRemove
  <2>5. QED
    BY <1>8, <2>1, <2>2, <2>3, <2>4 DEF OrchestratorStep
<1>9. ASSUME NEW j \in Job, NEW s \in Station, StationExits(j, s) PROVE Goal
  BY <1>9 DEF StationExits
<1>10. CASE UNCHANGED vars
  BY <1>10 DEF vars
<1>11. QED
  BY <1>1, <1>2, <1>3, <1>4, <1>5, <1>6, <1>7, <1>8, <1>9, <1>10 DEF Next, ClientStep

\* What is inductive about jobs that fail.
OutcomeInv == KeepInv /\ HeldAtHome /\ FailedInv

\* The start has it and every step keeps it.
LEMMA OutcomeInductive == Spec => []OutcomeInv
<1>1. Init => OutcomeInv
  BY DEF Init, OutcomeInv, KeepInv, TypeOK, Startup, NoOrphanProcess, Created, Owner, Roles,
         NoRequest, HeldAtHome, FailedInv, NotYetAlive, FailedIsDead, Resource, Station, Task
<1>2. OutcomeInv /\ [Next]_vars => OutcomeInv'
  BY TypeStep, StartupStep, KeptStep, HeldAtHomeStep, FailedStep DEF OutcomeInv, KeepInv
<1>3. QED
  BY <1>1, <1>2, PTL DEF Spec

\* A job reported Failed has no process left, whoever else works on it.
THEOREM FailedJobsAreDead == Spec => []FailedIsDead
<1>1. OutcomeInv => FailedIsDead
  BY DEF OutcomeInv, FailedInv
<1>2. QED
  BY <1>1, OutcomeInductive, PTL

-----------------------------------------------------------------------------
(* A pill that shows a dead process is right: every clean-up waits for the  *)
(* kill before it emits, and errors are emitted before anything is spawned. *)

\* No step shows a living process as dead or brings a dead one to life
\* under its pill.
LEMMA DeadPillStep ==
  ASSUME OutcomeInv, DeadPillIsTrue, [Next]_vars
  PROVE  DeadPillIsTrue'
<1> SUFFICES ASSUME NEW i \in Job, NEW p \in Station, pill'[i][p] \in {"stopped", "error"}
             PROVE  p \notin alive'[i]
  BY DEF DeadPillIsTrue
<1>a. TypeOK /\ NotYetAlive
  BY DEF OutcomeInv, KeepInv, FailedInv
<1> USE <1>a DEF TypeOK, DeadPillIsTrue, NotYetAlive, Station, Process, SetPill,
                 jobVars, clientVars
<1>1. ASSUME NEW c \in Client, NEW j \in Job, RequestStop(c, j) \/ EnforceStop(c, j)
      PROVE  p \notin alive'[i]
  <2>1. /\ pill' = [pill EXCEPT ![j]["test_runner"] = "stopping"]
        /\ alive' = alive
    BY <1>1 DEF RequestStop, EnforceStop, StopBegin
  <2>2. pill'[i][p] = pill[i][p]
    BY <2>1
  <2>3. QED
    BY <2>1, <2>2
<1>2. ASSUME NEW c \in Client, RequestCreate(c) \/ CreateRejected(c) \/ StopJoin(c)
      PROVE  p \notin alive'[i]
  BY <1>2 DEF RequestCreate, CreateRejected, StopJoin
<1>21. ASSUME NEW c \in Client, StopMark(c) PROVE p \notin alive'[i]
  BY <1>21 DEF StopMark
<1>3. ASSUME NEW c \in Client, NEW j \in Job, EnforceGone(c, j) PROVE p \notin alive'[i]
  BY <1>3 DEF EnforceGone
<1>4. ASSUME NEW j \in Job, NEW who, NEW s \in NextToKill(j, who), KillAndEmit(j, s)
      PROVE  p \notin alive'[i]
  <2>1. s \in Station
    BY <1>4, NextToKillIsHeld
  <2>2. alive'[i] \subseteq alive[i] /\ (i = j => s \notin alive'[i])
    BY <1>4 DEF KillAndEmit, Kill
  <2>3. i # j \/ p # s => pill'[i][p] = pill[i][p]
    BY <1>4, <2>1 DEF KillAndEmit
  <2>4. QED
    BY <2>1, <2>2, <2>3
<1>5. ASSUME NEW c \in Client, StopTerminate(c) PROVE p \notin alive'[i]
  BY <1>4, <1>5 DEF StopTerminate
<1>6. ASSUME NEW c \in Client, NEW j \in Job, NEW r \in Requests, CreateInsert(c, j, r)
      PROVE  p \notin alive'[i]
  BY <1>6 DEF CreateInsert
<1>7. ASSUME NEW j \in Job, BackgroundStep(j) PROVE p \notin alive'[i]
  <2> USE DEF BgGo
  <2>1. CASE BgBegin(j)
    BY <2>1 DEF BgBegin
  <2>2. CASE BgMissingBinary(j)
    BY <2>2 DEF BgMissingBinary
  <2>3. CASE BgOutstationBuildFails(j)
    BY <2>3 DEF BgOutstationBuildFails, BgBuildFails
  <2>4. CASE BgControlBuildFails(j)
    BY <2>4 DEF BgControlBuildFails, BgBuildFails
  <2>5. CASE BgOutstationSpawnFails(j)
    BY <2>5 DEF BgOutstationSpawnFails, BgSpawnFails
  <2>51. CASE BgControlSpawnFails(j)
    BY <2>51 DEF BgControlSpawnFails, BgSpawnFails
  <2>6. CASE BgSpawnOutstation(j)
    BY <2>6 DEF BgSpawnOutstation, BgSpawn
  <2>7. CASE BgSpawnControl(j)
    BY <2>7 DEF BgSpawnControl, BgSpawn
  <2>8. CASE BgAbort(j)
    BY <2>8 DEF BgAbort, Kill
  <2>9. CASE BgPortWaitFails(j) \/ BgFail(j) \/ BgStore(j) \/ BgStoreHandles(j)
    BY <2>9 DEF BgPortWaitFails, BgFail, BgStore, BgStoreHandles
  <2>10. CASE BgAnnounce(j)
    BY <2>10 DEF BgAnnounce
  <2>11. QED
    BY <1>7, <2>1, <2>2, <2>3, <2>4, <2>5, <2>51, <2>6, <2>7, <2>8, <2>9, <2>10 DEF BackgroundStep
<1>8. ASSUME NEW j \in Job, OrchestratorStep(j) PROVE p \notin alive'[i]
  <2> USE DEF OrchGo
  <2>1. CASE \/ OrchBegin(j) \/ OrchCancelled(j) \/ OrchScenarioComplete(j)
             \/ OrchScenarioError(j) \/ FinishTake(j) \/ FinishJoin(j)
    BY <2>1 DEF OrchBegin, OrchCancelled, OrchScenarioComplete, OrchScenarioError,
                FinishTake, FinishJoin
  <2>2. CASE FinishTerminate(j)
    BY <1>4, <2>2 DEF FinishTerminate
  <2>3. CASE FinishMark(j)
    BY <2>3 DEF FinishMark
  <2>4. CASE FinishRemove(j)
    BY <2>4 DEF FinishRemove
  <2>5. QED
    BY <1>8, <2>1, <2>2, <2>3, <2>4 DEF OrchestratorStep
<1>9. ASSUME NEW j \in Job, NEW s \in Station, StationExits(j, s) PROVE p \notin alive'[i]
  BY <1>9 DEF StationExits
<1>10. CASE UNCHANGED vars
  BY <1>10 DEF vars
<1>11. QED
  BY <1>1, <1>2, <1>21, <1>3, <1>5, <1>6, <1>7, <1>8, <1>9, <1>10 DEF Next, ClientStep

\* What a late subscriber is told of a process that stopped or failed is true:
\* the process is not running.
THEOREM DeadPillsAreTrue == Spec => []DeadPillIsTrue
<1>1. Init => DeadPillIsTrue
  BY DEF Init, DeadPillIsTrue, Station
<1>2. OutcomeInv /\ DeadPillIsTrue /\ [Next]_vars => DeadPillIsTrue'
  BY DeadPillStep
<1>3. QED
  BY <1>1, <1>2, OutcomeInductive, PTL DEF Spec

-----------------------------------------------------------------------------
(* The profile file of a job that is over is gone.                         *)

CleanedInv ==
  /\ \A c \in Client : cpc[c] \in {"terminate", "mark"} => Created(target[c])
  /\ \A c \in Client : cpc[c] = "mark" => target[c] \notin profileFile
  /\ \A j \in Job : orch[j] \in {"mark", "remove"} => j \notin profileFile
  /\ ProfileFileRemoved
\* Every step keeps it: the file is written before the job is known to anyone,
\* and removed before the job is marked.
LEMMA CleanedStep ==
  ASSUME TypeOK, Startup, CleanedInv, [Next]_vars
  PROVE  CleanedInv'
<1> USE DEF TypeOK, Startup, CleanedInv, ProfileFileRemoved, Created, jobVars, clientVars
<1>1. ASSUME NEW c \in Client, NEW j \in Job, RequestStop(c, j) \/ EnforceStop(c, j)
      PROVE  CleanedInv'
  <2>1. StopBegin(c, j)
    BY <1>1 DEF RequestStop, EnforceStop
  <2>2. /\ UNCHANGED <<profileFile, bg, orch>>
        /\ cpc' = [cpc EXCEPT ![c] = "terminate"]
        /\ target' = [target EXCEPT ![c] = j]
        /\ bg[j] # "none"
    BY <2>1 DEF StopBegin
  <2>3. \A i \in Job : status'[i] \in {status[i], "Stopping"}
    BY <2>1 DEF StopBegin, SetStatus
  <2>4. QED
    BY <2>2, <2>3
<1>2. ASSUME NEW c \in Client, RequestCreate(c) \/ CreateRejected(c) PROVE CleanedInv'
  BY <1>2 DEF RequestCreate, CreateRejected, MayRequest
<1>3. ASSUME NEW c \in Client, NEW j \in Job, EnforceGone(c, j) PROVE CleanedInv'
  BY <1>3 DEF EnforceGone
<1>4. ASSUME NEW c \in Client, StopTerminate(c) \/ StopJoin(c) PROVE CleanedInv'
  BY <1>4 DEF StopTerminate, StopJoin
<1>5. ASSUME NEW c \in Client, StopMark(c) PROVE CleanedInv'
  BY <1>5 DEF StopMark, SetStatus
<1>6. ASSUME NEW c \in Client, NEW j \in Job, NEW r \in Requests, CreateInsert(c, j, r)
      PROVE  CleanedInv'
  <2>1. /\ bg[j] = "none" /\ bg' = [bg EXCEPT ![j] = "check"]
        /\ profileFile' = profileFile \cup {j}
        /\ status' = [status EXCEPT ![j] = "Starting"]
        /\ cpc' = [cpc EXCEPT ![c] = "idle"]
        /\ UNCHANGED <<orch, target>>
    BY <1>6 DEF CreateInsert
  <2>2. \A d \in Client : cpc'[d] \in {"terminate", "mark"} => Created(target[d])' /\ target[d] # j
    BY <2>1
  <2>3. orch[j] \notin {"mark", "remove"}
    BY <2>1
  <2>4. ProfileFileRemoved'
    BY <2>1
  <2>5. QED
    BY <2>1, <2>2, <2>3, <2>4
<1>7. ASSUME NEW j \in Job, BackgroundStep(j) PROVE CleanedInv'
  <2> USE DEF BgGo
  <2>1. CASE BgBegin(j) \/ BgMissingBinary(j) \/ BgPortWaitFails(j)
    BY <2>1 DEF BgBegin, AfterCheck, BgMissingBinary, BgPortWaitFails
  <2>2. CASE BgOutstationBuildFails(j) \/ BgControlBuildFails(j)
    BY <2>2 DEF BgOutstationBuildFails, BgControlBuildFails, BgBuildFails
  <2>3. CASE BgOutstationSpawnFails(j) \/ BgControlSpawnFails(j)
    BY <2>3 DEF BgOutstationSpawnFails, BgControlSpawnFails, BgSpawnFails
  <2>4. CASE BgSpawnOutstation(j) \/ BgSpawnControl(j)
    BY <2>4 DEF BgSpawnOutstation, BgSpawnControl, BgSpawn
  <2>5. CASE BgAbort(j) \/ BgStoreHandles(j)
    BY <2>5 DEF BgAbort, BgStoreHandles
  <2>6. CASE BgFail(j) \/ BgStore(j)
    BY <2>6 DEF BgFail, BgStore, SetStatus
  <2>7. CASE BgAnnounce(j)
    BY <2>7 DEF BgAnnounce
  <2>8. QED
    BY <1>7, <2>1, <2>2, <2>3, <2>4, <2>5, <2>6, <2>7 DEF BackgroundStep
<1>8. ASSUME NEW j \in Job, OrchestratorStep(j) PROVE CleanedInv'
  <2> USE DEF OrchGo
  <2>1. CASE \/ OrchBegin(j) \/ OrchCancelled(j) \/ OrchScenarioComplete(j)
             \/ OrchScenarioError(j)
    BY <2>1 DEF OrchBegin, OrchCancelled, OrchScenarioComplete, OrchScenarioError
  <2>2. CASE FinishTake(j) \/ FinishTerminate(j) \/ FinishJoin(j)
    BY <2>2 DEF FinishTake, FinishTerminate, FinishJoin
  <2>3. CASE FinishMark(j) \/ FinishRemove(j)
    BY <2>3 DEF FinishMark, FinishRemove, SetStatus
  <2>4. QED
    BY <1>8, <2>1, <2>2, <2>3 DEF OrchestratorStep
<1>9. ASSUME NEW j \in Job, NEW s \in Station, StationExits(j, s) PROVE CleanedInv'
  BY <1>9 DEF StationExits
<1>10. CASE UNCHANGED vars
  BY <1>10 DEF vars
<1>11. QED
  BY <1>1, <1>2, <1>3, <1>4, <1>5, <1>6, <1>7, <1>8, <1>9, <1>10 DEF Next, ClientStep

\* No job is over, for a client, while its temporary profile is still there.
THEOREM ProfileFilesAreRemoved == Spec => []ProfileFileRemoved
<1>1. Init => CleanedInv
  BY DEF Init, CleanedInv, ProfileFileRemoved
<1>2. TypeOK /\ Startup /\ CleanedInv /\ [Next]_vars => CleanedInv'
  BY CleanedStep
<1>3. OutcomeInv => TypeOK /\ Startup
  BY DEF OutcomeInv, KeepInv
<1>4. CleanedInv => ProfileFileRemoved
  BY DEF CleanedInv
<1>5. QED
  BY <1>1, <1>2, <1>3, <1>4, OutcomeInductive, PTL DEF Spec

-----------------------------------------------------------------------------
(* With one client that waits until no job is coming up, the service keeps *)
(* its promise.  What is needed is that client and background task never   *)
(* overlap, that create_job has looked at every active job, and that a job *)
(* is not active any more when its orchestrator removes it.                *)

OneClient == PatientClients /\ \A c, d \in Client : c = d

InProgress(j) == bg[j] \notin {"none", "done"}
Starting(j) ==
  bg[j] \in {"check", "outstation", "control_station", "abort", "fail", "store"}

TakeTurns ==
  /\ (\E j \in Job : InProgress(j)) => \A c \in Client : cpc[c] = "idle"
  /\ \A j \in Job : Starting(j) => status[j] = "Starting"

SeesActive ==
  /\ \A c \in Client : cpc[c] = "idle" => c \notin creating
  /\ \A c \in Client : cpc[c] = "enforce" => c \in creating
  /\ \A c \in creating : \A j \in Job : Active(j) => j \in pending[c]

TurnsInv ==
  /\ TakeTurns
  /\ SeesActive
  /\ \A j \in Job : orch[j] = "remove" => ~Active(j)

\* What concerns the clients, when neither they nor a status change.
LEMMA ClientsUntouched ==
  ASSUME TurnsInv, \A j \in Job : InProgress(j)' => \E i \in Job : InProgress(i),
         UNCHANGED <<status, cpc, pending, creating>>,
         \A j \in Job : Starting(j)' => Starting(j),
         \A j \in Job : orch'[j] = "remove" => orch[j] = "remove"
  PROVE  TurnsInv'
<1>1. TakeTurns'
  BY DEF TurnsInv, TakeTurns
<1>2. SeesActive'
  BY DEF TurnsInv, SeesActive, Active
<1>3. QED
  BY <1>1, <1>2 DEF TurnsInv, Active

\* A client that stops a job has seen to it that no other is coming up.
LEMMA ClientTurns ==
  ASSUME OneClient, TypeOK, Startup, TurnsInv, NEW c \in Client,
         \/ RequestCreate(c) \/ \E j \in Job : RequestStop(c, j)
         \/ ClientStep(c)
  PROVE  TurnsInv'
<1> USE DEF OneClient
<1>0. \A d \in Client : d = c
  OBVIOUS
<1>1. ASSUME cpc[c] # "idle" \/ MayRequest(c), NEW j \in Job PROVE ~InProgress(j)
  BY <1>1 DEF TurnsInv, TakeTurns, MayRequest, InProgress
<1>2. CASE RequestCreate(c)
  <2>1. /\ MayRequest(c) /\ cpc'[c] = "enforce" /\ creating' = creating \cup {c}
        /\ pending'[c] = {j \in Job : Active(j)} /\ UNCHANGED <<status, bg, orch>>
    BY <1>2 DEF RequestCreate, TypeOK, jobVars
  <2>2. TakeTurns'
    BY <1>1, <2>1 DEF TurnsInv, TakeTurns, InProgress, Starting
  <2>3. SeesActive'
    <3>1. \A d \in creating' : d = c
      BY <2>1, <1>0 DEF TypeOK
    <3>2. QED
      BY <1>0, <2>1, <3>1 DEF SeesActive, Active
  <2>4. QED
    BY <2>1, <2>2, <2>3 DEF TurnsInv, Active
<1>3. ASSUME NEW j \in Job, StopBegin(c, j), UNCHANGED creating,
             \/ MayRequest(c) /\ UNCHANGED pending
             \/ cpc[c] = "enforce" /\ pending' = [pending EXCEPT ![c] = @ \ {j}]
      PROVE  TurnsInv'
  <2>1. /\ cpc'[c] = "terminate" /\ UNCHANGED <<bg, orch>> /\ status'[j] = "Stopping"
        /\ \A i \in Job : i # j => status'[i] = status[i]
    BY <1>3 DEF StopBegin, SetStatus, TypeOK
  <2>2. \A i \in Job : ~InProgress(i)
    BY <1>1, <1>3
  <2>3. TakeTurns'
    BY <2>1, <2>2 DEF TakeTurns, InProgress, Starting
  <2>4. \A i \in Job : Active(i)' => Active(i) /\ i # j
    BY <2>1 DEF Active
  <2>5. SeesActive'
    <3>1. \A d \in creating' : d = c
      BY <1>0, <1>3 DEF TypeOK
    <3>2. CASE MayRequest(c)
      BY <1>0, <1>3, <2>1, <3>1, <3>2 DEF TurnsInv, SeesActive, MayRequest
    <3>3. CASE cpc[c] = "enforce" /\ pending' = [pending EXCEPT ![c] = @ \ {j}]
      <4>1. \A i \in Job : Active(i) => i \in pending[c]
        BY <3>3 DEF TurnsInv, SeesActive
      <4>2. pending'[c] = pending[c] \ {j}
        BY <3>3 DEF TypeOK
      <4>3. QED
        BY <1>0, <2>1, <2>4, <3>1, <4>1, <4>2 DEF SeesActive
    <3>4. QED
      BY <1>3, <3>2, <3>3
  <2>6. QED
    BY <2>1, <2>3, <2>4, <2>5 DEF TurnsInv
<1>4. ASSUME NEW j \in Job, RequestStop(c, j) \/ EnforceStop(c, j) PROVE TurnsInv'
  BY <1>3, <1>4 DEF RequestStop, EnforceStop
<1>5. ASSUME NEW j \in Job, EnforceGone(c, j) PROVE TurnsInv'
  <2>1. /\ cpc[c] = "enforce" /\ status[j] = "absent" /\ pending'[c] = pending[c] \ {j}
        /\ UNCHANGED <<status, bg, orch, cpc, creating>>
    BY <1>5 DEF EnforceGone, TypeOK, jobVars
  <2>2. TakeTurns'
    BY <2>1 DEF TurnsInv, TakeTurns, InProgress, Starting
  <2>3. SeesActive'
    <3>1. \A d \in creating' : d = c
      BY <1>0, <2>1 DEF TypeOK
    <3>2. QED
      BY <1>0, <2>1, <3>1 DEF TurnsInv, SeesActive, Active
  <2>4. QED
    BY <2>1, <2>2, <2>3 DEF TurnsInv, Active
<1>6. CASE StopTerminate(c) \/ StopJoin(c)
  <2>1. /\ cpc[c] = "terminate" /\ cpc'[c] \in {"terminate", "mark"}
        /\ UNCHANGED <<status, bg, orch, pending, creating>>
    BY <1>6 DEF StopTerminate, StopJoin, TypeOK, clientVars
  <2>2. \A i \in Job : ~InProgress(i)
    BY <1>1, <2>1
  <2>3. TakeTurns'
    BY <2>1, <2>2 DEF TurnsInv, TakeTurns, InProgress, Starting
  <2>4. SeesActive'
    BY <1>0, <2>1 DEF TurnsInv, SeesActive, Active
  <2>5. QED
    BY <2>1, <2>3, <2>4 DEF TurnsInv, Active
<1>7. CASE StopMark(c)
  <2>1. /\ cpc[c] = "mark" /\ cpc'[c] = IF c \in creating THEN "enforce" ELSE "idle"
        /\ UNCHANGED <<bg, orch, pending, creating>>
        /\ \A i \in Job : status'[i] \in {status[i], "Stopped", "absent"}
    BY <1>7 DEF StopMark, SetStatus, TypeOK
  <2>2. \A i \in Job : ~InProgress(i)
    BY <1>1, <2>1
  <2>3. TakeTurns'
    BY <2>1, <2>2 DEF TakeTurns, InProgress, Starting
  <2>4. \A i \in Job : Active(i)' => Active(i)
    BY <2>1 DEF Active
  <2>5. SeesActive'
    BY <1>0, <2>1, <2>4 DEF TurnsInv, SeesActive
  <2>6. QED
    BY <2>1, <2>3, <2>4, <2>5 DEF TurnsInv
<1>8. CASE CreateRejected(c) \/ \E j \in Job, r \in Requests : CreateInsert(c, j, r)
  <2>1. cpc[c] = "enforce" /\ cpc'[c] = "idle" /\ creating' = creating \ {c} /\ orch' = orch
    BY <1>8 DEF CreateRejected, CreateInsert, TypeOK
  <2>2. creating' = {}
    BY <1>0, <2>1 DEF TypeOK
  <2>3. SeesActive'
    BY <1>0, <2>1, <2>2 DEF SeesActive
  <2>4. ASSUME NEW i \in Job, Starting(i)' PROVE status'[i] = "Starting"
    <3>1. CASE CreateRejected(c)
      BY <2>4, <3>1 DEF CreateRejected, jobVars, TurnsInv, TakeTurns, Starting
    <3>2. ASSUME NEW j \in Job, NEW r \in Requests, CreateInsert(c, j, r)
          PROVE  status'[i] = "Starting"
      BY <2>4, <3>2 DEF CreateInsert, TurnsInv, TakeTurns, Starting, TypeOK
    <3>3. QED
      BY <1>8, <3>1, <3>2
  <2>5. TakeTurns'
    BY <1>0, <2>1, <2>4 DEF TakeTurns
  <2>6. ASSUME NEW i \in Job, orch'[i] = "remove" PROVE ~Active(i)'
    <3>1. orch[i] = "remove" /\ ~Active(i) /\ Created(i)
      BY <2>1, <2>6 DEF Startup, Created, TurnsInv
    <3>2. status'[i] = status[i]
      BY <1>8, <3>1 DEF CreateRejected, CreateInsert, TypeOK, jobVars
    <3>3. QED
      BY <3>1, <3>2 DEF Active
  <2>7. QED
    BY <2>3, <2>5, <2>6 DEF TurnsInv
<1>9. QED
  BY <1>2, <1>4, <1>5, <1>6, <1>7, <1>8 DEF ClientStep

\* While a background task runs no client does; it ends with a job Running or
\* Failed.
LEMMA BackgroundTurns ==
  ASSUME OneClient, TypeOK, Startup, TurnsInv, NEW j \in Job, BackgroundStep(j)
  PROVE  TurnsInv'
<1> USE DEF BgGo, jobVars, clientVars
<1>1. InProgress(j) /\ \A c \in Client : cpc[c] = "idle" /\ c \notin creating
  <2>1. InProgress(j)
    BY DEF InProgress, BackgroundStep, BgBegin, BgMissingBinary, BgOutstationBuildFails,
           BgOutstationSpawnFails, BgSpawnOutstation, BgControlBuildFails, BgPortWaitFails,
           BgControlSpawnFails, BgSpawnControl, BgAbort, BgFail, BgStore, BgAnnounce,
           BgStoreHandles, BgBuildFails, BgSpawnFails, BgSpawn
  <2>2. QED
    BY <2>1 DEF TurnsInv, TakeTurns, SeesActive
<1>2. UNCHANGED <<cpc, pending, creating>>
  BY DEF BackgroundStep, BgBegin, BgMissingBinary, BgOutstationBuildFails,
         BgOutstationSpawnFails, BgSpawnOutstation, BgControlBuildFails, BgPortWaitFails,
         BgControlSpawnFails, BgSpawnControl, BgAbort, BgFail, BgStore, BgAnnounce,
         BgStoreHandles, BgBuildFails, BgSpawnFails, BgSpawn
<1>3. SeesActive'
  BY <1>1, <1>2 DEF SeesActive, TypeOK
<1>4. ASSUME NEW i \in Job, Starting(i)' PROVE status'[i] = "Starting"
  <2>1. (status[i] = status'[i] /\ Starting(i)) \/ i = j
    BY <1>4, TypeOK
       DEF TypeOK, Starting, BackgroundStep, BgBegin, BgMissingBinary, BgOutstationBuildFails,
           BgOutstationSpawnFails, BgSpawnOutstation, BgControlBuildFails, BgPortWaitFails,
           BgControlSpawnFails, BgSpawnControl, BgAbort, BgFail, BgStore, BgAnnounce,
           BgStoreHandles, BgBuildFails, BgSpawnFails, BgSpawn, SetStatus
  <2>2. CASE i = j
    <3>1. CASE BgFail(j) \/ BgStore(j) \/ BgAnnounce(j) \/ BgStoreHandles(j)
      BY <1>4, <2>2, <3>1 DEF TypeOK, Starting, BgFail, BgStore, BgAnnounce, BgStoreHandles
    <3>2. CASE ~(BgFail(j) \/ BgStore(j) \/ BgAnnounce(j) \/ BgStoreHandles(j))
      <4>1. status' = status /\ Starting(j)
        BY <3>2
           DEF Starting, BackgroundStep, BgBegin, BgMissingBinary, BgOutstationBuildFails,
               BgOutstationSpawnFails, BgSpawnOutstation, BgControlBuildFails, BgPortWaitFails,
               BgControlSpawnFails, BgSpawnControl, BgAbort, BgBuildFails, BgSpawnFails, BgSpawn
      <4>2. QED
        BY <2>2, <4>1 DEF TurnsInv, TakeTurns
    <3>3. QED
      BY <3>1, <3>2
  <2>3. QED
    BY <2>1, <2>2 DEF TurnsInv, TakeTurns
<1>5. TakeTurns'
  BY <1>1, <1>2, <1>4 DEF TakeTurns
<1>6. ASSUME NEW i \in Job, orch'[i] = "remove" PROVE ~Active(i)'
  <2>1. orch[i] = "remove" /\ bg[i] \in {"handles", "done"} /\ ~Active(i)
    <3>1. orch[i] = "remove"
      BY <1>6
         DEF TypeOK, BackgroundStep, BgBegin, BgMissingBinary, BgOutstationBuildFails,
             BgOutstationSpawnFails, BgSpawnOutstation, BgControlBuildFails, BgPortWaitFails,
             BgControlSpawnFails, BgSpawnControl, BgAbort, BgFail, BgStore, BgAnnounce,
             BgStoreHandles, BgBuildFails, BgSpawnFails, BgSpawn
    <3>2. QED
      BY <3>1 DEF Startup, TurnsInv
  <2>2. status'[i] = status[i]
    BY <2>1
       DEF TypeOK, BackgroundStep, BgBegin, BgMissingBinary, BgOutstationBuildFails,
           BgOutstationSpawnFails, BgSpawnOutstation, BgControlBuildFails, BgPortWaitFails,
           BgControlSpawnFails, BgSpawnControl, BgAbort, BgFail, BgStore, BgAnnounce,
           BgStoreHandles, BgBuildFails, BgSpawnFails, BgSpawn, SetStatus
  <2>3. QED
    BY <2>1, <2>2 DEF Active
<1>7. QED
  BY <1>3, <1>5, <1>6 DEF TurnsInv

\* An orchestrator, and its job when it is removed, are of a job that is up.
LEMMA OrchestratorTurns ==
  ASSUME TypeOK, Startup, TurnsInv, NEW j \in Job, OrchestratorStep(j)
  PROVE  TurnsInv'
<1> USE DEF OrchGo, jobVars, clientVars
<1>1. orch[j] # "none" /\ ~Starting(j) /\ UNCHANGED <<bg, cpc, pending, creating>>
  <2>1. orch[j] # "none" /\ UNCHANGED <<bg, cpc, pending, creating>>
    BY DEF OrchestratorStep, OrchBegin, OrchCancelled, OrchScenarioComplete, OrchScenarioError,
           FinishTake, FinishTerminate, FinishJoin, FinishMark, FinishRemove
  <2>2. QED
    BY <2>1 DEF Startup, Starting
<1>2. /\ \A i \in Job : i # j => status'[i] = status[i] /\ orch'[i] = orch[i]
      /\ Active(j)' => Active(j)
      /\ orch'[j] = "remove" => ~Active(j)'
  <2>1. CASE FinishMark(j) \/ FinishRemove(j)
    BY <2>1 DEF TypeOK, FinishMark, FinishRemove, SetStatus, Active
  <2>2. CASE ~(FinishMark(j) \/ FinishRemove(j))
    BY <2>2 DEF TypeOK, OrchestratorStep, OrchBegin, OrchCancelled, OrchScenarioComplete,
                OrchScenarioError, FinishTake, FinishTerminate, FinishJoin, Active
  <2>3. QED
    BY <2>1, <2>2
<1>3. TakeTurns'
  BY <1>1, <1>2 DEF TurnsInv, TakeTurns, InProgress, Starting
<1>4. SeesActive'
  BY <1>1, <1>2 DEF TurnsInv, SeesActive, Active
<1>5. QED
  BY <1>2, <1>3, <1>4 DEF TurnsInv, Active

\* All steps.
LEMMA TurnsStep ==
  ASSUME OneClient, TypeOK, Startup, TurnsInv, [Next]_vars
  PROVE  TurnsInv'
<1>1. ASSUME NEW j \in Job, NEW s \in Station, StationExits(j, s) PROVE TurnsInv'
  BY <1>1, ClientsUntouched DEF StationExits, clientVars, InProgress, Starting
<1>2. CASE UNCHANGED vars
  BY <1>2, ClientsUntouched DEF vars, jobVars, clientVars, InProgress, Starting
<1>3. QED
  BY <1>1, <1>2, ClientTurns, BackgroundTurns, OrchestratorTurns DEF Next

\* The invariant that the promise is kept by.
LEMMA TurnsInductive == ASSUME OneClient PROVE Spec => [](KeepInv /\ TurnsInv)
<1>1. Init => KeepInv /\ TurnsInv
  BY DEF Init, KeepInv, TypeOK, Startup, NoOrphanProcess, Created, Owner, Roles, NoRequest,
         TurnsInv, TakeTurns, SeesActive, InProgress, Starting, Active
<1>2. KeepInv /\ TurnsInv /\ [Next]_vars => (KeepInv /\ TurnsInv)'
  BY TypeStep, StartupStep, KeptStep, TurnsStep DEF KeepInv
<1>3. QED
  BY <1>1, <1>2, PTL DEF Spec

\* The phase of a job, as the promise has it.
Phase == [j \in Job |-> IF ~Created(j) THEN "new" ELSE IF Active(j) THEN "up" ELSE "down"]

\* A step that starts no process and makes at most one job go down is one of
\* the promise, or nothing the promise speaks of.
LEMMA DownOrLost ==
  ASSUME NEW j \in Job, UNCHANGED bg, alive \in [Job -> SUBSET Station],
         \A i \in Job : i # j => status'[i] = status[i],
         \/ alive' = alive /\ (Active(j)' => Active(j))
         \/ \E S \in SUBSET alive[j] : alive' = [alive EXCEPT ![j] = S] /\ (Active(j)' <=> Active(j))
  PROVE  [Promise!Next]_<<Phase, alive>>
<1>1. \A i \in Job : Created(i)' = Created(i) /\ (i # j => Active(i)' = Active(i))
  BY DEF Created, Active
<1>2. CASE Active(j)' <=> Active(j)
  <2>1. Phase' = Phase
    BY <1>1, <1>2 DEF Phase
  <2>2. CASE alive' = alive
    BY <2>1, <2>2
  <2>3. CASE \E S \in SUBSET alive[j] : alive' = [alive EXCEPT ![j] = S]
    BY <2>1, <2>3 DEF Promise!Next, Promise!LoseProcesses, Phase
  <2>4. QED
    BY <2>2, <2>3
<1>3. CASE Active(j) /\ ~Active(j)' /\ alive' = alive
  <2>1. CASE Created(j)
    <3>1. Phase[j] = "up" /\ Phase' = [Phase EXCEPT ![j] = "down"]
      BY <1>1, <1>3, <2>1 DEF Phase
    <3>2. QED
      BY <1>3, <3>1 DEF Promise!Next, Promise!GoDown, Phase
  <2>2. CASE ~Created(j)
    <3>1. Phase' = Phase
      BY <1>1, <2>2 DEF Phase
    <3>2. QED
      BY <1>3, <3>1
  <2>3. QED
    BY <2>1, <2>2
<1>4. QED
  BY <1>2, <1>3

\* Each step of the service is one of the promise or none.
LEMMA StepsOfPromise ==
  ASSUME OneClient, KeepInv, TurnsInv, [Next]_vars
  PROVE  [Promise!Next]_<<Phase, alive>>
<1> USE DEF jobVars, clientVars
<1>0. TypeOK /\ Startup /\ alive \in [Job -> SUBSET Station]
  BY DEF KeepInv, TypeOK
<1>1. CASE UNCHANGED <<status, bg, alive>>
  BY <1>1 DEF Phase, Created, Active
<1>2. ASSUME NEW j \in Job, NEW who, NEW s \in NextToKill(j, who), KillAndEmit(j, s),
             UNCHANGED <<status, bg>>
      PROVE  [Promise!Next]_<<Phase, alive>>
  <2>1. alive' = [alive EXCEPT ![j] = alive[j] \ {s}] /\ alive[j] \ {s} \in SUBSET alive[j]
    BY <1>2 DEF KillAndEmit, Kill
  <2>2. QED
    BY <1>0, <1>2, <2>1, DownOrLost DEF Active
<1>3. ASSUME NEW c \in Client, NEW j \in Job, StopBegin(c, j)
      PROVE  [Promise!Next]_<<Phase, alive>>
  <2>1. UNCHANGED <<bg, alive>> /\ ~Active(j)' /\ \A i \in Job : i # j => status'[i] = status[i]
    BY <1>0, <1>3 DEF StopBegin, SetStatus, TypeOK, Active
  <2>2. QED
    BY <1>0, <2>1, DownOrLost
<1>4. ASSUME NEW c \in Client, StopMark(c)
      PROVE  [Promise!Next]_<<Phase, alive>>
  <2>1. PICK j \in Job : j = target[c]
    BY <1>0, <1>4 DEF StopMark, TypeOK
  <2>2. /\ UNCHANGED <<bg, alive>>
        /\ status' = [status EXCEPT ![j] = IF @ = "absent" THEN "absent" ELSE "Stopped"]
    BY <1>4, <2>1 DEF StopMark, SetStatus
  <2>3. ~Active(j)' /\ \A i \in Job : i # j => status'[i] = status[i]
    BY <1>0, <2>2 DEF TypeOK, Active
  <2>4. QED
    BY <1>0, <2>2, <2>3, DownOrLost
<1>5. ASSUME NEW c \in Client, NEW j \in Job, NEW r \in Requests, CreateInsert(c, j, r)
      PROVE  [Promise!Next]_<<Phase, alive>>
  <2>1. \A i \in Job : ~Active(i)
    BY <1>0, <1>5 DEF CreateInsert, TurnsInv, SeesActive
  <2>2. /\ ~Created(j) /\ status' = [status EXCEPT ![j] = "Starting"]
        /\ bg' = [bg EXCEPT ![j] = "check"] /\ alive' = alive
    BY <1>5 DEF CreateInsert
  <2>3. Phase' = [Phase EXCEPT ![j] = "up"]
    BY <1>0, <2>2 DEF Phase, Created, Active, TypeOK
  <2>4. Phase[j] = "new" /\ \A i \in Job : Phase[i] # "up"
    BY <2>1, <2>2 DEF Phase
  <2>5. QED
    BY <2>2, <2>3, <2>4 DEF Promise!Next, Promise!ComeUp, Phase
<1>6. ASSUME NEW c \in Client, \/ RequestCreate(c) \/ \E j \in Job : RequestStop(c, j)
                               \/ ClientStep(c)
      PROVE  [Promise!Next]_<<Phase, alive>>
  <2>1. CASE \/ RequestCreate(c) \/ \E j \in Job : EnforceGone(c, j)
             \/ StopJoin(c) \/ CreateRejected(c)
    BY <1>1, <2>1 DEF RequestCreate, EnforceGone, StopJoin, CreateRejected
  <2>2. CASE StopTerminate(c)
    <3>1. target[c] \in Job
      BY <1>0, <2>2 DEF StopTerminate, TypeOK
    <3>2. QED
      BY <1>2, <2>2, <3>1 DEF StopTerminate
  <2>3. QED
    BY <1>3, <1>4, <1>5, <1>6, <2>1, <2>2 DEF ClientStep, RequestStop, EnforceStop
<1>7. ASSUME NEW j \in Job, BackgroundStep(j) PROVE [Promise!Next]_<<Phase, alive>>
  <2> USE DEF BgGo
  <2>1. ASSUME bg[j] # "none", bg'[j] # "none", \A i \in Job : i # j => bg'[i] = bg[i],
               alive' = alive, \A i \in Job : Active(i)' <=> Active(i)
        PROVE  [Promise!Next]_<<Phase, alive>>
    BY <2>1 DEF Phase, Created
  <2>2. CASE \/ BgBegin(j) \/ BgMissingBinary(j) \/ BgPortWaitFails(j) \/ BgAnnounce(j)
             \/ BgStoreHandles(j)
    BY <1>0, <2>1, <2>2
       DEF BgBegin, BgMissingBinary, BgPortWaitFails, BgAnnounce, BgStoreHandles, AfterCheck,
           TypeOK, Active
  <2>3. ASSUME NEW s \in {"outstation", "control_station"}, NEW to \in {"fail", "abort"},
               BgBuildFails(j, s, to) \/ BgSpawnFails(j, s, to)
        PROVE  [Promise!Next]_<<Phase, alive>>
    BY <1>0, <2>1, <2>3 DEF BgBuildFails, BgSpawnFails, TypeOK, Active
  <2>4. ASSUME NEW s \in {"outstation", "control_station"},
               NEW to \in {"control_station", "store"}, BgSpawn(j, s, to)
        PROVE  [Promise!Next]_<<Phase, alive>>
    <3>1. /\ bg[j] = s /\ bg' = [bg EXCEPT ![j] = to] /\ status' = status
          /\ alive' = [alive EXCEPT ![j] = @ \cup {s}]
      BY <2>4 DEF BgSpawn
    <3>2. status[j] = "Starting"
      BY <3>1 DEF TurnsInv, TakeTurns, Starting
    <3>3. Phase[j] = "up" /\ Phase' = Phase
      BY <1>0, <3>1, <3>2 DEF Phase, Created, Active, TypeOK
    <3>4. QED
      BY <3>1, <3>3 DEF Promise!Next, Promise!StartProcess, Phase
  <2>5. CASE BgAbort(j)
    <3>1. /\ bg[j] = "abort" /\ bg' = [bg EXCEPT ![j] = "fail"] /\ status' = status
          /\ alive' = [alive EXCEPT ![j] = alive[j] \ Holds(j, "background")]
      BY <2>5 DEF BgAbort, Kill
    <3>2. Phase' = Phase
      BY <1>0, <3>1 DEF Phase, Created, Active, TypeOK
    <3>3. alive[j] \ Holds(j, "background") \in SUBSET alive[j]
      OBVIOUS
    <3>4. QED
      BY <3>1, <3>2, <3>3 DEF Promise!Next, Promise!LoseProcesses, Phase
  <2>6. CASE BgFail(j)
    <3>1. /\ bg[j] = "fail" /\ bg' = [bg EXCEPT ![j] = "done"] /\ alive' = alive
      BY <2>6 DEF BgFail
    <3>2. status[j] = "Starting"
      BY <3>1 DEF TurnsInv, TakeTurns, Starting
    <3>3. status' = [status EXCEPT ![j] = "Failed"]
      BY <2>6, <3>2 DEF BgFail, SetStatus
    <3>4. Phase[j] = "up" /\ Phase' = [Phase EXCEPT ![j] = "down"]
      BY <1>0, <3>1, <3>2, <3>3 DEF Phase, Created, Active, TypeOK
    <3>5. QED
      BY <3>1, <3>4 DEF Promise!Next, Promise!GoDown, Phase
  <2>7. CASE BgStore(j)
    <3>1. /\ bg[j] = "store" /\ bg' = [bg EXCEPT ![j] = "announce"] /\ alive' = alive
      BY <2>7 DEF BgStore
    <3>2. status[j] = "Starting"
      BY <3>1 DEF TurnsInv, TakeTurns, Starting
    <3>3. status' = [status EXCEPT ![j] = "Running"]
      BY <2>7, <3>2 DEF BgStore, SetStatus
    <3>4. QED
      BY <1>0, <2>1, <3>1, <3>2, <3>3 DEF Active, TypeOK
  <2>8. QED
    BY <1>7, <2>2, <2>3, <2>4, <2>5, <2>6, <2>7
       DEF BackgroundStep, BgOutstationBuildFails, BgControlBuildFails, BgOutstationSpawnFails,
           BgControlSpawnFails, BgSpawnOutstation, BgSpawnControl
<1>8. ASSUME NEW j \in Job, OrchestratorStep(j) PROVE [Promise!Next]_<<Phase, alive>>
  <2> USE DEF OrchGo
  <2>1. CASE \/ OrchBegin(j) \/ OrchCancelled(j) \/ OrchScenarioComplete(j)
             \/ OrchScenarioError(j) \/ FinishTake(j) \/ FinishJoin(j)
    BY <1>1, <2>1 DEF OrchBegin, OrchCancelled, OrchScenarioComplete, OrchScenarioError,
                      FinishTake, FinishJoin
  <2>2. CASE FinishTerminate(j)
    BY <1>2, <2>2 DEF FinishTerminate
  <2>3. CASE FinishMark(j)
    <3>1. UNCHANGED <<bg, alive>> /\ ~Active(j)' /\ \A i \in Job : i # j => status'[i] = status[i]
      BY <1>0, <2>3 DEF FinishMark, SetStatus, TypeOK, Active
    <3>2. QED
      BY <1>0, <3>1, DownOrLost
  <2>4. CASE FinishRemove(j)
    <3>1. /\ UNCHANGED bg /\ ~Active(j)' /\ ~Active(j)
          /\ \A i \in Job : i # j => status'[i] = status[i]
          /\ alive' = [alive EXCEPT ![j] = alive[j] \ Holds(j, "map")]
      BY <1>0, <2>4 DEF FinishRemove, TypeOK, Active, TurnsInv
    <3>2. alive[j] \ Holds(j, "map") \in SUBSET alive[j]
      OBVIOUS
    <3>3. QED
      BY <1>0, <3>1, <3>2, DownOrLost
  <2>5. QED
    BY <1>8, <2>1, <2>2, <2>3, <2>4 DEF OrchestratorStep
<1>9. ASSUME NEW j \in Job, NEW s \in Station, StationExits(j, s)
      PROVE  [Promise!Next]_<<Phase, alive>>
  <2>1. /\ UNCHANGED <<status, bg>> /\ alive' = [alive EXCEPT ![j] = alive[j] \ {s}]
        /\ alive[j] \ {s} \in SUBSET alive[j]
    BY <1>9 DEF StationExits
  <2>2. QED
    BY <1>0, <2>1, DownOrLost DEF Active
<1>10. CASE UNCHANGED vars
  BY <1>1, <1>10 DEF vars
<1>11. QED
  BY <1>6, <1>7, <1>8, <1>9, <1>10 DEF Next

\* The service keeps its promise to a single client that makes no request while
\* a job is coming up: a job comes up once, when no other is up; only then it
\* starts processes; it goes down once and its processes are never replaced.
\* (With impatient or several clients it does not.)
THEOREM PromiseIsKept == ASSUME OneClient PROVE Spec => KeepsPromise
<1>1. Init => Promise!Init
  BY DEF Init, Promise!Init, Created
<1>2. KeepInv /\ TurnsInv /\ [Next]_vars => [Promise!Next]_<<Phase, alive>>
  BY StepsOfPromise
<1>3. Promise!Spec <=> Promise!Init /\ [][Promise!Next]_<<Phase, alive>>
  BY DEF Promise!Spec, Phase
<1>4. QED
  BY <1>1, <1>2, <1>3, TurnsInductive, PTL DEF Spec, KeepsPromise

=============================================================================
