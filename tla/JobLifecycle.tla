---------------------------- MODULE JobLifecycle ----------------------------
(***************************************************************************)
(* The job service of the web server                                       *)
(* (web_server/src/services/job_service.rs).                               *)
(*                                                                         *)
(* A job is one run of the test tool: an outstation and/or a control       *)
(* station started as child processes, and an orchestrator that feeds the  *)
(* chosen scenarios to the control station.  Three kinds of task act on a  *)
(* job at the same time and meet only at the mutex around the jobs map:    *)
(*                                                                         *)
(*   - HTTP handlers ("clients"), which run create_job and stop_job;       *)
(*   - the job's background task, run_job_background, which brings the     *)
(*     stations up and records them in the map;                            *)
(*   - the job's orchestrator, run_all_scenarios_new_thread, which ends in *)
(*     finish_job.                                                         *)
(*                                                                         *)
(* One action is one critical section of a task, with the straight-line    *)
(* code around it up to the next await.  Rust moves handles instead of     *)
(* sharing them, so each Child and each JoinHandle has one owner, and      *)
(* dropping a Child kills the process (kill_on_drop in spawn_binary).      *)
(***************************************************************************)
EXTENDS Naturals, FiniteSets

CONSTANTS
  Job,            \* job ids (uuids) that may be handed out; bounds the model
  NoJob,          \* the target of a handler that is not stopping a job
  Client,         \* HTTP handlers that may run at the same time
  Requests,       \* the requests a client may make: which stations the tool
                  \* runs itself, and how many scenarios; bounds the model
  PatientClients, \* TRUE: a request is made only when no job is coming up
  StationsCrash   \* TRUE: a station process may exit by itself

Roles == {"nobody", "background", "map", "orchestrator"}

ASSUME JobLifecycleAssumption ==
  /\ Requests \subseteq [os : BOOLEAN, cs : BOOLEAN, scenarios : Nat]
  /\ PatientClients \in BOOLEAN
  /\ StationsCrash \in BOOLEAN
  /\ Client \cap Roles = {}
  /\ NoJob \notin Job

Station == {"outstation", "control_station"}
Task == {"streams", "orchestrator_task"}
Resource == Station \cup Task
Process == Station \cup {"test_runner"}
Owner == Roles \cup Client
NoRequest == [os |-> FALSE, cs |-> FALSE, scenarios |-> 0]

VARIABLES
  status,      \* JobState.status, or "absent" when the id is not in the map
  token,       \* the jobs whose cancel_token is cancelled
  owner,       \* who holds each Child and each JoinHandle of a job
  alive,       \* the station processes of a job that are running
  profileFile, \* the jobs whose temporary profile file exists
  pill,        \* JobState.current_statuses
  request,     \* the request run_job_background was given
  bg,          \* where run_job_background of a job is; "none" before create_job
  orch,        \* where the orchestrator of a job is
  left,        \* scenarios the orchestrator has still to take up
  cpc,         \* where each HTTP handler is
  target,      \* the job the handler's stop_job works on
  pending,     \* create_job: active jobs it saw and has not stopped yet
  creating     \* handlers whose stop_job was called by create_job

jobVars == <<status, token, owner, alive, profileFile, pill>>
clientVars == <<cpc, target, pending, creating>>
vars == <<jobVars, request, bg, orch, left, clientVars>>

-----------------------------------------------------------------------------
(* Mutants: the slips the properties are there to catch.  None is part of  *)
(* Next; each replaces the definition it is named after.                   *)

\* Status written without looking whether the job is still in the map.
SetStatus_Unchecked(j, s) == status' = [status EXCEPT ![j] = s]

\* Clean-ups that know of the control station only.
Holds_ControlStationOnly(j, who) == {s \in {"control_station"} : owner[j][s] = who}

\* A kill that is not delivered.
Kill_NotDelivered(j, S) ==
  /\ UNCHANGED alive
  /\ owner' = [owner EXCEPT ![j] =
       [r \in Resource |-> IF r \in S THEN "nobody" ELSE owner[j][r]]]

-----------------------------------------------------------------------------
(* What the handlers share.                                                *)

Created(j) == bg[j] # "none"
Active(j) == status[j] \in {"Starting", "Running"}

\* `if let Some(state) = jobs.get_mut(id) { state.status = s }`
SetStatus(j, s) ==
  status' = [status EXCEPT ![j] = IF @ = "absent" THEN "absent" ELSE s]

\* emit_status_update: the latest status of a process, kept for replay
SetPill(j, p, s) == pill' = [pill EXCEPT ![j][p] = s]

\* The resources R of j that `from` holds become those of `to`.
Move(j, R, from, to) ==
  owner' = [owner EXCEPT ![j] =
    [r \in Resource |-> IF r \in R /\ owner[j][r] = from THEN to ELSE owner[j][r]]]

Holds(j, who) == {s \in Station : owner[j][s] = who}

\* terminate_child: the process is gone and its handle is used up.
Kill(j, S) ==
  /\ alive' = [alive EXCEPT ![j] = @ \ S]
  /\ owner' = [owner EXCEPT ![j] =
       [r \in Resource |-> IF r \in S THEN "nobody" ELSE owner[j][r]]]

\* terminate_and_emit: a process killed by the signal has no exit code and
\* shows as stopped; one that had exited by itself may show as error.
KillAndEmit(j, s) ==
  /\ Kill(j, {s})
  /\ \E shown \in IF s \in alive[j] THEN {"stopped"} ELSE {"stopped", "error"} :
       SetPill(j, s, shown)

\* Both clean-ups terminate the control station before the outstation.
NextToKill(j, who) ==
  IF "control_station" \in Holds(j, who) THEN {"control_station"} ELSE Holds(j, who)

-----------------------------------------------------------------------------
(* Mutants of the handlers.                                                *)

\* stop_job takes the task handles and leaves the children in the map.
StopBegin_LeavesChildren(c, j) ==
  /\ status[j] # "absent"
  /\ token' = token \cup {j}
  /\ SetStatus(j, "Stopping")
  /\ Move(j, Task, "map", c)
  /\ SetPill(j, "test_runner", "stopping")
  /\ cpc' = [cpc EXCEPT ![c] = "terminate"]
  /\ target' = [target EXCEPT ![c] = j]
  /\ UNCHANGED <<alive, profileFile, request, bg, orch, left>>

\* create_job tries a job that is gone again and again.
EnforceGone_Retries(c, j) ==
  /\ cpc[c] = "enforce"
  /\ j \in pending[c]
  /\ status[j] = "absent"
  /\ UNCHANGED vars

\* stop_job leaves the profile file behind.
StopJoin_KeepsFile(c) ==
  /\ cpc[c] = "terminate"
  /\ Holds(target[c], c) = {}
  /\ Move(target[c], Task, c, "nobody")
  /\ cpc' = [cpc EXCEPT ![c] = "mark"]
  /\ UNCHANGED <<status, token, alive, profileFile, pill, request, bg, orch, left,
                 target, pending, creating>>

\* create_job stores the new job before the old ones are stopped.
CreateInsert_TooEarly(c, j, r) ==
  /\ cpc[c] = "enforce"
  /\ bg[j] = "none"
  /\ status' = [status EXCEPT ![j] = "Starting"]
  /\ profileFile' = profileFile \cup {j}
  /\ request' = [request EXCEPT ![j] = r]
  /\ bg' = [bg EXCEPT ![j] = "check"]
  /\ cpc' = [cpc EXCEPT ![c] = "idle"]
  /\ creating' = creating \ {c}
  /\ UNCHANGED <<token, owner, alive, pill, orch, left, target, pending>>

\* The outstation is not killed when the control station does not build.
BgControlBuildFails_NoKill(j) ==
  /\ bg[j] = "control_station"
  /\ pill[j]["control_station"] = "compiling"
  /\ bg' = [bg EXCEPT ![j] = "fail"]
  /\ SetPill(j, "control_station", "error")
  /\ UNCHANGED <<status, token, owner, alive, profileFile, request, orch, left, clientVars>>

\* The orchestrator ends without finish_job.
FinishTake_Skipped(j) ==
  /\ left[j] = 0
  /\ orch[j] = "loop"
  /\ orch' = [orch EXCEPT ![j] = "done"]
  /\ UNCHANGED <<jobVars, request, bg, left, clientVars>>

-----------------------------------------------------------------------------
(* create_job and stop_job.                                                *)

MayRequest(c) ==
  /\ cpc[c] = "idle"
  /\ PatientClients => \A j \in Job : bg[j] \in {"none", "done"}

\* POST /jobs: the ids of the active jobs are read under the lock, which is
\* then released.
RequestCreate(c) ==
  /\ MayRequest(c)
  /\ cpc' = [cpc EXCEPT ![c] = "enforce"]
  /\ pending' = [pending EXCEPT ![c] = {j \in Job : Active(j)}]
  /\ creating' = creating \cup {c}
  /\ UNCHANGED <<jobVars, request, bg, orch, left, target>>

\* The first critical section of stop_job, whatever the job's status is: the
\* token is cancelled, and the children and the task handles are taken.
StopBegin(c, j) ==
  /\ status[j] # "absent"
  /\ token' = token \cup {j}
  /\ SetStatus(j, "Stopping")
  /\ Move(j, Resource, "map", c)
  /\ SetPill(j, "test_runner", "stopping")
  /\ cpc' = [cpc EXCEPT ![c] = "terminate"]
  /\ target' = [target EXCEPT ![c] = j]
  /\ UNCHANGED <<alive, profileFile, request, bg, orch, left>>

\* DELETE /jobs/:id; an unknown id is answered with an error and no change.
RequestStop(c, j) ==
  /\ MayRequest(c)
  /\ StopBegin(c, j)
  /\ UNCHANGED <<pending, creating>>

\* create_job stops the active jobs it saw, one after the other.
EnforceStop(c, j) ==
  /\ cpc[c] = "enforce"
  /\ j \in pending[c]
  /\ StopBegin(c, j)
  /\ pending' = [pending EXCEPT ![c] = @ \ {j}]
  /\ UNCHANGED creating

\* The job has left the map meanwhile: stop_job fails and the error is dropped.
EnforceGone(c, j) ==
  /\ cpc[c] = "enforce"
  /\ j \in pending[c]
  /\ status[j] = "absent"
  /\ pending' = [pending EXCEPT ![c] = @ \ {j}]
  /\ UNCHANGED <<jobVars, request, bg, orch, left, cpc, target, creating>>

StopTerminate(c) ==
  /\ cpc[c] = "terminate"
  /\ \E s \in NextToKill(target[c], c) : KillAndEmit(target[c], s)
  /\ UNCHANGED <<status, token, profileFile, request, bg, orch, left, clientVars>>

\* Each task handle is awaited for five seconds at most, so the wait always
\* ends; then the profile file is removed.
StopJoin(c) ==
  /\ cpc[c] = "terminate"
  /\ Holds(target[c], c) = {}
  /\ Move(target[c], Task, c, "nobody")
  /\ profileFile' = profileFile \ {target[c]}
  /\ cpc' = [cpc EXCEPT ![c] = "mark"]
  /\ UNCHANGED <<status, token, alive, pill, request, bg, orch, left, target, pending, creating>>

StopMark(c) ==
  /\ cpc[c] = "mark"
  /\ SetStatus(target[c], "Stopped")
  /\ SetPill(target[c], "test_runner", "stopped")
  /\ cpc' = [cpc EXCEPT ![c] = IF c \in creating THEN "enforce" ELSE "idle"]
  /\ target' = [target EXCEPT ![c] = NoJob]
  /\ UNCHANGED <<token, owner, alive, profileFile, request, bg, orch, left,
                 pending, creating>>

\* The profile is valid: its file is written, the job is stored as Starting
\* and its background task is spawned.
CreateInsert(c, j, r) ==
  /\ cpc[c] = "enforce"
  /\ pending[c] = {}
  /\ ~Created(j)
  /\ status' = [status EXCEPT ![j] = "Starting"]
  /\ profileFile' = profileFile \cup {j}
  /\ request' = [request EXCEPT ![j] = r]
  /\ bg' = [bg EXCEPT ![j] = "check"]
  /\ cpc' = [cpc EXCEPT ![c] = "idle"]
  /\ creating' = creating \ {c}
  /\ UNCHANGED <<token, owner, alive, pill, orch, left, target, pending>>

\* The profile does not parse or validate, or its file cannot be written.
CreateRejected(c) ==
  /\ cpc[c] = "enforce"
  /\ pending[c] = {}
  /\ cpc' = [cpc EXCEPT ![c] = "idle"]
  /\ creating' = creating \ {c}
  /\ UNCHANGED <<jobVars, request, bg, orch, left, target, pending>>

-----------------------------------------------------------------------------
(* run_job_background.                                                     *)

BgGo(j, from, to) ==
  /\ bg[j] = from
  /\ bg' = [bg EXCEPT ![j] = to]

AfterCheck(r) ==
  IF r.os THEN "outstation" ELSE IF r.cs THEN "control_station" ELSE "store"

Used(r) == {s \in Station : (s = "outstation" /\ r.os) \/ (s = "control_station" /\ r.cs)}

\* Both *_BIN variables are classified before any build starts; a build is
\* spawned for each used station whose variable is not set.
BgBegin(j) ==
  /\ BgGo(j, "check", AfterCheck(request[j]))
  /\ \E built \in SUBSET Used(request[j]) :
       pill' = [pill EXCEPT ![j] =
         [p \in Process |-> IF p = "test_runner" THEN "starting"
                           ELSE IF p \in built THEN "compiling" ELSE pill[j][p]]]
  /\ UNCHANGED <<status, token, owner, alive, profileFile, request, orch, left, clientVars>>

\* A *_BIN variable names a file that does not exist; the outstation's is
\* looked at first.
BgMissingBinary(j) ==
  /\ BgGo(j, "check", "fail")
  /\ \E s \in Used(request[j]) :
       pill' = [pill EXCEPT ![j] =
         [p \in Process |-> IF p = "test_runner" THEN "starting"
                           ELSE IF p = s THEN "error" ELSE pill[j][p]]]
  /\ UNCHANGED <<status, token, owner, alive, profileFile, request, orch, left, clientVars>>

BgBuildFails(j, s, to) ==
  /\ BgGo(j, s, to)
  /\ pill[j][s] = "compiling"
  /\ SetPill(j, s, "error")
  /\ UNCHANGED <<status, token, owner, alive, profileFile, request, orch, left, clientVars>>

BgOutstationBuildFails(j) == BgBuildFails(j, "outstation", "fail")
BgControlBuildFails(j) == BgBuildFails(j, "control_station", "abort")

\* The process could not be spawned; its pill has just been set to starting.
BgSpawnFails(j, s, to) ==
  /\ BgGo(j, s, to)
  /\ SetPill(j, s, "starting")
  /\ UNCHANGED <<status, token, owner, alive, profileFile, request, orch, left, clientVars>>

\* The child and its stream tasks are held in locals of the background task.
BgSpawn(j, s, to) ==
  /\ BgGo(j, s, to)
  /\ alive' = [alive EXCEPT ![j] = @ \cup {s}]
  /\ owner' = [owner EXCEPT ![j][s] = "background", ![j]["streams"] = "background"]
  /\ SetPill(j, s, "running")
  /\ UNCHANGED <<status, token, profileFile, request, orch, left, clientVars>>

BgOutstationSpawnFails(j) == BgSpawnFails(j, "outstation", "fail")

BgSpawnOutstation(j) ==
  BgSpawn(j, "outstation", IF request[j].cs THEN "control_station" ELSE "store")

\* wait_for_tcp_port_with_child answers ChildExited or Timeout.
BgPortWaitFails(j) ==
  /\ BgGo(j, "control_station", "abort")
  /\ request[j].os
  /\ UNCHANGED <<jobVars, request, orch, left, clientVars>>

\* It answers Ready only for an outstation that has not exited.
PortReady(j) == request[j].os => "outstation" \in alive[j]

BgControlSpawnFails(j) ==
  /\ PortReady(j)
  /\ BgSpawnFails(j, "control_station", "abort")

BgSpawnControl(j) ==
  /\ PortReady(j)
  /\ BgSpawn(j, "control_station", "store")

\* Every failure after the outstation is up terminates it, without an event.
BgAbort(j) ==
  /\ BgGo(j, "abort", "fail")
  /\ Kill(j, Holds(j, "background"))
  /\ UNCHANGED <<status, token, profileFile, pill, request, orch, left, clientVars>>

BgFail(j) ==
  /\ BgGo(j, "fail", "done")
  /\ SetStatus(j, "Failed")
  /\ Move(j, Task, "background", "nobody")
  /\ UNCHANGED <<token, alive, profileFile, pill, request, orch, left, clientVars>>

\* The job becomes Running and gets its children; the token is not looked at.
BgStore(j) ==
  /\ BgGo(j, "store", "announce")
  /\ SetStatus(j, "Running")
  /\ IF status[j] = "absent" THEN UNCHANGED owner ELSE Move(j, Station, "background", "map")
  /\ UNCHANGED <<token, alive, profileFile, pill, request, orch, left, clientVars>>

\* The orchestrator is spawned when there is a scenario and a stdin to write to.
BgAnnounce(j) ==
  /\ BgGo(j, "announce", "handles")
  /\ SetPill(j, "test_runner", "running")
  /\ IF request[j].cs /\ request[j].scenarios > 0
     THEN /\ orch' = [orch EXCEPT ![j] = "loop"]
          /\ left' = [left EXCEPT ![j] = request[j].scenarios]
          /\ owner' = [owner EXCEPT ![j]["orchestrator_task"] = "background"]
     ELSE UNCHANGED <<orch, left, owner>>
  /\ UNCHANGED <<status, token, alive, profileFile, request, clientVars>>

\* The handles go to the map if the job is still there and are dropped if not;
\* a task goes on when its handle is dropped.
BgStoreHandles(j) ==
  /\ BgGo(j, "handles", "done")
  /\ Move(j, Task, "background", IF status[j] = "absent" THEN "nobody" ELSE "map")
  /\ UNCHANGED <<status, token, alive, profileFile, pill, request, orch, left, clientVars>>

-----------------------------------------------------------------------------
(* run_all_scenarios_new_thread.  What happens inside one scenario is the   *)
(* subject of module ScenarioRun; here a scenario takes some time and ends. *)

OrchGo(j, from, to) ==
  /\ orch[j] = from
  /\ orch' = [orch EXCEPT ![j] = to]

OrchBegin(j) ==
  /\ OrchGo(j, "loop", "scenario")
  /\ left[j] > 0
  /\ j \notin token
  /\ left' = [left EXCEPT ![j] = @ - 1]
  /\ UNCHANGED <<jobVars, request, bg, clientVars>>

\* The token is looked at before a scenario, during the wait and after it.
OrchCancelled(j) ==
  /\ \/ OrchGo(j, "loop", "done") /\ left[j] > 0
     \/ OrchGo(j, "scenario", "done")
  /\ j \in token
  /\ UNCHANGED <<jobVars, request, bg, left, clientVars>>

\* All results are in, or the wait has timed out.
OrchScenarioComplete(j) ==
  /\ OrchGo(j, "scenario", "loop")
  /\ j \notin token
  /\ UNCHANGED <<jobVars, request, bg, left, clientVars>>

\* The transform or the write to stdin failed: on to the next scenario,
\* without a look at the token.
OrchScenarioError(j) ==
  /\ OrchGo(j, "scenario", "loop")
  /\ UNCHANGED <<jobVars, request, bg, left, clientVars>>

\* finish_job takes what stop_job takes, but leaves token and status alone.
FinishTake(j) ==
  /\ left[j] = 0
  /\ OrchGo(j, "loop", IF status[j] = "absent" THEN "done" ELSE "terminate")
  /\ Move(j, Resource, "map", "orchestrator")
  /\ UNCHANGED <<status, token, alive, profileFile, pill, request, bg, left, clientVars>>

FinishTerminate(j) ==
  /\ orch[j] = "terminate"
  /\ \E s \in NextToKill(j, "orchestrator") : KillAndEmit(j, s)
  /\ UNCHANGED <<status, token, profileFile, request, bg, orch, left, clientVars>>

FinishJoin(j) ==
  /\ OrchGo(j, "terminate", "mark")
  /\ Holds(j, "orchestrator") = {}
  /\ token' = token \cup {j}
  /\ Move(j, Task, "orchestrator", "nobody")
  /\ profileFile' = profileFile \ {j}
  /\ UNCHANGED <<status, alive, pill, request, bg, left, clientVars>>

FinishMark(j) ==
  /\ OrchGo(j, "mark", "remove")
  /\ SetStatus(j, "Finished")
  /\ SetPill(j, "test_runner", "finished")
  /\ UNCHANGED <<token, owner, alive, profileFile, request, bg, left, clientVars>>

\* 200 ms later.  What the map still held of the job is dropped with it: a
\* Child kills its process, a JoinHandle lets its task go on.
FinishRemove(j) ==
  /\ OrchGo(j, "remove", "done")
  /\ status' = [status EXCEPT ![j] = "absent"]
  /\ alive' = [alive EXCEPT ![j] = @ \ Holds(j, "map")]
  /\ Move(j, Resource, "map", "nobody")
  /\ UNCHANGED <<token, profileFile, pill, request, bg, left, clientVars>>

-----------------------------------------------------------------------------
(* The environment: nobody watches a station that exits by itself.         *)

StationExits(j, s) ==
  /\ StationsCrash
  /\ s \in alive[j]
  /\ alive' = [alive EXCEPT ![j] = @ \ {s}]
  /\ UNCHANGED <<status, token, owner, profileFile, pill, request, bg, orch, left, clientVars>>

-----------------------------------------------------------------------------

Init ==
  /\ status = [j \in Job |-> "absent"]
  /\ token = {}
  /\ owner = [j \in Job |-> [r \in Resource |-> "nobody"]]
  /\ alive = [j \in Job |-> {}]
  /\ profileFile = {}
  /\ pill = [j \in Job |-> [p \in Process |-> "none"]]
  /\ request = [j \in Job |-> NoRequest]
  /\ bg = [j \in Job |-> "none"]
  /\ orch = [j \in Job |-> "none"]
  /\ left = [j \in Job |-> 0]
  /\ cpc = [c \in Client |-> "idle"]
  /\ target = [c \in Client |-> NoJob]
  /\ pending = [c \in Client |-> {}]
  /\ creating = {}

ClientStep(c) ==
  \/ \E j \in Job : EnforceStop(c, j)
  \/ \E j \in Job : EnforceGone(c, j)
  \/ StopTerminate(c)
  \/ StopJoin(c)
  \/ StopMark(c)
  \/ \E j \in Job, r \in Requests : CreateInsert(c, j, r)
  \/ CreateRejected(c)

BackgroundStep(j) ==
  \/ BgBegin(j)
  \/ BgMissingBinary(j)
  \/ BgOutstationBuildFails(j)
  \/ BgOutstationSpawnFails(j)
  \/ BgSpawnOutstation(j)
  \/ BgControlBuildFails(j)
  \/ BgPortWaitFails(j)
  \/ BgControlSpawnFails(j)
  \/ BgSpawnControl(j)
  \/ BgAbort(j)
  \/ BgFail(j)
  \/ BgStore(j)
  \/ BgAnnounce(j)
  \/ BgStoreHandles(j)

OrchestratorStep(j) ==
  \/ OrchBegin(j)
  \/ OrchCancelled(j)
  \/ OrchScenarioComplete(j)
  \/ OrchScenarioError(j)
  \/ FinishTake(j)
  \/ FinishTerminate(j)
  \/ FinishJoin(j)
  \/ FinishMark(j)
  \/ FinishRemove(j)

Next ==
  \/ \E c \in Client : RequestCreate(c)
  \/ \E c \in Client, j \in Job : RequestStop(c, j)
  \/ \E c \in Client : ClientStep(c)
  \/ \E j \in Job : BackgroundStep(j)
  \/ \E j \in Job : OrchestratorStep(j)
  \/ \E j \in Job, s \in Station : StationExits(j, s)

Spec == Init /\ [][Next]_vars

\* Every started task runs on: tokio polls it again, and each of its awaits
\* ends (the waits carry timeouts; a cargo build is taken to end).  Nothing
\* makes a client send a request or a station exit.
Fairness ==
  /\ \A c \in Client : WF_vars(ClientStep(c))
  /\ \A j \in Job : WF_vars(BackgroundStep(j)) /\ WF_vars(OrchestratorStep(j))

FairSpec == Spec /\ Fairness

-----------------------------------------------------------------------------
(* Properties.                                                             *)

\* Every variable keeps its type.
TypeOK ==
  /\ status \in [Job -> {"absent", "Starting", "Running", "Stopping",
                         "Stopped", "Finished", "Failed"}]
  /\ token \in SUBSET Job
  /\ owner \in [Job -> [Resource -> Owner]]
  /\ alive \in [Job -> SUBSET Station]
  /\ profileFile \in SUBSET Job
  /\ pill \in [Job -> [Process ->
       {"none", "compiling", "starting", "running", "stopping", "stopped",
        "finished", "error"}]]
  /\ request \in [Job -> Requests \cup {NoRequest}]
  /\ bg \in [Job -> {"none", "check", "outstation", "control_station", "abort",
                     "fail", "store", "announce", "handles", "done"}]
  /\ orch \in [Job -> {"none", "loop", "scenario", "terminate", "mark",
                       "remove", "done"}]
  /\ left \in [Job -> Nat]
  /\ cpc \in [Client -> {"idle", "enforce", "terminate", "mark"}]
  /\ target \in [Client -> Job \cup {NoJob}]
  /\ \A c \in Client : cpc[c] \in {"terminate", "mark"} => target[c] \in Job
  /\ pending \in [Client -> SUBSET Job]
  /\ creating \in SUBSET Client

\* A station process that runs is in somebody's hands: a background task that
\* will store or kill it, the map entry of its job, or a clean-up that is about
\* to kill it.  No order of create, start, stop and finish leaves a process
\* that nobody can terminate any more.
Kept(j, s) ==
  \/ owner[j][s] = "background" /\ bg[j] \in {"control_station", "abort", "store"}
  \/ owner[j][s] = "map" /\ status[j] # "absent"
  \/ owner[j][s] = "orchestrator" /\ orch[j] = "terminate"
  \/ \E c \in Client : owner[j][s] = c /\ cpc[c] = "terminate" /\ target[c] = j

NoOrphanProcess == \A j \in Job : \A s \in alive[j] : Kept(j, s)

\* A job reported Failed has no process left: run_job_background kills the
\* outstation it had started before it records the failure.
FailedIsDead == \A j \in Job : status[j] = "Failed" => alive[j] = {}

\* A pill that shows stopped or error is the pill of a process that is not
\* running, whoever asked for it to stop.
DeadPillIsTrue ==
  \A j \in Job : \A s \in Station :
    pill[j][s] \in {"stopped", "error"} => s \notin alive[j]

\* The temporary profile of a job is gone once the job is Stopped, Finished or
\* out of the map.
ProfileFileRemoved ==
  \A j \in profileFile :
    status[j] \notin {"Stopped", "Finished", "absent"}

\* A job that has left the map never comes back, although stop_job, the
\* background task and finish_job all write to the map after an await.
RemovedStaysRemoved ==
  [][\A j \in Job : Created(j) /\ status[j] = "absent" => status'[j] = "absent"]_vars

\* What is still running of a Stopped job is being killed: nothing is left
\* in the map or on its way into it.
StoppedIsGoingDown ==
  \A j \in Job : status[j] = "Stopped" =>
    \A s \in alive[j] : owner[j][s] \notin {"background", "map"}

\* Every request is answered, whatever the job's tasks do meanwhile.
RequestsReturn == \A c \in Client : cpc[c] # "idle" ~> cpc[c] = "idle"

\* A job that was given scenarios comes to an end by itself.
ScenarioJobsEnd ==
  \A j \in Job :
    Created(j) /\ request[j].cs /\ request[j].scenarios > 0 ~> []~Active(j)

\* What a client of the service may rely on (module JobPromise).
Promise == INSTANCE JobPromise WITH
  procs <- alive,
  phase <- [j \in Job |-> IF ~Created(j) THEN "new" ELSE IF Active(j) THEN "up" ELSE "down"]

KeepsPromise == Promise!Spec
DownMeansDead == Promise!DownMeansDead

=============================================================================
