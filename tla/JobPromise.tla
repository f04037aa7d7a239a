----------------------------- MODULE JobPromise -----------------------------
(***************************************************************************)
(* What the job service promises its clients, without its tasks: a job     *)
(* comes up once and goes down once, at most one job is up, a job that is  *)
(* down starts no process any more, and its processes disappear.           *)
(***************************************************************************)
CONSTANTS Job

VARIABLES
  phase, \* "new", then "up", then "down"
  procs  \* the station processes of a job

Init ==
  /\ phase = [j \in Job |-> "new"]
  /\ procs = [j \in Job |-> {}]

ComeUp(j) ==
  /\ phase[j] = "new"
  /\ \A i \in Job : phase[i] # "up"
  /\ phase' = [phase EXCEPT ![j] = "up"]
  /\ UNCHANGED procs

StartProcess(j, s) ==
  /\ phase[j] = "up"
  /\ procs' = [procs EXCEPT ![j] = @ \cup {s}]
  /\ UNCHANGED phase

LoseProcesses(j) ==
  /\ \E S \in SUBSET procs[j] : procs' = [procs EXCEPT ![j] = S]
  /\ UNCHANGED phase

GoDown(j) ==
  /\ phase[j] = "up"
  /\ phase' = [phase EXCEPT ![j] = "down"]
  /\ UNCHANGED procs

Next ==
  \E j \in Job :
    \/ ComeUp(j)
    \/ \E s \in {"outstation", "control_station"} : StartProcess(j, s)
    \/ LoseProcesses(j)
    \/ GoDown(j)

Spec == Init /\ [][Next]_<<phase, procs>>

\* The processes of a job that is down are gone in the end.
DownMeansDead == \A j \in Job : phase[j] = "down" ~> procs[j] = {}

=============================================================================
