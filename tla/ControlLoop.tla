----------------------------- MODULE ControlLoop -----------------------------
(***************************************************************************)
(* The reference control station as a process of its own                    *)
(* (reference_control_station/src/main.rs, control_loop.rs, state.rs).     *)
(*                                                                         *)
(* Two tasks run in it.  The stdin task takes the new_scenario commands    *)
(* and swaps the profile under the control loop; the control loop writes    *)
(* the profile to the outstation and, only after a notification, runs the   *)
(* conformance tests.  They share the profile, the scenario id that tags    *)
(* results, and one Notify, whose permit does not count.                    *)
(*                                                                         *)
(* A scenario is known by its place in the plan, 0 being the profile the    *)
(* process was started with, so that two runs of one scenario differ.  The  *)
(* points a writer writes and what the outstation answers are abstracted   *)
(* to the scenario whose profile the writer read.                           *)
(***************************************************************************)
EXTENDS Naturals, Sequences

CONSTANTS
  Plan,      \* the scenario ids a job was asked to run, in order
  TestCount, \* conformance tests in a run of run_conformance_tests
  Faults     \* TRUE: the process may exit, and may refuse a profile

ASSUME ControlLoopAssumption ==
  /\ Plan \in Seq({Plan[n] : n \in DOMAIN Plan})
  /\ TestCount \in Nat \ {0}
  /\ Faults \in BOOLEAN

Step == 0 .. Len(Plan)
Test == 1 .. TestCount
Writer == <<"ao", "bo", "curves", "schedules_bc", "schedules">>

\* The scenario id that tags a result; it is empty before the first command.
IdOf(n) == IF n = 0 THEN "" ELSE Plan[n]

\* What the station prints of a test.
Result == [test : Test, tag : {IdOf(n) : n \in Step}, evidence : SUBSET Step]

VARIABLES
  up,       \* the process runs
  stdin,    \* new_scenario commands written and not yet read
  loading,  \* the command whose profile is swapped in and not announced, or 0
  profile,  \* the scenario whose profile is loaded
  tag,      \* scenario_id, as the ConformanceTrackingLayer sees it
  permit,   \* the Notify holds a permit
  lpc,      \* where the control loop is
  written,  \* writers done in the current pass over the outstation
  evidence, \* scenarios whose profile was written since the last reset
  next,     \* the next conformance test to run
  stdout    \* results printed and not yet read by the job service

stationVars == <<up, stdin, loading, profile, tag, permit, lpc, written, evidence, next, stdout>>

-----------------------------------------------------------------------------
(* Mutants.                                                                *)

\* What the previous scenario did is not forgotten.
LoopNotified_NoReset ==
  /\ up /\ lpc = "select" /\ permit
  /\ permit' = FALSE
  /\ lpc' = "notified"
  /\ UNCHANGED <<up, stdin, loading, profile, tag, written, evidence, next, stdout>>

\* The tests are not run after a notification.
AfterWrites_SkipsTests == [top |-> "select", periodic |-> "top", notified |-> "top"]

-----------------------------------------------------------------------------
(* The stdin task.                                                         *)

\* The command parses and validates: the databases, the profile and its index
\* are replaced.
StdinSwap ==
  /\ up /\ loading = 0 /\ stdin # <<>>
  /\ loading' = Head(stdin)
  /\ stdin' = Tail(stdin)
  /\ profile' = Head(stdin)
  /\ UNCHANGED <<up, tag, permit, lpc, written, evidence, next, stdout>>

\* Then results are tagged with the new id and the loop is notified.
StdinAnnounce ==
  /\ up /\ loading # 0
  /\ tag' = IdOf(loading)
  /\ loading' = 0
  /\ permit' = TRUE
  /\ UNCHANGED <<up, stdin, profile, lpc, written, evidence, next, stdout>>

\* The profile of the command is refused; nothing is answered.
StdinRefuse ==
  /\ Faults
  /\ up /\ loading = 0 /\ stdin # <<>>
  /\ stdin' = Tail(stdin)
  /\ UNCHANGED <<up, loading, profile, tag, permit, lpc, written, evidence, next, stdout>>

-----------------------------------------------------------------------------
(* The control loop.                                                       *)

AfterWrites == [top |-> "select", periodic |-> "top", notified |-> "test"]

\* One writer: it reads the profile once and writes its points, then the next.
LoopWrite ==
  /\ up /\ lpc \in DOMAIN AfterWrites
  /\ evidence' = evidence \cup {profile}
  /\ IF written + 1 < Len(Writer)
     THEN written' = written + 1 /\ lpc' = lpc
     ELSE written' = 0 /\ lpc' = AfterWrites[lpc]
  /\ UNCHANGED <<up, stdin, loading, profile, tag, permit, next, stdout>>

\* The interval has elapsed.
LoopTimer ==
  /\ up /\ lpc = "select"
  /\ lpc' = "periodic"
  /\ UNCHANGED <<up, stdin, loading, profile, tag, permit, written, evidence, next, stdout>>

\* The permit is taken and reset_conformance_state forgets the past.
LoopNotified ==
  /\ up /\ lpc = "select" /\ permit
  /\ permit' = FALSE
  /\ evidence' = {}
  /\ lpc' = "notified"
  /\ UNCHANGED <<up, stdin, loading, profile, tag, written, next, stdout>>

\* One test: its result is tagged with the id of the moment and printed.
LoopTest ==
  /\ up /\ lpc = "test"
  /\ stdout' = Append(stdout, [test |-> next, tag |-> tag, evidence |-> evidence])
  /\ IF next < TestCount
     THEN next' = next + 1 /\ lpc' = lpc
     ELSE next' = 1 /\ lpc' = "top"
  /\ UNCHANGED <<up, stdin, loading, profile, tag, permit, written, evidence>>

Exit ==
  /\ Faults
  /\ up
  /\ up' = FALSE
  /\ UNCHANGED <<stdin, loading, profile, tag, permit, lpc, written, evidence, next, stdout>>

-----------------------------------------------------------------------------

StationInit ==
  /\ up = TRUE
  /\ stdin = <<>>
  /\ loading = 0
  /\ profile = 0
  /\ tag = IdOf(0)
  /\ permit = FALSE
  /\ lpc = "top"
  /\ written = 0
  /\ evidence = {}
  /\ next = 1
  /\ stdout = <<>>

StdinStep == StdinSwap \/ StdinAnnounce \/ StdinRefuse
LoopStep == LoopWrite \/ LoopTimer \/ LoopNotified \/ LoopTest
StationNext == StdinStep \/ LoopStep \/ Exit

\* Both tasks run on; select! polls both of its branches, in random order.
StationFairness ==
  /\ WF_stationVars(StdinStep)
  /\ WF_stationVars(LoopStep)
  /\ SF_stationVars(LoopNotified)

\* Nothing is owed to a command any more: no result of it can come later.
Idle ==
  \/ ~up
  \/ /\ stdin = <<>>
     /\ loading = 0
     /\ ~permit
     /\ lpc \notin {"notified", "test"}

-----------------------------------------------------------------------------
(* Properties.                                                             *)

\* The variables of the station keep their types, and the writers' and the
\* tests' counters are at rest outside their phases.
StationTypeOK ==
  /\ up \in BOOLEAN
  /\ stdin \in Seq(Step \ {0})
  /\ loading \in Step
  /\ profile \in Step
  /\ tag \in {IdOf(n) : n \in Step}
  /\ permit \in BOOLEAN
  /\ lpc \in {"top", "select", "periodic", "notified", "test"}
  /\ written \in 0 .. Len(Writer) - 1
  /\ evidence \in SUBSET Step
  /\ next \in Test
  /\ stdout \in Seq(Result)
  /\ lpc \in {"select", "test"} => written = 0
  /\ lpc # "test" => next = 1

\* Each command that is loaded leads to a run of the tests: its notification
\* is not lost, whatever the loop was doing (the permit waits for it).
NotifiedRuns == permit ~> lpc = "test" \/ ~up

=============================================================================
