----------------------------- MODULE ScenarioRun -----------------------------
(***************************************************************************)
(* One run of the orchestrator (run_all_scenarios_new_thread in             *)
(* web_server/src/services/job_service.rs) against the control station of  *)
(* module ControlLoop, with what lies between them: the control station's   *)
(* stdin and stdout, the stream_output task, and the broadcast channel,     *)
(* which forgets its oldest events when the orchestrator is slow.           *)
(***************************************************************************)
EXTENDS ControlLoop, FiniteSets

CONSTANTS
  Expected,        \* scenario id -> the tests whose results are waited for
  ChannelCapacity, \* EVENT_CHANNEL_CAPACITY
  CycleFits        \* TRUE: SCENARIO_TIMEOUT_SECS is longer than a cycle takes

ASSUME ScenarioRunAssumption ==
  /\ Expected \in [{Plan[n] : n \in DOMAIN Plan} -> SUBSET Test]
  /\ ChannelCapacity \in Nat \ {0}
  /\ CycleFits \in BOOLEAN

VARIABLES
  opc,        \* where the orchestrator is
  cur,        \* the scenario it works on
  results,    \* test_results: the evidence behind each result, {} for none
  shown,      \* scenario_status events sent, as <<scenario, status>>
  cancelled,  \* the job's cancel_token
  subscribed, \* the orchestrator has a receiver
  channel     \* the events its receiver has still to take

runVars == <<opc, cur, results, shown, cancelled, subscribed, channel>>
vars == <<stationVars, runVars>>

Log == [log |-> TRUE]

-----------------------------------------------------------------------------
(* Mutants.                                                                *)

\* The wait is over with the first result.
Resolved_ByAnyResult == \E t \in Expected[Plan[cur]] : results[t] # {}

\* The wait has no timeout.
OrchTimeout_Never ==
  /\ FALSE
  /\ UNCHANGED vars

\* The next command is sent before the wait.
OrchSend_NoWait ==
  /\ opc = "loop" /\ cur <= Len(Plan) /\ ~cancelled
  /\ up
  /\ shown' = shown \cup {<<cur, "starting">>}
  /\ stdin' = Append(stdin, cur)
  /\ opc' = "delay"
  /\ UNCHANGED <<up, loading, profile, tag, permit, lpc, written, evidence, next, stdout,
                 cur, results, cancelled, subscribed, channel>>

-----------------------------------------------------------------------------
(* The orchestrator.                                                       *)

Resolved == \A t \in Expected[Plan[cur]] : results[t] # {}

\* The command is written to the control station's stdin.
OrchSend ==
  /\ opc = "loop" /\ cur <= Len(Plan) /\ ~cancelled
  /\ up
  /\ shown' = shown \cup {<<cur, "starting">>}
  /\ stdin' = Append(stdin, cur)
  /\ opc' = IF Expected[Plan[cur]] = {} THEN "delay" ELSE "sent"
  /\ UNCHANGED <<up, loading, profile, tag, permit, lpc, written, evidence, next, stdout,
                 cur, results, cancelled, subscribed, channel>>

\* The transform of the profile fails, or nobody reads the other end of stdin:
\* on to the next scenario.
OrchError ==
  /\ opc = "loop" /\ cur <= Len(Plan) /\ ~cancelled
  /\ Faults
  /\ shown' = shown \cup {<<cur, "starting">>, <<cur, "error">>}
  /\ cur' = cur + 1
  /\ UNCHANGED <<stationVars, opc, results, cancelled, subscribed, channel>>

\* Only after the command was sent does the orchestrator subscribe.
OrchSubscribe ==
  /\ opc = "sent"
  /\ subscribed' = TRUE
  /\ channel' = <<>>
  /\ results' = [t \in Test |-> {}]
  /\ opc' = "wait"
  /\ UNCHANGED <<stationVars, cur, shown, cancelled>>

\* The first result of each expected test counts, if it is tagged with the
\* scenario that runs.
OrchReceive ==
  /\ opc = "wait" /\ ~Resolved /\ channel # <<>>
  /\ channel' = Tail(channel)
  /\ LET event == Head(channel) IN
       results' = IF event # Log /\ event.tag = Plan[cur]
                    /\ event.test \in Expected[Plan[cur]] /\ results[event.test] = {}
                  THEN [results EXCEPT ![event.test] = event.evidence]
                  ELSE results
  /\ UNCHANGED <<stationVars, opc, cur, shown, cancelled, subscribed>>

\* No result of the scenario can come any more.
Silent == Idle /\ stdout = <<>> /\ channel = <<>>

OrchTimeout ==
  /\ opc = "wait" /\ ~Resolved
  /\ CycleFits => Silent
  /\ shown' = shown \cup {<<cur, "timeout">>}
  /\ opc' = "ending"
  /\ UNCHANGED <<stationVars, cur, results, cancelled, subscribed, channel>>

\* Two seconds for a scenario without expected tests.
OrchDelay ==
  /\ opc = "delay"
  /\ opc' = "ending"
  /\ UNCHANGED <<stationVars, cur, results, shown, cancelled, subscribed, channel>>

\* The scenario is complete, after a timeout too; its receiver is dropped.
OrchComplete ==
  /\ \/ opc = "ending"
     \/ opc = "wait" /\ Resolved
  /\ ~cancelled
  /\ shown' = shown \cup {<<cur, "complete">>}
  /\ cur' = cur + 1
  /\ subscribed' = FALSE
  /\ channel' = <<>>
  /\ opc' = "loop"
  /\ UNCHANGED <<stationVars, results, cancelled>>

OrchCancelled ==
  /\ \/ opc = "loop" /\ cur <= Len(Plan)
     \/ opc \in {"delay", "wait", "ending"}
  /\ cancelled
  /\ opc' = "cancelled"
  /\ subscribed' = FALSE
  /\ channel' = <<>>
  /\ UNCHANGED <<stationVars, cur, results, shown, cancelled>>

\* All scenarios are done and finish_job follows.
OrchFinish ==
  /\ opc = "loop" /\ cur > Len(Plan)
  /\ opc' = "done"
  /\ UNCHANGED <<stationVars, cur, results, shown, cancelled, subscribed, channel>>

-----------------------------------------------------------------------------
(* Between the control station and the orchestrator.                       *)

\* The receiver of a broadcast channel that is full loses its oldest events.
Newest(events) ==
  IF Len(events) <= ChannelCapacity THEN events
  ELSE SubSeq(events, Len(events) - ChannelCapacity + 1, Len(events))

\* stream_output takes a line and sends a result and a log event for it.
Stream ==
  /\ stdout # <<>> /\ ~cancelled
  /\ stdout' = Tail(stdout)
  /\ channel' = IF subscribed THEN Newest(channel \o <<Head(stdout), Log>>) ELSE channel
  /\ UNCHANGED <<up, stdin, loading, profile, tag, permit, lpc, written, evidence, next,
                 opc, cur, results, shown, cancelled, subscribed>>

\* stop_job or finish_job of the same job.
Cancel ==
  /\ ~cancelled
  /\ cancelled' = TRUE
  /\ UNCHANGED <<stationVars, opc, cur, results, shown, subscribed, channel>>

-----------------------------------------------------------------------------

Init ==
  /\ StationInit
  /\ opc = "loop"
  /\ cur = 1
  /\ results = [t \in Test |-> {}]
  /\ shown = {}
  /\ cancelled = FALSE
  /\ subscribed = FALSE
  /\ channel = <<>>

OrchStep ==
  \/ OrchSend
  \/ OrchError
  \/ OrchSubscribe
  \/ OrchReceive
  \/ OrchTimeout
  \/ OrchDelay
  \/ OrchComplete
  \/ OrchCancelled
  \/ OrchFinish

Next ==
  \/ OrchStep
  \/ Stream
  \/ Cancel
  \/ StationNext /\ UNCHANGED runVars

Spec == Init /\ [][Next]_vars

\* The orchestrator, the stream task and the station's tasks are polled again
\* whenever they can go on.  Nothing makes a job be stopped or a station exit.
FairSpec ==
  /\ Spec
  /\ WF_vars(OrchStep)
  /\ WF_vars(Stream)
  /\ StationFairness

-----------------------------------------------------------------------------
(* Properties.                                                             *)

\* The variables of the run keep their types.
TypeOK ==
  /\ StationTypeOK
  /\ opc \in {"loop", "sent", "wait", "delay", "ending", "done", "cancelled"}
  /\ cur \in 1 .. Len(Plan) + 1
  /\ opc \in {"sent", "wait", "delay", "ending"} => cur <= Len(Plan)
  /\ results \in [Test -> SUBSET Step]
  /\ shown \in SUBSET (Step \X {"starting", "error", "timeout", "complete"})
  /\ cancelled \in BOOLEAN
  /\ subscribed \in BOOLEAN
  /\ channel \in Seq(Result \cup {Log})

\* A result counted for a scenario rests on what was written and read for that
\* scenario alone: the tests ran after a whole pass of the writers under its
\* profile, and nothing of the scenario before was left in the station's state.
ResultsAreOwn ==
  opc \in {"wait", "ending"} => \A t \in Expected[Plan[cur]] : results[t] \subseteq {cur}

\* A scenario that is shown complete without a timeout has a result for each
\* expected test.
CompleteIsEarned ==
  [][\A n \in Step \ {0} :
       <<n, "complete">> \in shown' \ shown /\ <<n, "timeout">> \notin shown =>
         \A t \in Expected[Plan[n]] : results[t] # {}]_vars

\* A command finds the control station at rest: before the next scenario starts,
\* everything of the one before has been answered or will never be.
SendsToIdle == [][Len(stdin') > Len(stdin) => Idle]_vars

\* The run comes to an end, in spite of lost results and a station that exits.
RunEnds == <>(opc \in {"done", "cancelled"})

=============================================================================
