---------------------------- MODULE PointExchange ----------------------------
(***************************************************************************)
(* The base points of the two stations: the control loop brings the outputs *)
(* of the outstation to what the profile says, the outstation reads them    *)
(* back as inputs, and both keep a record from which the conformance tests  *)
(* judge (reference_control_station/src/control_loop.rs, data_handlers.rs,  *)
(* state.rs, conformance.rs; reference_outstation/src/outstation.rs,        *)
(* database.rs, state.rs, conformance.rs).                                  *)
(*                                                                         *)
(* Both sides are as shipped: the outstation's controls succeed, and the     *)
(* commands of the orchestrator go to the control station only.  Curves and  *)
(* schedules are in MuxLink; all that is left of them here is the class 0    *)
(* read that follows each entry.                                           *)
(***************************************************************************)
EXTENDS Integers, Sequences, FiniteSets, SequencesExt

CONSTANTS
  AnalogInput, BinaryInput, AnalogOutput, BinaryOutput,  \* the points of the profile
  AoToAi,     \* [SUBSET AnalogOutput -> AnalogInput]: the input that reads an output back
  BoToBi,     \* [SUBSET BinaryOutput -> BinaryInput]
  BiToBo,     \* the output that is written for a binary input: the last one of those it reads back
  AiBounds,   \* [AnalogInput -> <<minimum, maximum>>]
  AoBounds,   \* [AnalogOutput -> <<minimum, maximum>>]
  Startup,    \* [AnalogInput -> value]: the profile both are started with
  Plan,       \* the values of the new_scenario commands, in order
  Entries,    \* how many curves and schedules are written, each followed by a read
  Nothing,    \* what latest has for a point of which no value was received
  Tests,      \* [test -> [ai, bi, ao, bo: the points it is about]]
  Breaks      \* how often the connection may break

Within(bounds, v) == bounds[1] <= v /\ v <= bounds[2]

Input == AnalogInput \cup BinaryInput
Point == Input \cup AnalogOutput \cup BinaryOutput

\* What a validated profile and the lists of the tests give.
ASSUME PointsAssumption ==
  /\ IsFiniteSet(Point) /\ Entries \in Nat /\ Breaks \in Nat /\ Nothing \notin Int \cup BOOLEAN
  /\ AnalogInput \cap (BinaryInput \cup AnalogOutput \cup BinaryOutput) = {}
  /\ BinaryInput \cap (AnalogOutput \cup BinaryOutput) = {} /\ AnalogOutput \cap BinaryOutput = {}
  /\ DOMAIN AoToAi \subseteq AnalogOutput /\ AoToAi \in [DOMAIN AoToAi -> AnalogInput]
  /\ DOMAIN BoToBi \subseteq BinaryOutput /\ BoToBi \in [DOMAIN BoToBi -> BinaryInput]
  /\ \A a, b \in DOMAIN AoToAi : AoToAi[a] = AoToAi[b] => a = b
  /\ DOMAIN BiToBo = {BoToBi[b] : b \in DOMAIN BoToBi}
  /\ \A i \in DOMAIN BiToBo : BiToBo[i] \in DOMAIN BoToBi /\ BoToBi[BiToBo[i]] = i
  /\ AiBounds \in [AnalogInput -> Int \X Int] /\ AoBounds \in [AnalogOutput -> Int \X Int]
  /\ \A a \in AnalogOutput : AoBounds[a][1] <= AoBounds[a][2]
  /\ Startup \in [AnalogInput -> Int] /\ Plan \in Seq([AnalogInput -> Int])
  /\ \A i \in AnalogInput : Within(AiBounds[i], Startup[i])
  /\ \A a \in DOMAIN AoToAi : \A n \in DOMAIN Plan :
       Within(AoBounds[a], Plan[n][AoToAi[a]]) => Within(AiBounds[AoToAi[a]], Plan[n][AoToAi[a]])

ASSUME TestsAssumption ==
  \A t \in DOMAIN Tests :
    /\ Tests[t].family \in {"mode", "curve", "schedule"}
    /\ Tests[t].ai \subseteq AnalogInput /\ Tests[t].bi \subseteq BinaryInput
    /\ Tests[t].ao \subseteq AnalogOutput /\ Tests[t].bo \subseteq BinaryOutput
    /\ Tests[t].family = "curve" => Tests[t].bo = {}

VARIABLES
  inputs,     \* outstation: the values of the inputs
  statuses,   \* outstation: the statuses of the outputs
  operated,   \* outstation: received_ao_indices and received_bo_indices
  refused,    \* outstation: the outputs ao_range_violations has an entry for
  changes,    \* outstation: changes of inputs to be reported, oldest first
  reported,   \* outstation: how many of them are in the report that is not confirmed
  reqs,       \* requests and confirmations on their way to the outstation
  wire,       \* answers and reports on their way to the control station
  latest,     \* control station: latest_transmission_values
  sent,       \* control station: sent_ao_indices and sent_bo_indices
  outOfRange, \* control station: ai_range_violations and ao_range_violations
  expected,   \* control station: the values of the inputs in its profile
  scenario,   \* control station: how many scenarios were loaded
  notify,     \* control station: a notification waits for the loop
  loop,       \* control station: where the control loop is
  broken      \* how often the connection broke

outVars == <<inputs, statuses, operated, refused, changes, reported>>
stationVars == <<latest, sent, outOfRange, expected, scenario, notify, loop>>
vars == <<outVars, reqs, wire, stationVars, broken>>

-----------------------------------------------------------------------------
(* The outstation.                                                         *)

\* Binary inputs start as TRUE, binary outputs as FALSE, analog inputs with the
\* values of the profile and analog outputs with their minimum.
InitialInputs == [p \in Input |-> IF p \in AnalogInput THEN Startup[p] ELSE TRUE]
InitialStatuses ==
  [p \in AnalogOutput \cup BinaryOutput |->
     IF p \in AnalogOutput THEN AoBounds[p][1] ELSE FALSE]

\* The input that reads an output back gets the same value, and a change of an
\* input is an event.
ReadBack(readback, p, v) ==
  IF p \in DOMAIN readback
  THEN /\ inputs' = [inputs EXCEPT ![readback[p]] = v]
       /\ changes' = IF inputs[readback[p]] = v THEN changes
                     ELSE Append(changes, <<readback[p], v>>)
  ELSE UNCHANGED <<inputs, changes>>

Answer(status) == wire' = Append(wire, [type |-> "answer", status |-> status, values |-> <<>>])

MutOperateAnalog(p, v) ==
  IF Within(AoBounds[p], v)
  THEN /\ operated' = IF statuses[p] = v THEN operated ELSE operated \cup {p}
       /\ statuses' = [statuses EXCEPT ![p] = v]
       /\ ReadBack(AoToAi, p, v)
       /\ Answer("success")
       /\ UNCHANGED refused
  ELSE /\ operated' = operated \cup {p}
       /\ refused' = refused \cup {p}
       /\ Answer("out_of_range")
       /\ UNCHANGED <<inputs, statuses, changes>>

\* handle_operate_analog_output: that it was operated is recorded first, even if
\* the value is refused.
OperateAnalog(p, v) ==
  /\ operated' = operated \cup {p}
  /\ IF Within(AoBounds[p], v)
     THEN /\ statuses' = [statuses EXCEPT ![p] = v]
          /\ ReadBack(AoToAi, p, v)
          /\ Answer("success")
          /\ UNCHANGED refused
     ELSE /\ refused' = refused \cup {p}
          /\ Answer("out_of_range")
          /\ UNCHANGED <<inputs, statuses, changes>>

\* LATCH_ON, the one operation the control station uses, makes the output TRUE.
OperateBinary(p) ==
  /\ operated' = operated \cup {p}
  /\ statuses' = [statuses EXCEPT ![p] = TRUE]
  /\ ReadBack(BoToBi, p, TRUE)
  /\ Answer("success")
  /\ UNCHANGED refused

ServeOperate ==
  /\ reqs # <<>> /\ Head(reqs).op \in {"write_ao", "write_bo"}
  /\ IF Head(reqs).op = "write_ao"
     THEN OperateAnalog(Head(reqs).point, Head(reqs).value)
     ELSE OperateBinary(Head(reqs).point)
  /\ reqs' = Tail(reqs)
  /\ UNCHANGED <<reported, stationVars, broken>>

\* Class 0 has the values of all inputs and the statuses of all outputs.
AllValues ==
  SetToSeq({<<p, inputs[p]>> : p \in BinaryInput})
  \o SetToSeq({<<p, inputs[p]>> : p \in AnalogInput})
  \o SetToSeq({<<p, statuses[p]>> : p \in AnalogOutput})
  \o SetToSeq({<<p, statuses[p]>> : p \in BinaryOutput})

ServeRead ==
  /\ reqs # <<>> /\ Head(reqs).op \in {"read", "integrity"}
  /\ wire' = Append(wire, [type |-> IF Head(reqs).op = "read" THEN "answer" ELSE "integrity",
                           status |-> "success", values |-> AllValues])
  /\ reqs' = Tail(reqs)
  /\ UNCHANGED <<outVars, stationVars, broken>>

Report ==
  /\ reported = 0 /\ changes # <<>>
  /\ wire' = Append(wire, [type |-> "report", status |-> "success", values |-> changes])
  /\ reported' = Len(changes)
  /\ UNCHANGED <<inputs, statuses, operated, refused, changes, reqs, stationVars, broken>>

ServeConfirm ==
  /\ reqs # <<>> /\ Head(reqs).op = "confirm"
  /\ changes' = SubSeq(changes, reported + 1, Len(changes))
  /\ reported' = 0
  /\ reqs' = Tail(reqs)
  /\ UNCHANGED <<inputs, statuses, operated, refused, wire, stationVars, broken>>

Serve == ServeOperate \/ ServeRead \/ Report \/ ServeConfirm

-----------------------------------------------------------------------------
(* What the control station makes of the values it receives.               *)

\* write_record: the newest value of a point is kept.
WriteRecord(known, p, v) == [known EXCEPT !.latest[p] = v]

\* enrich_and_validate: an analog value outside the bounds of its point is
\* recorded, and stays so when a later one is within them.
EnrichAndValidate(known, p, v) ==
  IF \/ p \in AnalogInput /\ ~Within(AiBounds[p], v)
     \/ p \in AnalogOutput /\ ~Within(AoBounds[p], v)
  THEN [known EXCEPT !.outOfRange = @ \cup {p}]
  ELSE known

\* The four handlers; each asks the profile first (which knows all points here).
HandleBinaryInput(known, p, v) == WriteRecord(known, p, v)
HandleBinaryOutputStatus(known, p, v) == WriteRecord(known, p, v)
HandleAnalogInput(known, p, v) == WriteRecord(EnrichAndValidate(known, p, v), p, v)
HandleAnalogOutputStatus(known, p, v) == WriteRecord(EnrichAndValidate(known, p, v), p, v)

Handled(known, p, v) ==
  CASE p \in BinaryInput -> HandleBinaryInput(known, p, v)
    [] p \in BinaryOutput -> HandleBinaryOutputStatus(known, p, v)
    [] p \in AnalogInput -> HandleAnalogInput(known, p, v)
    [] p \in AnalogOutput -> HandleAnalogOutputStatus(known, p, v)

\* A message is handled value by value, from the first one on.
HandledAll(known, values) == FoldLeft(LAMBDA k, u : Handled(k, u[1], u[2]), known, values)

Item == loop.script[loop.i]
Advanced == [loop EXCEPT !.i = @ + 1, !.waits = FALSE]

\* A write counts as sent once the outstation has accepted it.
Receive ==
  /\ wire # <<>>
  /\ LET known == HandledAll([latest |-> latest, outOfRange |-> outOfRange], Head(wire).values)
     IN  latest' = known.latest /\ outOfRange' = known.outOfRange
  /\ IF Head(wire).type = "answer"
     THEN /\ sent' = IF Item.op # "read" /\ Head(wire).status = "success"
                     THEN sent \cup {Item.point} ELSE sent
          /\ loop' = Advanced
     ELSE UNCHANGED <<sent, loop>>
  /\ reqs' = IF Head(wire).type = "report" THEN Append(reqs, [op |-> "confirm"]) ELSE reqs
  /\ wire' = Tail(wire)
  /\ UNCHANGED <<outVars, expected, scenario, notify, broken>>

-----------------------------------------------------------------------------
(* The control loop.                                                       *)

MutWriteAllAO ==
  SetToSeq({[op |-> "write_ao", point |-> a, value |-> expected[AoToAi[a]]] :
              a \in {b \in DOMAIN AoToAi : latest[AoToAi[b]] # expected[AoToAi[b]]}})

\* Outputs that were not sent since the reset, or whose readback is not known
\* or not what the profile says.
WriteAllAO ==
  SetToSeq({[op |-> "write_ao", point |-> a, value |-> expected[AoToAi[a]]] :
              a \in {b \in DOMAIN AoToAi :
                       b \notin sent \/ latest[AoToAi[b]] # expected[AoToAi[b]]}})

\* Inputs not known to be TRUE have their output written.
WriteBO ==
  SetToSeq({[op |-> "write_bo", point |-> BiToBo[i]] :
              i \in {j \in DOMAIN BiToBo : latest[j] # TRUE}})

MutReadEntries == <<>>
ReadEntries == [n \in 1 .. Entries |-> [op |-> "read"]]

Writers == <<"ao", "bo", "entries">>
Script(w) ==
  CASE w = "ao" -> WriteAllAO
    [] w = "bo" -> WriteBO
    [] w = "entries" -> ReadEntries

Passes == {"top", "periodic", "notified"}
\* All values have been asked for and not yet received.
Reconnecting ==
  \/ \E i \in DOMAIN reqs : reqs[i].op = "integrity"
  \/ \E i \in DOMAIN wire : wire[i].type = "integrity"

\* since: what broken was when the pass began, -1 if all values were yet to come
\* (no part of the code).
Pass(at) ==
  [at |-> at, writer |-> 0, script |-> <<>>, i |-> 1, waits |-> FALSE,
   since |-> IF Reconnecting THEN -1 ELSE broken]

\* What a writer does is settled when its turn comes.
BeginWriter ==
  /\ loop.at \in Passes /\ loop.writer < Len(Writers) /\ loop.i > Len(loop.script)
  /\ loop' = [loop EXCEPT !.writer = @ + 1, !.i = 1, !.script = Script(Writers[loop.writer + 1])]
  /\ UNCHANGED <<outVars, reqs, wire, latest, sent, outOfRange, expected, scenario, notify, broken>>

Request ==
  /\ loop.at \in Passes /\ loop.i <= Len(loop.script) /\ ~loop.waits
  /\ reqs' = Append(reqs, Item)
  /\ loop' = [loop EXCEPT !.waits = TRUE]
  /\ UNCHANGED <<outVars, wire, latest, sent, outOfRange, expected, scenario, notify, broken>>

After == [top |-> "select", periodic |-> "top", notified |-> "test"]

PassDone ==
  /\ loop.at \in Passes /\ loop.writer = Len(Writers) /\ loop.i > Len(loop.script)
  /\ loop' = [Pass(After[loop.at]) EXCEPT !.since = IF After[loop.at] = "test" THEN loop.since ELSE @]
  /\ UNCHANGED <<outVars, reqs, wire, latest, sent, outOfRange, expected, scenario, notify, broken>>

Timer ==
  /\ loop.at = "select"
  /\ loop' = Pass("periodic")
  /\ UNCHANGED <<outVars, reqs, wire, latest, sent, outOfRange, expected, scenario, notify, broken>>

Unknown == [p \in Point |-> Nothing]

\* reset_conformance_state, then a pass.
Notified ==
  /\ loop.at = "select" /\ notify
  /\ notify' = FALSE
  /\ latest' = Unknown /\ sent' = {} /\ outOfRange' = {}
  /\ loop' = Pass("notified")
  /\ UNCHANGED <<outVars, reqs, wire, expected, scenario, broken>>

\* The tests judge, and the next iteration begins.
Test ==
  /\ loop.at = "test"
  /\ loop' = Pass("top")
  /\ UNCHANGED <<outVars, reqs, wire, latest, sent, outOfRange, expected, scenario, notify, broken>>

\* new_scenario: the profile is replaced and the loop is told.
LoadScenario ==
  /\ scenario < Len(Plan)
  /\ scenario' = scenario + 1
  /\ expected' = Plan[scenario + 1]
  /\ notify' = TRUE
  /\ UNCHANGED <<outVars, reqs, wire, latest, sent, outOfRange, loop, broken>>

Loop == BeginWriter \/ Request \/ PassDone \/ Timer \/ Notified \/ Test

-----------------------------------------------------------------------------

\* What is on the connection is lost, the request that waits fails, and once
\* connected again all values are asked for.
Break ==
  /\ broken < Breaks
  /\ broken' = broken + 1
  /\ reqs' = <<[op |-> "integrity"]>>
  /\ wire' = <<>>
  /\ reported' = 0
  /\ loop' = IF loop.waits THEN Advanced ELSE loop
  /\ UNCHANGED <<inputs, statuses, operated, refused, changes, latest, sent, outOfRange,
                 expected, scenario, notify>>

Init ==
  /\ inputs = InitialInputs /\ statuses = InitialStatuses
  /\ operated = {} /\ refused = {}
  /\ changes = <<>> /\ reported = 0
  /\ reqs = <<[op |-> "integrity"]>> /\ wire = <<>>
  /\ latest = Unknown /\ sent = {} /\ outOfRange = {}
  /\ expected = Startup /\ scenario = 0 /\ notify = FALSE
  /\ broken = 0
  /\ loop = Pass("top")

Next == Serve \/ Receive \/ Loop \/ LoadScenario \/ Break

Spec == Init /\ [][Next]_vars

-----------------------------------------------------------------------------
(* The conformance tests (what they say of curves and schedules is in MuxLink). *)

\* The control station: inputs received, outputs sent, values in range.
AiReceived(p) == latest[p] # Nothing
BiReceived(p) == latest[p] # Nothing
AoSent(p) == p \in sent
BoSent(p) == p \in sent
AiInRange(p) == p \notin outOfRange
AoInRange(p) == p \notin outOfRange

Received(t) ==
  /\ \A p \in Tests[t].ai : AiReceived(p)
  /\ \A p \in Tests[t].bi : BiReceived(p)

Sent(t) ==
  /\ \A p \in Tests[t].ao : AoSent(p)
  /\ \A p \in Tests[t].bo : BoSent(p)

RunTest(t) ==
  /\ Received(t) /\ Sent(t)
  /\ \A p \in Tests[t].ai : AiInRange(p)
  /\ \A p \in Tests[t].ao : AoInRange(p)

\* The curve tests leave out the analog inputs, binary outputs and ranges, the schedule
\* tests the ranges.
CurveTest(t) ==
  /\ \A p \in Tests[t].bi : BiReceived(p)
  /\ \A p \in Tests[t].ao : AoSent(p)

ScheduleTest(t) == Received(t) /\ Sent(t)

StationPasses(t) ==
  CASE Tests[t].family = "mode" -> RunTest(t)
    [] Tests[t].family = "curve" -> CurveTest(t)
    [] Tests[t].family = "schedule" -> ScheduleTest(t)

\* The outstation: inputs in the profile, outputs operated, no value refused.
AiPresent(p) == p \in AnalogInput
BiPresent(p) == p \in BinaryInput
AoWritten(p) == p \in operated
BoWritten(p) == p \in operated
AoAccepted(p) == p \notin refused

OutstationPasses(t) ==
  /\ \A p \in Tests[t].ai : AiPresent(p)
  /\ \A p \in Tests[t].bi : BiPresent(p)
  /\ \A p \in Tests[t].ao : AoWritten(p) /\ AoAccepted(p)
  /\ \A p \in Tests[t].bo : BoWritten(p)

-----------------------------------------------------------------------------
(* Properties.                                                             *)

\* The loop judges a scenario: no other is waiting, and the connection held from
\* before the pass.  (If all values arrive within the pass, the writer of binary
\* outputs takes them for done; unlike the analog ones it does not ask what was
\* sent, and their tests fail.)
Judging == loop.at = "test" /\ ~notify /\ loop.since = broken

\* The binary outputs the control loop writes.
Latched == {BiToBo[i] : i \in DOMAIN BiToBo}

\* The verdict on a scenario depends on its profile alone, not on reports of
\* the last scenario that come late or on the loop's earlier passes: a test fails
\* exactly if one of its outputs is not the one written for the input that reads
\* it back, or has no such input, or the outstation refuses its value.
VerdictIsOfTheProfile ==
  Judging /\ Entries > 0 =>
    \A t \in DOMAIN Tests :
      StationPasses(t) <=>
        /\ \A a \in Tests[t].ao : a \in DOMAIN AoToAi /\ Within(AoBounds[a], expected[AoToAi[a]])
        /\ Tests[t].bo \subseteq Latched

\* When the tests judge, the outstation shows what the profile says, and the
\* control station has been told so after the last change.
OutputsFollowProfile ==
  Judging =>
    \A a \in DOMAIN AoToAi :
      Within(AoBounds[a], expected[AoToAi[a]]) =>
        /\ inputs[AoToAi[a]] = expected[AoToAi[a]]
        /\ Entries > 0 => latest[AoToAi[a]] = expected[AoToAi[a]]

\* What the control station counts as sent the outstation counts as operated:
\* a test that passes here for want of nothing passes there too, unless a value
\* was refused in an earlier scenario, which the outstation does not forget.
SidesAgree ==
  \A t \in DOMAIN Tests :
    StationPasses(t) => OutstationPasses(t) \/ Tests[t].ao \cap refused # {}

=============================================================================
