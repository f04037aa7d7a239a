------------------------------- MODULE MuxLink -------------------------------
(***************************************************************************)
(* The control loop of the control station writing curves and schedules to   *)
(* the outstation, and the copy of its databases it keeps from what the      *)
(* outstation reports (reference_control_station/src/control_loop.rs,        *)
(* data_handlers.rs, main.rs; reference_outstation/src/outstation.rs).       *)
(*                                                                         *)
(* All entries of a kind share their points, so what a reported value means  *)
(* depends on the selector of the moment, on both sides.  A request goes to  *)
(* the outstation, its answer comes back, and between answers the outstation *)
(* reports changes of its own accord, on one connection that keeps order and *)
(* may break.  The session of the outstation handles a request as one step;  *)
(* what happens inside it is in OutstationMux.                              *)
(***************************************************************************)
EXTENDS EntryDatabase, Integers, FiniteSets, SequencesExt

CONSTANTS
  Startup,  \* the profile both stations are started with: [SUBSET Kind -> Seq(entry)]
  Plan,     \* the profiles of the new_scenario commands, in order
  MostEntries, \* the most entries of a database: 100 in the code
  NA,       \* the transmitted value that means "not applicable" (i32::MIN)
  Breaks,   \* how often the connection may break
  Lag       \* how many requests it serves before a report that could go out

VARIABLES
  shown,    \* outstation: the analog inputs
  dbs,      \* outstation: the databases
  changes,  \* outstation: changes to be reported, oldest first
  reported, \* outstation: how many of them are in the report that is not confirmed
  late,     \* outstation: how many requests it served while a report could go out
  reqs,     \* requests and confirmations on their way to the outstation
  wire,     \* answers and reports on their way to the control station
  mirror,   \* control station: its copy of the databases
  latest,   \* control station: the selectors it was last told, since the reset
  sent,     \* control station: the selectors written with success since the reset
  profile,  \* control station: the profile in use
  scenario, \* control station: how many scenarios were loaded
  notify,   \* control station: a notification waits for the loop
  loop,     \* control station: where the control loop is
  broken    \* how often the connection broke

outVars == <<shown, dbs, changes, reported, late>>
linkVars == <<reqs, wire, broken>>
stationVars == <<mirror, latest, sent, profile, scenario, notify, loop>>
vars == <<shown, dbs, changes, reported, late, reqs, wire, mirror, latest, sent, profile,
          scenario, notify, loop, broken>>

Selector(k) == <<k, "selector", 0>>
Data(k, p) == <<k, p[1], p[2]>>
PointOf(port) == <<port[2], port[3]>>
IsSelector(port) == port[2] = "selector"

\* Both keep the limits of start-up.
Limit == Limits(Startup, MostEntries)

\* The inputs of the outstation: the selectors and what all entries share.
PointsOf(k) == IF Startup[k] = <<>> THEN {} ELSE DOMAIN Startup[k][1]
Ports ==
  UNION {{Selector(k)} \cup {Data(k, p) : p \in PointsOf(k)} : k \in DOMAIN Startup}

MutCapacity == Cardinality(Ports)

\* How many changes it keeps for its reports: twice as many as it has inputs.
Capacity == 2 * Cardinality(Ports)

\* The scenarios change values, drop entries or points, and repeat the last entry
\* once more than there is room for.
Profiles == {Startup} \cup ToSet(Plan)
IsEntry(k, entry) == entry \in [DOMAIN entry -> Int] /\ DOMAIN entry \subseteq PointsOf(k)

ASSUME LinkAssumption ==
  /\ MostEntries \in Nat \ {0} /\ Breaks \in Nat /\ Lag \in Nat
  /\ DOMAIN Startup \subseteq Kind
  /\ \A k \in DOMAIN Startup :
       /\ Startup[k] \in Seq([PointsOf(k) -> Int])
       /\ IsFiniteSet(PointsOf(k))
       /\ \A p \in PointsOf(k) : p = <<p[1], p[2]>> /\ p[1] # "selector"
  /\ Plan \in Seq(ToSet(Plan))
  /\ \A prof \in Profiles :
       /\ DOMAIN prof \subseteq DOMAIN Startup
       /\ \A k \in DOMAIN prof :
            /\ prof[k] \in Seq(ToSet(prof[k])) /\ \A n \in DOMAIN prof[k] : IsEntry(k, prof[k][n])
            /\ prof[k] # <<>> => Startup[k] # <<>>
            /\ \A n \in DOMAIN prof[k] : n > Limit[k] => prof[k][n] = prof[k][Limit[k]]

Databases(prof) ==
  [k \in Kind |-> FromProfile(IF k \in DOMAIN prof THEN prof[k] ELSE <<>>, Limit[k])]

-----------------------------------------------------------------------------
(* What the loop writes.  Each writer reads the profile when its turn comes. *)

Writers == <<"ao", "curves", "schedules_bc", "schedules">>

MutWriteEntrySelectsLast(k, entry, n, skipped) ==
  LET points == SetToSeq({p \in DOMAIN entry : entry[p] \notin skipped}) IN
  [i \in DOMAIN points |->
     [op |-> "write", port |-> Data(k, points[i]), value |-> entry[points[i]]]]
  \o <<[op |-> "follow", kind |-> k, number |-> n], [op |-> "read"],
       [op |-> "write", port |-> Selector(k), value |-> n]>>

\* One entry: its selector, its points one by one, then the copy follows and the
\* outstation is read.
WriteEntry(k, entry, n, skipped) ==
  LET points == SetToSeq({p \in DOMAIN entry : entry[p] \notin skipped}) IN
  <<[op |-> "write", port |-> Selector(k), value |-> n]>>
  \o [i \in DOMAIN points |->
        [op |-> "write", port |-> Data(k, points[i]), value |-> entry[points[i]]]]
  \o <<[op |-> "follow", kind |-> k, number |-> n], [op |-> "read"]>>

MutWriteEntriesFromZero(k, prof, skipped) ==
  IF k \in DOMAIN prof
  THEN FlattenSeq([n \in DOMAIN prof[k] |-> WriteEntry(k, prof[k][n], n - 1, skipped)])
  ELSE <<>>

WriteEntries(k, prof, skipped) ==
  IF k \in DOMAIN prof
  THEN FlattenSeq([n \in DOMAIN prof[k] |-> WriteEntry(k, prof[k][n], n, skipped)])
  ELSE <<>>

\* A selector is a base point whose value in the profile is 0: the writer of
\* base points writes that, unless it did and the readback agrees.
WriteAllAO(prof) ==
  LET due == {k \in DOMAIN prof : k \notin sent \/ latest[k] # 0} IN
  SetToSeq({[op |-> "write", port |-> Selector(k), value |-> 0] : k \in due})

WriteCurves(prof) == WriteEntries("curve", prof, {NA})
WriteSchedulesBC(prof) == WriteEntries("schedule_bc", prof, {})
WriteSchedules(prof) == WriteEntries("schedule", prof, {NA})

Script(w, prof) ==
  CASE w = "ao" -> WriteAllAO(prof)
    [] w = "curves" -> WriteCurves(prof)
    [] w = "schedules_bc" -> WriteSchedulesBC(prof)
    [] w = "schedules" -> WriteSchedules(prof)

-----------------------------------------------------------------------------
(* The outstation.                                                         *)

\* What an operate makes of the inputs and of the database of its kind: the
\* readback first, then multiplexing.
OperatedDb(port, v) ==
  LET db == dbs[port[1]] IN
  IF IsSelector(port) THEN SetActive(db, v)
  ELSE IF PointOf(port) \in Template(db) THEN UpdateValue(db, PointOf(port), v) ELSE db

OperatedInputs(port, v) ==
  LET readback == [shown EXCEPT ![port] = v]
      k == port[1] IN
  IF IsSelector(port) /\ Selectable(dbs[k], v)
  THEN [q \in DOMAIN shown |->
          IF q[1] = k /\ ~IsSelector(q) THEN OperatedDb(port, v).points[PointOf(q)]
          ELSE readback[q]]
  ELSE readback

\* Values come by index: selectors before the points of entries.
InOrder(ports) ==
  SetToSeq({q \in ports : IsSelector(q)}) \o SetToSeq({q \in ports : ~IsSelector(q)})

Values(ports, inputs) ==
  LET order == InOrder(ports) IN [i \in DOMAIN order |-> <<order[i], inputs[order[i]]>>]

\* Changes are reported in the order they were made: the readback of a selector,
\* then what it published; a point that is written changes alone.
ChangesOf(before, after) == Values({q \in Ports : before[q] # after[q]}, after)

Snapshot == Values(Ports, shown)

\* Between requests the session looks for changes to report, so that only few
\* requests come before a report that could go out.
Reportable == reported = 0 /\ changes # <<>>

ServeInTime ==
  /\ Reportable => late < Lag
  /\ late' = IF Reportable THEN late + 1 ELSE late

\* The oldest changes go when there is no room, even if they are in a report.
ServeOperate ==
  /\ reqs # <<>> /\ Head(reqs).op = "write"
  /\ LET r == Head(reqs)
         all == changes \o ChangesOf(shown, OperatedInputs(r.port, r.value))
         over == IF Len(all) > Capacity THEN Len(all) - Capacity ELSE 0 IN
     /\ shown' = OperatedInputs(r.port, r.value)
     /\ dbs' = [dbs EXCEPT ![r.port[1]] = OperatedDb(r.port, r.value)]
     /\ changes' = SubSeq(all, over + 1, Len(all))
     /\ reported' = IF reported > over THEN reported - over ELSE 0
  /\ ServeInTime
  /\ wire' = Append(wire, [type |-> "answer", values |-> <<>>])
  /\ reqs' = Tail(reqs)
  /\ UNCHANGED <<broken, stationVars>>

\* A class 0 read answers with the values there are; reports go their own way.
ServeRead ==
  /\ reqs # <<>> /\ Head(reqs).op = "read"
  /\ ServeInTime
  /\ wire' = Append(wire, [type |-> "answer", values |-> Snapshot])
  /\ reqs' = Tail(reqs)
  /\ UNCHANGED <<shown, dbs, changes, reported, broken, stationVars>>

\* Once connected, the control station asks for all values (changes that were
\* not confirmed are reported like any others).
ServeIntegrity ==
  /\ reqs # <<>> /\ Head(reqs).op = "integrity"
  /\ ServeInTime
  /\ wire' = Append(wire, [type |-> "integrity", values |-> Snapshot])
  /\ reqs' = Tail(reqs)
  /\ UNCHANGED <<shown, dbs, changes, reported, broken, stationVars>>

\* An unsolicited report holds what there is to report, until it is confirmed.
Report ==
  /\ Reportable
  /\ wire' = Append(wire, [type |-> "report", values |-> changes])
  /\ reported' = Len(changes) /\ late' = 0
  /\ UNCHANGED <<shown, dbs, changes, reqs, broken, stationVars>>

ServeConfirm ==
  /\ reqs # <<>> /\ Head(reqs).op = "confirm"
  /\ changes' = SubSeq(changes, reported + 1, Len(changes))
  /\ reported' = 0
  /\ reqs' = Tail(reqs)
  /\ UNCHANGED <<shown, dbs, late, wire, broken, stationVars>>

-----------------------------------------------------------------------------
(* What the control station makes of it.                                   *)

\* A selector that is a number of the database makes its entry the current one;
\* a point of the current entry is stored there; anything else is not kept.
Mirrored(m, port, v) ==
  LET k == port[1] IN
  IF IsSelector(port)
  THEN IF v \in 0 .. 65535 THEN [m EXCEPT ![k] = SetActive(@, v)] ELSE m
  ELSE IF PointOf(port) \in DOMAIN m[k].points
       THEN [m EXCEPT ![k] = UpdateValue(@, PointOf(port), v)]
       ELSE m

\* The values of a message are taken in one by one.
Heard(known, port, v) ==
  [mirror |-> Mirrored(known.mirror, port, v),
   latest |-> IF IsSelector(port) THEN [known.latest EXCEPT ![port[1]] = v] ELSE known.latest]

HeardAll(known, values) == FoldLeft(LAMBDA k, u : Heard(k, u[1], u[2]), known, values)

\* The loop goes on after an answer or a failure; a write that succeeded is
\* remembered if it was of a base point.
Advanced == [loop EXCEPT !.i = @ + 1, !.waits = FALSE]

Written == loop.script[loop.i]

Receive ==
  /\ wire # <<>>
  /\ LET m == Head(wire)
         known == HeardAll([mirror |-> mirror, latest |-> latest], m.values) IN
     /\ mirror' = known.mirror /\ latest' = known.latest
     /\ IF m.type = "integrity"
        THEN UNCHANGED <<sent, loop, reqs>>
        ELSE IF m.type = "answer"
        THEN /\ sent' = IF Written.op = "write" /\ IsSelector(Written.port)
                        THEN sent \cup {Written.port[1]} ELSE sent
             /\ loop' = Advanced
             /\ reqs' = reqs
        ELSE /\ reqs' = Append(reqs, [op |-> "confirm"])
             /\ UNCHANGED <<sent, loop>>
  /\ wire' = Tail(wire)
  /\ UNCHANGED <<outVars, broken, profile, scenario, notify>>

-----------------------------------------------------------------------------
(* The control loop.                                                       *)

\* since: what broken was when the pass began (no part of the code).
Pass(at) ==
  [at |-> at, writer |-> 0, script |-> <<>>, i |-> 1, waits |-> FALSE, since |-> broken]
Passes == {"top", "periodic", "notified"}

\* A writer reads the profile of the moment.
BeginWriter ==
  /\ loop.at \in Passes /\ loop.writer < Len(Writers) /\ loop.i > Len(loop.script)
  /\ loop' = [loop EXCEPT !.writer = @ + 1, !.i = 1,
                          !.script = Script(Writers[loop.writer + 1], profile)]
  /\ UNCHANGED <<outVars, linkVars, mirror, latest, sent, profile, scenario, notify>>

\* operate and read wait for their answer.
Request ==
  /\ loop.at \in Passes /\ loop.i <= Len(loop.script) /\ ~loop.waits
  /\ Written.op \in {"write", "read"}
  /\ reqs' = Append(reqs, Written)
  /\ loop' = [loop EXCEPT !.waits = TRUE]
  /\ UNCHANGED <<outVars, wire, broken, mirror, latest, sent, profile, scenario, notify>>

\* The copy is set to the entry that was written, before the read.
Follow ==
  /\ loop.at \in Passes /\ loop.i <= Len(loop.script)
  /\ Written.op = "follow"
  /\ mirror' = [mirror EXCEPT ![Written.kind] = SetActive(@, Written.number)]
  /\ loop' = Advanced
  /\ UNCHANGED <<outVars, linkVars, latest, sent, profile, scenario, notify>>

\* The pass of an iteration is followed by the wait, that of the interval by the
\* next iteration, that of a notification by the tests.
After == [top |-> "select", periodic |-> "top", notified |-> "test"]

PassDone ==
  /\ loop.at \in Passes /\ loop.writer = Len(Writers) /\ loop.i > Len(loop.script)
  /\ loop' = [Pass(After[loop.at]) EXCEPT !.since = IF After[loop.at] = "test" THEN loop.since ELSE @]
  /\ UNCHANGED <<outVars, linkVars, mirror, latest, sent, profile, scenario, notify>>

\* The interval has elapsed.
Timer ==
  /\ loop.at = "select"
  /\ loop' = Pass("periodic")
  /\ UNCHANGED <<outVars, linkVars, mirror, latest, sent, profile, scenario, notify>>

\* The tests read the copies; ControlLoop follows their results.
Test ==
  /\ loop.at = "test"
  /\ loop' = Pass("top")
  /\ UNCHANGED <<outVars, linkVars, mirror, latest, sent, profile, scenario, notify>>

NoneTold == [k \in Kind |-> -1]

\* A new scenario: what is known of the outstation is forgotten first.
Notified ==
  /\ loop.at = "select" /\ notify
  /\ notify' = FALSE
  /\ latest' = NoneTold
  /\ sent' = {}
  /\ loop' = Pass("notified")
  /\ UNCHANGED <<outVars, linkVars, mirror, profile, scenario>>

\* new_scenario: the copies are replaced, then the profile, then the loop is told.
\* A writer that begins in between could as well have begun before.
Load ==
  /\ scenario < Len(Plan)
  /\ scenario' = scenario + 1
  /\ profile' = Plan[scenario + 1]
  /\ mirror' = Databases(Plan[scenario + 1])
  /\ notify' = TRUE
  /\ UNCHANGED <<outVars, linkVars, latest, sent, loop>>

-----------------------------------------------------------------------------

\* The connection breaks: what was on it is lost, the request that waits fails
\* and the loop goes on; what was not confirmed will be reported again.
Break ==
  /\ broken < Breaks
  /\ broken' = broken + 1
  /\ reqs' = <<[op |-> "integrity"]>>
  /\ wire' = <<>>
  /\ reported' = 0 /\ late' = 0
  /\ loop' = IF loop.waits THEN Advanced ELSE loop
  /\ UNCHANGED <<shown, dbs, changes, mirror, latest, sent, profile, scenario, notify>>

Init ==
  /\ dbs = Databases(Startup)
  /\ shown = [port \in Ports |->
                IF IsSelector(port) THEN 0 ELSE dbs[port[1]].points[PointOf(port)]]
  /\ changes = <<>> /\ reported = 0 /\ late = 0
  /\ reqs = <<[op |-> "integrity"]>> /\ wire = <<>>
  /\ mirror = Databases(Startup)
  /\ latest = NoneTold
  /\ sent = {}
  /\ profile = Startup /\ scenario = 0 /\ notify = FALSE
  /\ broken = 0
  /\ loop = Pass("top")

Serve == ServeOperate \/ ServeRead \/ ServeIntegrity \/ ServeConfirm
Loop == BeginWriter \/ Request \/ Follow \/ PassDone \/ Test \/ Timer \/ Notified
Next == Serve \/ Report \/ Receive \/ Loop \/ Load \/ Break

Spec == Init /\ [][Next]_vars

-----------------------------------------------------------------------------
(* What the conformance tests say of the copy.                             *)

\* Something was received of every entry of the profile, and nothing but what the
\* profile says.
ReadBack(k) ==
  \A n \in DOMAIN profile[k] :
    LET received == Received(mirror[k], n) IN
    /\ n \in DOMAIN mirror[k].entries
    /\ received # NoPoints
    /\ \A p \in DOMAIN received \cap DOMAIN profile[k][n] : received[p] = profile[k][n][p]

ValidateCurves == "curve" \in DOMAIN profile => ReadBack("curve")
ValidateSchedulesBC == "schedule_bc" \in DOMAIN profile => ReadBack("schedule_bc")
ValidateSchedules == "schedule" \in DOMAIN profile => ReadBack("schedule")

-----------------------------------------------------------------------------
(* Properties.                                                             *)

\* The entries of a kind there is room for.
Room(k) == {n \in DOMAIN profile[k] : n <= Limit[k]}

\* The points of an entry that a pass writes.
Due(k, n) == {p \in DOMAIN profile[k][n] : k = "schedule_bc" \/ profile[k][n][p] # NA}

\* A scenario is tested after a pass of its own, and the connection held.
Tested == loop.at = "test" /\ ~notify /\ loop.since = broken

\* When the tests of a scenario run, the outstation holds what its profile says
\* in every entry: nothing that was written for one entry went to another.  An
\* entry too many goes to the last one, whose copy it is.
OutstationHasProfile ==
  Tested =>
    \A k \in DOMAIN profile : \A n \in Room(k) : \A p \in Due(k, n) :
      dbs[k].entries[n].value[p] = profile[k][n][p]

\* An entry more than the databases were made for fails the tests of its kind, as
\* the scenarios max_curves and max_schedules expect, whatever is received.
OneTooManyFails ==
  \A k \in DOMAIN profile : Len(profile[k]) > Limit[k] => ~ReadBack(k)

\* The copy has received it under the number of that entry: reports of earlier
\* entries, passes and scenarios that arrive late have not been mistaken for it.
\* Then only an entry too many can fail the tests, or a point of a profile that is
\* not applicable (the writer leaves it as it was, the tests compare it all the
\* same).
TestsSeeTheProfile ==
  Tested =>
    /\ \A k \in DOMAIN profile : \A n \in Room(k) : \A p \in Due(k, n) :
         /\ p \in DOMAIN Received(mirror[k], n)
         /\ Received(mirror[k], n)[p] = profile[k][n][p]
    /\ (\A k \in DOMAIN profile : \A n \in DOMAIN profile[k] :
          n \in Room(k) /\ Due(k, n) = DOMAIN profile[k][n])
         => ValidateCurves /\ ValidateSchedulesBC /\ ValidateSchedules
    /\ OneTooManyFails

\* When the loop reads an entry back, the outstation still has that entry selected,
\* although the reports of the last one may not have arrived.  As long as the
\* connection holds.
ReadFindsTheEntry ==
  loop.waits /\ Written.op = "read" /\ loop.since = broken =>
    LET followed == loop.script[loop.i - 1] IN
    followed.number <= Limit[followed.kind] => dbs[followed.kind].current = followed.number

=============================================================================
