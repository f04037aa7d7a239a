# A verification project for the IEEE 1815.2 test tool

The test tool runs a DNP3 *outstation* and a DNP3 *control station* as child
processes of a web server, feeds scenarios to the control station, and shows
the results of its conformance tests in a browser. This directory holds TLA+
models of the program, the TLC instances that check them, and proofs checked by
TLAPS.

All paths below are relative to `src/backend/src/` of the repository unless they
start with `src/`; JS is `web_server/src/services/job_service.rs`.

## 1. Inventory

| part | state it keeps | operations | hard behaviour | what makes it correct |
|---|---|---|---|---|
| **job service** (JS, `process_manager.rs`) | the map of jobs behind a mutex: status, cancel token, the two children, stdin, task handles, profile path, latest status per process | `create_job`, `run_job_background`, `stop_job`, `finish_job` | handlers, background task and orchestrator interleave at every await; the mutex is released between check and act | no process is lost; one job at a time; a job that is down has no process; what is shown is true; requests are answered |
| **scenario orchestration** (`run_all_scenarios_new_thread`, `stream_output`) | the scenario in progress, the results so far, a receiver of a bounded broadcast channel | send command, wait for results, time out, complete | subscribes after sending; lagging receivers lose events; 300 s timeout; two-second delay | a result counts for the scenario it belongs to; complete means all results; the run ends |
| **event stream** (`subscribe_events`, `spawn_log_buffer_task`, `src/frontend/src/components/test-runner-tab/TestRunnerTab.tsx`) | a ring of 500 log events, latest statuses, a channel of 256, what a page shows | emit, replay, follow, lag, end | statuses, ring and subscription are three steps; the ring has a task of its own | a page sees what was sent, in order, with the hole those three steps leave and no other; its pills end up true; it ends with the job |
| **reference control station** (`reference_control_station/src/`) | profile, index, databases, scenario id, `Notify`, what was sent and received | stdin task, control loop with five writers, read handlers, conformance tests | the profile is swapped under the loop; notifications coalesce; reports arrive between answers; the connection breaks | tests follow a complete pass of writers under the profile they report on, and judge that profile |
| **reference outstation** (`reference_outstation/src/`) | points, curve and schedule databases behind selectors, what was operated and refused | operate, feedback, multiplexing, publishing, new scenario | a load runs between the steps of an operate; a selector is narrowed to 16 bits | data goes to the selected entry; readbacks tell the truth; the points are those of the profile |
| **profile model** (`common/src/profile/`) | 1-based entry databases with a second copy of the current entry; points with limits and scaling | `set_active_entry`, `update_value`, `set_ai_point`, the rules of curves, schedules and meters, the index | two copies of an entry; rounding at the edge of 32 bits; roll-back of a refused change | copies agree; a refused change leaves no trace; an output means what its input means |
| **PICS validator** (`pics_validator/src/loader.rs`) | none that lasts | workbook to profile: key sheet, rows, records, scaling, synthesized ride-through curves and schedules | rows that fit nowhere; inconsistent key sheets; tables built twice by different code | no row is lost; curves and schedules agree; the loader does not unwind |
| **scenario generator** (`scenario_generator/src/`, `common/src/conformance_testing/point_lists.rs`) | none that lasts | prepare the base profile, change it for a scenario, expect verdicts | headroom at 32-bit limits; changes undone one by one; expectations from another profile than the job's | a job can begin every scenario; the announced verdict is what the stations come to |
| **profile store** (`web_server/src/routes/profiles.rs`) | files in `working/`, `profiles/`, `template/` | list, get, save, delete | layers that shadow each other; writes in place; a process that dies while it writes | what is saved is kept; seeds are those shipped; lists and loads agree |
| **launcher** (`launcher/src/`) | port settings in layers, data directory | `resolve_port`, `seed_data` | a copy that is cut off; upgrades over an existing directory | the user's working files survive |
| other routes, macros, the rest of the frontend, packaging | none that lasts | – | – | not modelled: section 8 |

How they interact: an HTTP handler calls the job service; the job service
prepares the profile with the scenario generator, spawns both stations and one
stream task per output pipe; the orchestrator writes `new_scenario <id>
<profile>` lines to the control station's stdin; the control station drives the
outstation over DNP3 and prints one line per conformance result; a stream task
turns lines into events of the job's broadcast channel; the orchestrator, the
log ring and each browser are receivers of it. Profiles come from the profile
store or, as workbooks, through the PICS validator.

## 2. Plan

Done:

1. `JobLifecycle`, `JobPromise` — the job service; `JobLifecycleProofs`.
2. `ControlLoop`, `ScenarioRun` — the orchestrator against the control station;
   `ScenarioRunProofs`.
3. `EntryDatabase`, `EntryStore`, `OutstationMux` — multiplexing in the
   outstation; `OutstationMuxProofs`.
4. `MuxLink`, `PointExchange` — the two stations composed over their connection;
   `MuxLinkProofs`, `PointExchangeProofs`.
5. `EventStream`; `EventStreamProofs`.
6. `ProfileStore`, with the launcher's seeding; `ProfileProofs`.
7. `ProfilePoints`, `PicsProfile`, `PicsLoader`, `ScenarioGenerator`,
   `ConformanceLists`, composed by `ProfilePipeline`; `ProfileProofs`, with those of
   `ProfileStore`.
8. `DataLemmas` — what the proofs need of sequences, folds and finite sets.

Left, most wanted first: for which `Lag` the copy of the control station has received
the profile (`TestsSeeTheProfile`), whatever its entries; and a condition on a workbook
under which `OutputsMeanTheSame` holds.

## 3. The modules and the code

One action is one critical section of a task together with the straight-line
code up to its next await, lock or file operation. Definitions keep the names
of the functions they model where they stand for one function; `PROJECT.json`
gives the lines of each.

### JobLifecycle

| variable | code |
|---|---|
| `status`, `token` | `JobState.status` ("absent": not in the map), `cancel_token` |
| `owner` | who holds each `Child` and `JoinHandle`: the background task's locals, the map, a `stop_job`, or the orchestrator in `finish_job` |
| `alive` | the operating system's processes |
| `profileFile` | the temporary profile written by `create_job` |
| `pill` | `JobState.current_statuses` |
| `request`, `bg` | the request and the place of `run_job_background` |
| `orch`, `left` | the place of the orchestrator and the scenarios left to it |
| `cpc`, `target`, `pending`, `creating` | each HTTP handler: in `create_job`, in `stop_job`, or in a `stop_job` called by `create_job` |

`RequestCreate`, `EnforceStop`, `EnforceGone`, `CreateInsert`, `CreateRejected`
are `create_job`; `StopBegin` (in `RequestStop` and `EnforceStop`),
`StopTerminate`, `StopJoin`, `StopMark` are `stop_job`; the `Bg*` actions are
`run_job_background` from the check of the binaries to the storing of the
handles, each with its failures; `Orch*` and `Finish*` are the orchestrator and
`finish_job`. `StationExits` is a station that exits by itself, which nobody
watches after start-up. Dropping a `Child` kills its process (`kill_on_drop`).

Abstracted: event payloads and log lines; which stream task is which (one
resource `streams`); the time that builds, port waits and joins take (each may
end at any moment, as success or failure).

### JobPromise

What a client may rely on: a job comes up once and goes down once, one job is up
at a time, a job that is down starts no process, and its processes disappear.
`JobLifecycle` maps to it with `procs <- alive` and `phase` computed from the
status.

### ControlLoop and ScenarioRun

`ControlLoop` is the control station's process: `StdinSwap` (the command parses:
databases, profile and index are replaced), `StdinAnnounce` (scenario id, then
`notify_one`), `StdinRefuse`; and the loop, whose passes over the five writers
are `LoopWrite`, whose select is `LoopTimer` and `LoopNotified` (with
`reset_conformance_state`), and whose tests are `LoopTest`. `written` counts
writers in the pass, `next` the tests in the run. The locks of databases, profile
and index are taken one after the other in the code and together in `StdinSwap`:
a writer that reads between two of them mixes the old and the new scenario as a
pass that straddles the swap does, and the reset that follows forgets both.

A scenario is its place in the plan, so two runs of one scenario differ.
`evidence` collects the scenarios whose profile a writer read since the last
reset: it stands for `sent_ao_indices`, `sent_bo_indices`, the received values
and the violations, of which the properties only ask whose they are. Each
result carries the evidence it rests on (a history the code does not keep) and
the id it was tagged with (which it does).

`ScenarioRun` adds the orchestrator (`Orch*`), the `Stream` task and the
channel, whose receiver keeps the newest `ChannelCapacity` events (`Newest`).
A line of output that is no result is not modelled, except for the log event
that accompanies each result: it takes a place in the channel too. The
outstation's own conformance loop tags its results with the empty id, since only
the control station is sent commands; the orchestrator ignores them.

`CycleFits` is the one assumption on time: TRUE means that the timeout of
300 s fires only when no result of the scenario can come any more. Both runs
take it; section 7 says what happens without it.

### EntryDatabase, EntryStore, OutstationMux

`EntryDatabase` has the operations of `indexed_db.rs` as operators on a record
`[entries, points, current, max]`: `FromProfile`, `SetActive` (which makes an
entry of a number that has none, `Blank`), `UpdateValue`, and the fields of the
three kinds of entries. `points` is the second copy of the current entry.

`OutstationMux` is the two tasks of the outstation. The session of the DNP3
library operates one output at a time, in the steps `Operate` (bounds, tracking),
`Feedback` (the input that reads the output back), `Mux*` (the database of the
kind: a selector selects, other points are stored) and `Publish` (the inputs of
the entry selected). The reader of stdin loads a scenario in the steps
`RemovePoints`, `AddPoints`, `Replace*`, `SwapProfile`, `SwapIndex`,
`ClearTracking`, one per transaction or lock. Any step of the one may come
between any two of the other.

`EntryStore` is what multiplexing promises: a store of numbered entries, one of
them active, of which the points are a window; a step selects, writes one point
of the active entry, or replaces a kind. `Store` in `OutstationMux` is the
refinement mapping: an entry that was not made yet is one of zeros. It covers
the kinds that every scenario has entries of.

### MuxLink

The control loop's three writers of entries (`WriteCurves`, `WriteSchedulesBC`,
`WriteSchedules`) against the outstation over one ordered connection. `reqs` and
`wire` are the two directions. `Serve*` is the outstation's session, a request at
a time; `Report` its unsolicited responses, made of the changes it keeps
(`changes`, at most `Capacity`) until they are confirmed (`ServeConfirm`), and never
more than `Lag` requests late;
`Receive` the control station's read handler, which files a value under the entry
its mirror has selected (`Mirrored`). `BeginWriter`, `Request`, `Follow`,
`PassDone`, `Test`, `Timer`, `Notified` are the loop; `Load` the command on
stdin; `Break` a lost connection, after which the master reads everything again.

### PointExchange

The same two stations for base outputs and binary outputs: `WriteAllAO` writes
what was not sent or reads back differently; `WriteBO` goes by the inputs, and writes for
each that does not read as on its output, of several outputs with that input the last
(`BiToBo`, of `profile_index.rs`); the outstation
refuses a value out of range (`OperateAnalog`) and reads outputs back as inputs;
the handlers record `latest`, `outOfRange`, `sent`. `StationPasses` and
`OutstationPasses` are the tests of the two sides, in the three families of
`conformance.rs`. `Entries` is how many class 0 reads the writers of entries make.

### ProfilePoints, PicsProfile, PicsLoader, ScenarioGenerator, ConformanceLists, ProfilePipeline

The data a job runs on, as operators: `ProfilePoints` the arithmetic of one
point (engineering value, multiplier, offset, 32-bit value, rounding, limits);
`PicsProfile` records and their rules, `SetAiPoint` with its roll-back, the index
that pairs outputs with inputs; `PicsLoader` from the rows of a workbook to a
profile, `Refused`, or `Panic` where the code unwinds; `ScenarioGenerator` the
preparation of the base profile, the change of each scenario, and the verdicts
expected; `ConformanceLists` the points of each test. Engineering values are
counted in hundredths.

`ProfilePipeline` composes them as the web server does, with `stage` for how far
a profile has come: `Import`, `AddCurve` (the editor's default curve),
`CreateJob`, `BeginScenario`, then `MovePoint` for each point that the scenario
changes with a random value, `EndUpdate`. `Outcome` reduces what the two stations make
of a scenario to what the tests look at; `PointExchange` and `MuxLink` have the
exchange itself.

### ProfileStore

Every request is cut at each file operation: `ListWorking`, `ListSeeds`,
`ListTemplate`; `GetLooks` along the layers, `GetReads`; `SaveOpens` (the file is
empty), `SaveWrites`; `DeleteLooks`, `DeleteRefuses`, `DeleteRemoves`. `Launch`,
`CopyBegins`, `CopyEnds` are the seeding, `Start`, `Stop` (at any moment, also in
the middle of a write or a copy) and `Upgrade` the process. A file is the content
at its head and its length, so that a short content over a long one is not
readable. `settled` and `touched` are histories: what a save or delete that no
other ran into left on disk, and which names others changed since a client's request
began.

### EventStream

`todo[t]` is what a task has still to do of the call it is in; `Call` begins one
of `emit_status_update`, `terminate_and_emit`, `stream_output` or
`handle_conformance_event`, whose steps `RecordStatus` (the map) and `SendEvent`
(the channel) are separate in the code. When a task calls is left open, except
that `CallFinish` comes after the streams are joined; `RemoveJob` ends it.
`sent` is everything ever sent; a receiver is a position in it, and lags when it
is further back than `Cap`. `RingReceives`, `RingLags`, `RingEnds` are
`spawn_log_buffer_task`; `AskStatuses`, `AskLogs`, `Subscribe` are
`subscribe_events` in its order; `PageReceives`, `PageLags`, `StreamEnds`,
`AskInVain` are the stream and the page.

## 4. The runs

| run | instance | shows |
|---|---|---|
| `concurrent` | 1 job, 2 handlers, every choice of stations with 0..2 scenarios, crashes, impatient clients | `NoOrphanProcess`, `FailedIsDead`, `DeadPillIsTrue`, `ProfileFileRemoved`, `RemovedStaysRemoved` |
| `patient` | 2 jobs, 1 client that makes no request while a job is coming up, crashes | the service implements `JobPromise` (`KeepsPromise`); with fairness `DownMeansDead`, `ScenarioJobsEnd`, `RequestsReturn` |
| `plan` | 4 scenarios (one of them twice, the one without expected tests last), 2 tests, channel of 3, faults, a stop at any time | `ResultsAreOwn`, `CompleteIsEarned`, `SendsToIdle`; with fairness `RunEnds`, `NotifiedRuns` |
| `mux` | 2 scenarios (two curves and a schedule; one curve of another point), a selector of 4 numbers, databases of 3 entries, values 2 and 5 of which 5 is out of bounds, 2 loads | `WindowShowsActive`, `SelectorNamesActive`, `CacheAgrees`, `PointsFollowProfile`; it implements `EntryStore` |
| `link` | three curves of one point and room for three, a scenario that changes two of them, one with a curve too many, one break of the connection | `ReadFindsTheEntry`, `OutstationHasProfile`, `TestsSeeTheProfile` |
| `points` | 2 analog outputs, 3 binary ones of which one is not read back and one shares its input with the first, 6 tests, 2 scenarios of which the last is refused for one output, 2 breaks | `VerdictIsOfTheProfile`, `OutputsFollowProfile`, `SidesAgree` |
| `data` | 13 workbooks, 2 selections of scenarios, all 9 scenarios | `RowsKept`, `OutputsMeanTheSame`, `SchedulesWriteTheirCurves`, `RoomIsMade`, `ScenariosCanBegin`, `SelectorsStay`, `ExpectationsMet` |
| `store` | 2 clients, 4 names and a bad one, a short and a long content, 2 versions | `WorkIsKept`, `SeedsAreShipped`, `LoadsAreCurrent`, `ListsMatchLoads` |
| `stream` | 1 page, 1 station, 2 calls and the end of the job, channel of 4, ring of 1 | `ShownInOrder`, `OneHoleAtMost`, `PillIsTrue`; with fairness `StreamsEnd` |
| `leak`, `early`, `scaling` | as above | disagreements of comments and code, section 7 |

Bounds, and why they are enough:

* *Jobs and handlers.* Job ids are used once, so two jobs show every interaction
  of an old job with its successor; a third would meet the second as the second
  meets the first. Two handlers are the least that interfere with each other; the
  third kind of actor, background task and orchestrator, is there once per job.
  Two scenarios distinguish first, middle and last of the orchestrator's loop.
* *plan.* Two tests distinguish "some" from "all" results, and with four events to
  a run of the tests a channel of three overflows.
* *mux.* The databases have an entry of the profile, one that is made when it is
  selected, and a number out of range; the value 5 is narrowed to 1, so a selector
  out of range can come back as a valid one; the scenarios differ in the points
  and in the number of their entries; two loads give one that begins from a loaded
  scenario.
* *link.* Three entries are the least at which a late report matters: what was
  written to the second then finds the copy at the third, and with two it would be
  filed under the first, which the next pass writes again. `Lag` bounds how many
  requests the outstation serves before a report that is due: its session looks
  for changes between requests, so one or two; the properties hold up to 6 on this
  instance, and at 8 `TestsSeeTheProfile` fails, a whole pass late. The room for
  changes is the code's, twice the number of analog inputs.
* *link* and *points.* One break already puts a complete read between any two
  messages. In `points` the second break comes after the first was repaired, and
  the capacity of the outstation's changes (20) is not reached.
* *data.* The widths are smaller than 32 bits, so that a value fits TLC's integers
  when counted in hundredths; the workbooks are a full one, one with one of
  everything, and one for each way in which a workbook can be at an edge: coarse
  scaling, a slot cut off, no curves or schedules, a value at the limit, a meter that
  lacks a point on the sheet of the analog inputs, of the binary inputs or of the
  analog outputs, a missing key, no limits, a multiplier of zero, an output
  whose limits leave no value once room is made.
* *store.* A name that is seeded, one that only the second version seeds, the
  bundled template and a name that equals its own; the second version also ships a
  working profile, which must not arrive. Contents differ in length, so a file can be torn.
  The clients are symmetric.
* *stream.* Six events are more than channel and ring hold together, so that the
  page lags, the ring lags, and the ring drops its oldest.

Symmetry is used in `concurrent` and `store`, which check no liveness.

Deadlock is not checked in `plan`, `early`, `stream`, `data` and `scaling`, where
the system ends: a run of scenarios is over when the orchestrator is done and the
station has exited, a stream when the job has left the map, a profile when its
scenario has been prepared. It is checked in all others: a client may always send
a request, and the stations' loops never end.

## 5. Fairness

Weak fairness of each task: tokio polls a task again when what it awaits is
there, and every await of the modelled tasks ends, by a timeout (joins, port
wait, termination, results) or because a local operation ends (a cargo build is
taken to end). In `EventStream` that is each emitting task, the task of the ring, and each
page's stream. No fairness is given to requests, cancellations, calls, particular
failures, or exits of a station. `LoopNotified` is strongly fair: the select
polls its branches in random order, and the permit waits in the `Notify`, so a
loop that comes back to the select again and again takes it.

The other modules state no fairness and no liveness: `OutstationMux`, `MuxLink`,
`PointExchange`, `ProfileStore` and `ProfilePipeline` are about what may be seen, not about
when.

## 6. Proofs

Each proof is for every value of the constants that satisfies the named assumption.

| theorem | module | argument |
|---|---|---|
| `TypeCorrect` | `JobLifecycleProofs` | inductive as it stands |
| `ProcessesAreKept` (`NoOrphanProcess`) | `JobLifecycleProofs` | needs `Startup`: a job is in the map until its background task has stored its children, because only the orchestrator removes it and that is spawned after the store |
| `RemovedJobsStayRemoved` (`RemovedStaysRemoved`) | `JobLifecycleProofs` | from `KeepInv`: only `CreateInsert` makes an absent job present, and only once |
| `FailedJobsAreDead` (`FailedIsDead`) | `JobLifecycleProofs` | `HeldAtHome`: nobody but the background task holds a station of a job that is coming up, so by `NoOrphanProcess` what `BgAbort` kills is all there is; `NotYetAlive`: nothing is up in the phases that lead straight to "fail" |
| `DeadPillsAreTrue` (`DeadPillIsTrue`) | `JobLifecycleProofs` | relative to `NotYetAlive`: an error is shown before the process was spawned, stopped only after it was killed |
| `ProfileFilesAreRemoved` (`ProfileFileRemoved`) | `JobLifecycleProofs` | `CleanedInv`: between the removal of the file and the mark nobody writes it again, since the job is `Created` |
| `PromiseIsKept` (`KeepsPromise`) | `JobLifecycleProofs` | `TurnsInv`: clients and background task take turns, so that `create_job` has stopped every active job it saw and none is active when it inserts; a job is Starting until its station is stored, and not active when its orchestrator removes it. Every step is then one of `JobPromise` or none. For `OneClient`, one patient client, as in the run `patient`: an impatient one breaks the promise, as `leak` shows |
| `TypeCorrect` | `ScenarioRunProofs` | the channel keeps results and log events, whatever `Newest` drops |
| `ResultsStayOwn` (`ResultsAreOwn`), `SendsFindIdle` (`SendsToIdle`) | `ScenarioRunProofs` | `Turns`: a command is coming (nothing is printed), the tests are running (in order, all evidence its own), or the station is quiet; the orchestrator leaves a scenario only when the last test has come, which is the last thing the station does for it |
| `CompletesAreEarned` (`CompleteIsEarned`) | `ScenarioRunProofs` | `EarnedInv`: a wait ends as resolved, is shown as a timeout, or expected nothing; so for any plan and any timeout |
| `TypeCorrect`, `PagesAreInOrder` (`ShownInOrder`) | `EventStreamProofs` | `AllInOrder`: ring, snapshot and page are increasing, and each ends before the position from which its owner goes on reading |
| `HolesAreSeams` (`OneHoleAtMost`) | `EventStreamProofs` | `HoleInv`: the ring holds the newest lines up to where it reads, so the snapshot of a page begins where the ring was full and ends where it had come to; what it had not read was sent before the page's channel was opened only if it lies in the seam |
| `PillsAreTrue` (`PillIsTrue`) | `EventStreamProofs` | `PillInv`: every call records a status before it sends it, so a page knows a status that was sent before it asked; and what it reads afterwards it shows |
| `TypeCorrect`, `SentWasOperated` (`SidesAgree`) | `PointExchangeProofs` | `Link`: one request is open; its answer says what the outstation has; what is on the wire and what is still to be reported ends, for each point, with the value of the input, so that whatever is received last is true; an output counted as sent was operated |
| `PassFinishes`, `ProfileIsFollowed` (`OutputsFollowProfile`), `VerdictOfProfile` (`VerdictIsOfTheProfile`) | `PointExchangeProofs` | `PassInv`: if neither a notification nor a lost connection came since the pass began (`Undisturbed`), the pass has done what its writers are for (`ToldSo`): nothing counted as sent when it began, so `WriteAllAO` wrote every analog output; no binary value had come, so `WriteBO` wrote one output for every binary input that has any (`Latched`); and each read was answered with everything there is |
| `TypeCorrect`, `TooManyNeverPass` (`OneTooManyFails`) | `MuxLinkProofs` | `OneOpen`: the one request that is open is the item the loop waits for; `RoomIsKept`: an entry beyond the limit is never current and nothing of it is marked as received |
| `ReadsFindTheirEntry` (`ReadFindsTheEntry`) | `MuxLinkProofs` | `Selected`: the outstation is with the item of the script the loop is at, or one ahead while the answer is on its way (`Reached`); the entry it has current is where the script's last selection lands (`Landing`: an entry there is no room for lands on the last). Needs what the script is: each entry is selected after the one before it (`Entries`) |
| `ProfileArrives` (`OutstationHasProfile`) | `MuxLinkProofs` | `Holding`: in a scenario's own pass the writers before have put all they had to and the present one as far as it is `Reached`; what is held stays, because a later point that lands in the same place has the same value |
| `TypeCorrect`, `CachesAgree`, `PointsFollow`, `WindowsShowActive`, `SelectorsNameActive` | `OutstationMuxProofs` | `Invariant`: databases are `WellFormed`, and the points are those of the scenario the load has come to; `Untouched`, as long as nothing was loaded: inputs and databases agree except for the input that an operate is changing and the kind it is about to publish. Narrowing does no harm because no database has as many entries as a narrowed selector counts |
| `Implements` (`ImplementsStore`) | `OutstationMuxProofs` | `Contained`: the entries of a database are all of one scenario's points, and the active number is within the limit; then selecting, writing and replacing are the store's steps and everything else leaves the databases alone |
| `WorkKept` (`WorkIsKept`), `SeedsShipped` (`SeedsAreShipped`) | `ProfileProofs` | `Shape`: no request is served while the directory is seeded, and a seeding never touches `working`; `Copied`: what the seeding has passed is whole, and what it has not is still to be copied |
| `ProfilesSound` | `ProfileProofs` | `IInv`, from the workbook to the scenario: what is loaded, prepared and updated is a profile that `validate()` accepts (`Sound`), and while points are moved the profile has the same points in the same places as the prepared one (`Alike`). Of the loader it is proved that whatever it makes of a workbook has been validated last (`LoadedIsValid`) and is a profile, or there is none (`LoadTyped`: sorting, splitting into instances, scaling, and the folds that clone curves and schedules for each ride-through mode go from typed points to typed points, and a header that is looked into is long enough: a curve's four points, a schedule's ten and eleven are there or nothing is made); of the preparation that an engineering limit goes back to the integer it comes from (`RoundTrip`, `RoundedFits`) and that room is made outside curves, schedules and meters only (`OnlyLimits`); of `set_ai_point` that what it keeps is valid; of the clones of curves and schedules that their points are found where they were (`Repeats`) and that selectors may show more; of the bundled profile's remainder that its selectors show the first entry at most |
| `RoomMade` (`RoomIsMade`) | `ProfileProofs` | `PreparedIsSound`: if no point is refused the whole is valid, and a point is refused only if it is one of those `NoRoom` names |
| `ScenariosBegin` (`ScenariosCanBegin`) | `ProfileProofs` | part of `IInv`: each of the nine changes leaves a sound profile, so the validation after it never fails |
| `SelectorsKept` (`SelectorsStay`) | `ProfileProofs` | `Updates` in `IInv`: a point is found by its index (`FindsFirst`), and replacing it leaves every other point where it is, so the set of selectors stays as in the prepared profile |
| `NoRowLost` (`RowsKept`) | `ProfileProofs` | `LoadTyped`, of the loader alone. Rows outside curves and schedules: each of the three classifications sends a point to one kind (`OfKindIs`, `OfBiAoTyped`); the gaps of the indexes split what is of one kind into instances whose points together are the points put in (`Putting`, step by step of the fold), and an instance of the wrong size sets the error (`EquipmentKeeps`; `LoadKeeps`, `BiKeeps`, `AoKeeps` for each of the sheets); the later scaling keeps the places of the outputs (`SameOutputs`). Curves and schedules: `Entry` puts row h + (k - 1) n + c of a section in column c of slot k (`Holds`); scaling a curve or a schedule, clearing its readiness, and cloning it for a ride-through mode keep that (`Copies`, `Templates`), and outside the ride-through modes no whole slot is dropped (`Completes`) |
| `LoadsCurrent` (`LoadsAreCurrent`), `ListsCurrent` (`ListsMatchLoads`) | `ProfileProofs` | `SoFar`: what a request has seen of the directories behind it is still so, as long as nobody touched the name |

Assumptions: `JobLifecycleAssumption` (handlers, roles and the absent job are
different things, and requests are what the API accepts); `ControlLoopAssumption`,
`ScenarioRunAssumption`; `EventStreamAssumption`; `ProfileAssumption` (entries of
a profile share their points, and hold what can be written) and `StartAssumption`
(a database has at least one entry, and fewer than a narrowed selector counts: 100
and 65 536 in the code); `StoreAssumption`; `PointsAssumption` (the four kinds of points are different and
finitely many, no two analog outputs are read back by one input, the output written for a
binary input is one that it reads back, the outstation starts
with values within the inputs' limits, and a value that an output accepts is
within the limits of its input, which have the output's limits or wider ones);
`LinkAssumption` (all entries of start-up have the same points, a scenario's profile
has some of these, and an entry there is no room for repeats the last one there is
room for, as the scenarios `max_curves` and `max_schedules` do: such an entry is
written over the last, and one with other values would destroy it); and
`TestsAssumption` (the tests are of the three families of `conformance.rs` and
name points of the profile); `WidthAssumption` (the integers that are sent have some
width; 32 bits in the code) and `RefusedAssumption` (a refusal is not a point); and
`ScalingAssumption` (the fixed limits that `scale_curve.rs` gives the points of curves
fit the width of an integer) and
`ProfilesAssumption` (what is uploaded is a workbook, `IsWorkbook`: each sheet a sequence of
labels and rows, a cell that is read a number or `Blank`, as `cell_float_required` and
`cell_i32_required` give them; nothing is assumed of what the loader makes of it; the bundled profile is valid, as `data/profiles/full.json` is when it is loaded, and its
selectors show the first entry at most, as they do there). `ResultsStayOwn` and `SendsFindIdle`
also assume `Waits`: the timeout is longer than the station's cycle, and every
scenario that is followed by another expects the last of the tests. All scenarios
of `scenario_generator/src/scenarios.rs` expect every test except the two
functional ones, which expect none; the run `early` shows what happens when one
of those is not the last.

`DataLemmas` has what the proofs need of data and the prover's library does not
give directly: an induction over sets of numbers (the library's schemes take an
operator as a parameter), from it that a fold over a sequence is a function of
its elements in their order and that one whose steps stay in a set ends in it, that the elements of a finite set can be put into a
sequence, and that a set of bounded numbers has a largest; queues; and that a
sequence of sequences is flattened by adding one after the other, so that
`MuxLinkProofs` can say of a whole script what each entry adds to it, and
`ProfileProofs` where among all points of a profile the first with an index is. `HandledAll`,
by which the control station takes in a message, is a fold: `PointExchangeProofs`
shows that it leaves the last value of each point, and all others alone.

Only model-checked: liveness (the prover does not reason about fairness); of
`MuxLink`, that the copy of the control station has received the profile
(`TestsSeeTheProfile`), which rests on how soon changes are reported (section 4); and of
`ProfilePipeline`

* `OutputsMeanTheSame` and `SchedulesWriteTheirCurves`, which are not true of every
  workbook: a step whose output number has a fraction names no output when it is scaled,
  and steps beyond the slots of the template are left out without a word. The runs show
  them of the bundled rows and of each way to get some of these wrong;
* `ExpectationsMet`, which is about the bundled profile and the lists of points of the
  tests, thirty sets of numbers, and what each workbook has of them.

## 7. Disagreements between comments and code

With a run that violates the property that states the comment (the line of the
comment is quoted in `PROJECT.json`):

* `leak` — `run_job_background` does not look at the cancel token: a job stopped
  while it starts reports Stopped while its stations come up.
* `early` — after a scenario without expected tests the next command is sent two
  seconds later whatever the control station does: its profile is swapped in the
  middle of a cycle, whose tests then count for it.
* `scaling` — the loader unwinds on a schedule that writes an output a value
  outside the output's limits.

Seen while modelling, part of the models, without a run of their own:

* Job service: a job stopped while it starts becomes Running again, next to its
  successor (JS:830). `create_job` means to enforce a single job (JS:159) but lets go of
  the map between looking for active jobs and inserting its own: two clients at the
  same moment have two active jobs. After a failure with the outstation up, the outstation stays
  shown as running in a failed job (JS:719). `finish_job` waits for the task it
  runs in, until the join's timeout of five seconds. `finish_job` cancels the token
  right after it terminated the children, and `stream_output` may take its cancelled
  branch with lines unread, although the comment at JS:1422 says it avoids that.
* Orchestrator: after the 300 s timeout, late results of the old cycle are tagged
  with and counted for the next scenario. Conformance tests do not run at the end
  of each iteration of the control loop but of notified ones only.
* Event stream: what is sent between the snapshots and the subscription (JS:388 to
  428) reaches no page that asks in between, although pills and panes are to reflect the
  current state; two tasks that emit a status of `test_runner` may send in the
  opposite order of their entries in the map; results and scenario statuses are not
  replayed; the streams of a job that was stopped or failed never end, since only
  `finish_job` removes its state.
* Outstation: a selector out of range is read back while the old entry stays active;
  `ao_range_violations` is not cleared by a later value in range, although
  `conformance.rs` speaks of the most recent command.
* Control station: the writer of binary outputs has no counterpart of "was it sent
  since the reset", so after a reconnection in the wrong moment nothing is sent and
  the tests fail.
* Profiles: the doc of `validation.rs` (165 to 168) has the profile load with 0 as a
  placeholder where `load` returns an error. Rows that do not fill a slot of a curve or
  schedule are lost without a word. The clamping of values while the base profile is prepared
  never applies, since `set_eng_bounds` refuses first: a base value at a 32-bit limit refuses the
  whole job. With a multiplier above 1 a value one unit out of range rounds back into it, and the
  tests of the bounds scenarios pass. Points of equipment, curves and schedules
  get no headroom. `start_time` is checked twice and `stop_time` never. The
  expectations are those of `full.json`, not of the job's profile. An added default
  curve whose points have no outputs fails the curve tests. The loader also panics
  for a named template without the selectors or slots it synthesizes from.
* Profile store: a profile saved as "template" is listed twice, and a load finds the
  bundled one. Two overlapping saves of one name may leave a torn file though both
  were answered "saved"; so may a crash. The launcher's binary is a stub:
  `seed_data` is reached by its tests only, and `src/installer/launch.cmd` does the same copy.

## 8. Not modelled

* Pulses, the status AlreadyExecuting, freezing of counters and time
  synchronisation of the outstation: the control station as shipped sends latches
  and analog values only, and no profile configures counters. (A pulse's timer and the
  end of a range of frozen counters would deserve a model if that changed.)
* The DNP3 library: of it the stations use ordered requests and responses,
  unsolicited reports with confirmation, and transactions; so much is in `MuxLink`,
  `PointExchange` and `OutstationMux`.
* The cargo builds of a developer's checkout beyond their success or failure.
* The web server's router, health and enum routes, start-up checks: static answers.
* The launcher's layers of port settings: a merge of options without state.
* The checks of a workbook's headers (`validators.rs`, `schema.rs`), the reading
  of its cells, and the counter sheet, which nothing downstream reads.
* The wording of log lines, comments of results, JSON records; procedural macros;
  the frontend except for what its test runner tab does with events; packaging
  and data files.
