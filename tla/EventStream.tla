----------------------------- MODULE EventStream -----------------------------
(***************************************************************************)
(* The event stream of one job: from the tasks that emit events, over the  *)
(* broadcast channel, to the pages that follow the job                     *)
(* (web_server/src/services/job_service.rs and process_manager.rs,         *)
(* web_server/src/routes/jobs.rs, TestRunnerTab.tsx).                      *)
(*                                                                         *)
(* The channel keeps its newest Cap events and forgets the rest; a         *)
(* receiver that falls behind goes on at the oldest one left.  It has no   *)
(* history, so two are kept beside it: the latest status of each process,  *)
(* written by the emitters, and a ring of the newest log lines, written by *)
(* a receiver of its own.  A page is first shown what these two held when  *)
(* it asked, then what the channel gives it.                               *)
(*                                                                         *)
(* When a task emits what is a matter of JobLifecycle and ScenarioRun;     *)
(* here it may emit whatever is its to emit, at any time.  Emitting is not *)
(* atomic: a task takes one step of it at a time, others come in between.  *)
(***************************************************************************)
EXTENDS Naturals, Sequences, FiniteSets, SequencesExt

CONSTANTS
  Station,  \* the stations the tool runs itself
  Page,     \* pages that may follow the job
  Cap,      \* EVENT_CHANNEL_CAPACITY
  RingCap,  \* LOG_BUFFER_CAPACITY
  MaxCalls  \* how often the tasks emit, but for finish_job; bounds the model

ASSUME EventStreamAssumption ==
  /\ Cap \in Nat \ {0} /\ RingCap \in Nat \ {0} /\ MaxCalls \in Nat
  /\ Station \cap {"test_runner", "background", "orchestrator", "stop"} = {}

Process == Station \cup {"test_runner"}
\* run_job_background, a finish_job, a stop_job, and for each station the task
\* that reads its output.
Task == Station \cup {"background", "orchestrator", "stop"}

VARIABLES
  todo,     \* what is left of the call each task is in: its steps
  calls,    \* how many calls are left; bounds the model
  inMap,    \* whether the JobState, which holds a Sender, is in the map
  sent,     \* everything sent on the channel
  statuses, \* current_statuses; a process without a status is "unknown"
  ring,     \* log_buffer, as positions in sent
  ringAt,   \* the next event the ring's receiver is to get; 0 when it ended
  page,     \* where each page is
  asked,    \* what subscribe_events has collected for it, and when
  pageAt,   \* the next event its receiver is to get
  lagged,   \* the receivers that have lost events
  pill,     \* the statuses a page shows
  shown     \* the log lines and results a page was given, as positions in sent

taskVars == <<todo, calls, inMap>>
ringVars == <<ring, ringAt>>
pageVars == <<page, asked, pageAt, pill, shown>>
vars == <<taskVars, sent, statuses, ringVars, pageVars, lagged>>

-----------------------------------------------------------------------------
(* Events, and the steps of a call.                                        *)

Log(who) == [kind |-> "log", process |-> who, status |-> "none"]
Result(who) == [kind |-> "result", process |-> who, status |-> "none"]
Update(q, s) == [kind |-> "status", process |-> q, status |-> s]

Send(event) == [do |-> "send", event |-> event]
Record(q, s) == [do |-> "record", event |-> Update(q, s)]

\* Mutant: the status is sent before it is recorded.
MutEmitStatus(q, s) == <<Send(Update(q, s)), Record(q, s)>>

EmitStatus(q, s) == <<Record(q, s), Send(Update(q, s))>>
TerminateAndEmit(q) == <<Send(Log("test_runner"))>> \o EmitStatus(q, "stopped")
ForwardLine(s) == <<Send(Log(s))>>
HandleConformanceEvent(s) == <<Send(Result(s)), Send(Log("test_runner"))>>

\* What run_job_background may emit, what stop_job, and what stream_output.
Calls(t) ==
  IF t = "background" THEN {EmitStatus(q, "running") : q \in Process}
  ELSE IF t = "stop" THEN {EmitStatus("test_runner", "stopped")}
                          \cup {TerminateAndEmit(s) : s \in Station}
  ELSE IF t \in Station THEN {ForwardLine(t), HandleConformanceEvent(t)}
  ELSE {}

NothingAsked ==
  [statuses |-> [q \in Process |-> "unknown"], since |-> 1, logs |-> <<>>, ringAt |-> 1, at |-> 1]

Init ==
  /\ todo = [t \in Task |-> <<>>]
  /\ calls = MaxCalls
  /\ inMap = TRUE
  /\ sent = <<>>
  /\ statuses = [q \in Process |-> "unknown"]
  /\ ring = <<>>
  /\ ringAt = 1
  /\ page = [p \in Page |-> "away"]
  /\ asked = [p \in Page |-> NothingAsked]
  /\ pageAt = [p \in Page |-> 1]
  /\ lagged = {}
  /\ pill = [p \in Page |-> [q \in Process |-> "unknown"]]
  /\ shown = [p \in Page |-> <<>>]

-----------------------------------------------------------------------------
(* The tasks.                                                              *)

\* A call begins.  What the streams have to send they have sent before the
\* end of finish_job, which joins them.
Call(t) ==
  /\ todo[t] = <<>> /\ calls > 0 /\ inMap
  /\ t \in Station => todo["orchestrator"] = <<>>
  /\ calls' = calls - 1
  /\ \E steps \in Calls(t) : todo' = [todo EXCEPT ![t] = steps]
  /\ UNCHANGED <<inMap, sent, statuses, ringVars, pageVars, lagged>>

\* finish_job, after it has joined the streams.
CallFinish ==
  /\ inMap /\ todo["orchestrator"] = <<>>
  /\ \A s \in Station : todo[s] = <<>>
  /\ todo' = [todo EXCEPT !["orchestrator"] = EmitStatus("test_runner", "finished")
                                                \o <<[do |-> "remove"]>>]
  /\ UNCHANGED <<calls, inMap, sent, statuses, ringVars, pageVars, lagged>>

At(t, do) == todo[t] # <<>> /\ Head(todo[t]).do = do
Done(t) == todo' = [todo EXCEPT ![t] = Tail(@)]

RecordStatus(t) ==
  LET e == Head(todo[t]).event IN
  /\ At(t, "record")
  /\ statuses' = [statuses EXCEPT ![e.process] = e.status]
  /\ Done(t)
  /\ UNCHANGED <<calls, inMap, sent, ringVars, pageVars, lagged>>

SendEvent(t) ==
  /\ At(t, "send")
  /\ sent' = Append(sent, Head(todo[t]).event)
  /\ Done(t)
  /\ UNCHANGED <<calls, inMap, statuses, ringVars, pageVars, lagged>>

RemoveJob ==
  /\ At("orchestrator", "remove")
  /\ inMap' = FALSE
  /\ Done("orchestrator")
  /\ UNCHANGED <<calls, sent, statuses, ringVars, pageVars, lagged>>

-----------------------------------------------------------------------------
(* The channel and its receivers.                                          *)

AtEnd == Len(sent) + 1
Oldest == IF Len(sent) > Cap THEN AtEnd - Cap ELSE 1

\* Mutant: the ring's task keeps a Sender of the channel it reads.
MutClosed == ~inMap /\ ringAt = 0

\* Every Sender is gone: that of the JobState, and those of the tasks.
Closed == ~inMap /\ \A t \in Task : todo[t] = <<>>

\* Mutant: a full ring takes no more lines.
MutPushBack(i) == IF Len(ring) >= RingCap THEN ring ELSE Append(ring, i)

PushBack(i) == Append(IF Len(ring) >= RingCap THEN Tail(ring) ELSE ring, i)

RingReceives ==
  /\ ringAt > 0 /\ ringAt \in Oldest .. Len(sent)
  /\ ring' = IF sent[ringAt].kind = "log" THEN PushBack(ringAt) ELSE ring
  /\ ringAt' = ringAt + 1
  /\ UNCHANGED <<taskVars, sent, statuses, pageVars, lagged>>

RingLags ==
  /\ ringAt > 0 /\ ringAt < Oldest
  /\ ringAt' = Oldest
  /\ lagged' = lagged \cup {"ring"}
  /\ UNCHANGED <<taskVars, sent, statuses, ring, pageVars>>

RingEnds ==
  /\ Closed /\ ringAt = AtEnd
  /\ ringAt' = 0
  /\ UNCHANGED <<taskVars, sent, statuses, ring, pageVars, lagged>>

\* subscribe_events, under the lock of the map: what the statuses are,
AskStatuses(p) ==
  /\ page[p] = "away" /\ inMap
  /\ page' = [page EXCEPT ![p] = "statuses"]
  /\ asked' = [asked EXCEPT ![p].statuses = statuses, ![p].since = AtEnd]
  /\ UNCHANGED <<taskVars, sent, statuses, ringVars, pageAt, pill, shown, lagged>>

\* what the ring holds,
AskLogs(p) ==
  /\ page[p] = "statuses"
  /\ page' = [page EXCEPT ![p] = "logs"]
  /\ asked' = [asked EXCEPT ![p].logs = ring, ![p].ringAt = ringAt]
  /\ UNCHANGED <<taskVars, sent, statuses, ringVars, pageAt, pill, shown, lagged>>

\* Mutant: a new receiver starts with what the channel still holds.
MutSubscribed == Oldest

Subscribed == AtEnd

\* and only then a receiver.  The stream opens, and gives the replay first.
Subscribe(p) ==
  /\ page[p] = "logs"
  /\ page' = [page EXCEPT ![p] = "open"]
  /\ asked' = [asked EXCEPT ![p].at = Subscribed, ![p].logs = <<>>,
                            ![p].statuses = NothingAsked.statuses]
  /\ pageAt' = [pageAt EXCEPT ![p] = Subscribed]
  /\ shown' = [shown EXCEPT ![p] = asked[p].logs]
  /\ pill' = [pill EXCEPT ![p] = [q \in Process |->
       IF asked[p].statuses[q] = "unknown" /\ q = "test_runner" THEN "started"
       ELSE asked[p].statuses[q]]]
  /\ UNCHANGED <<taskVars, sent, statuses, ringVars, lagged>>

\* There is no such job any more: the request is refused.
AskInVain(p) ==
  /\ page[p] = "away" /\ ~inMap
  /\ page' = [page EXCEPT ![p] = "closed"]
  /\ UNCHANGED <<taskVars, sent, statuses, ringVars, asked, pageAt, pill, shown, lagged>>

\* The page is given an event, and closes the stream when that is the end.
PageReceives(p) ==
  LET e == sent[pageAt[p]] IN
  /\ page[p] = "open" /\ pageAt[p] \in Oldest .. Len(sent)
  /\ pageAt' = [pageAt EXCEPT ![p] = @ + 1]
  /\ pill' = IF e.kind = "status" THEN [pill EXCEPT ![p][e.process] = e.status] ELSE pill
  /\ shown' = IF e.kind = "status" THEN shown ELSE [shown EXCEPT ![p] = Append(@, pageAt[p])]
  /\ page' = IF e = Update("test_runner", "finished") THEN [page EXCEPT ![p] = "closed"] ELSE page
  /\ UNCHANGED <<taskVars, sent, statuses, ringVars, asked, lagged>>

PageLags(p) ==
  /\ page[p] = "open" /\ pageAt[p] < Oldest
  /\ pageAt' = [pageAt EXCEPT ![p] = Oldest]
  /\ lagged' = lagged \cup {p}
  /\ UNCHANGED <<taskVars, sent, statuses, ringVars, page, asked, pill, shown>>

\* The channel is closed and read to its end: the stream ends.
StreamEnds(p) ==
  /\ page[p] = "open" /\ Closed /\ pageAt[p] = AtEnd
  /\ page' = [page EXCEPT ![p] = "closed"]
  /\ UNCHANGED <<taskVars, sent, statuses, ringVars, asked, pageAt, pill, shown, lagged>>

TaskSteps(t) == RecordStatus(t) \/ SendEvent(t)
RingSteps == RingReceives \/ RingLags \/ RingEnds
PageSteps(p) ==
  AskLogs(p) \/ Subscribe(p) \/ PageReceives(p) \/ PageLags(p) \/ StreamEnds(p)

Next ==
  \/ \E t \in Task : Call(t) \/ TaskSteps(t)
  \/ CallFinish \/ RemoveJob
  \/ RingSteps
  \/ \E p \in Page : AskStatuses(p) \/ AskInVain(p) \/ PageSteps(p)

\* A task that is in a call gets through it and returns, a receiver gets what
\* there is: none of them waits for anything but the runtime.  Nobody has to
\* finish or to stop the job, or to follow it.
Fairness ==
  /\ \A t \in Task : WF_vars(TaskSteps(t))
  /\ WF_vars(RingSteps)
  /\ \A p \in Page : WF_vars(PageSteps(p))

Spec == Init /\ [][Next]_vars /\ Fairness

-----------------------------------------------------------------------------
(* Properties.                                                             *)

\* Steps are those a call can have, positions are within what was sent, and the
\* ring is never over its size.
Status == {"unknown", "started", "running", "stopped", "finished"}
Event == [kind : {"log", "result"}, process : Process, status : {"none"}]
         \cup [kind : {"status"}, process : Process, status : Status]
Step == [do : {"send"}, event : Event] \cup [do : {"remove"}]
        \cup [do : {"record"}, event : [kind : {"status"}, process : Process, status : Status]]
TypeOK ==
  /\ todo \in [Task -> Seq(Step)] /\ calls \in 0 .. MaxCalls /\ inMap \in BOOLEAN
  /\ sent \in Seq(Event) /\ statuses \in [Process -> Status]
  /\ ring \in Seq(Nat) /\ Len(ring) <= RingCap /\ ringAt \in 0 .. AtEnd
  /\ lagged \subseteq Page \cup {"ring"}
  /\ page \in [Page -> {"away", "statuses", "logs", "open", "closed"}]
  /\ asked \in [Page -> [statuses : [Process -> Status], since : 1 .. AtEnd, logs : Seq(Nat),
                          ringAt : 0 .. AtEnd, at : 1 .. AtEnd]]
  /\ pageAt \in [Page -> 1 .. AtEnd]
  /\ pill \in [Page -> [Process -> Status]]
  /\ shown \in [Page -> Seq(Nat)]

\* A page is given log lines and results in the order they were sent and none
\* of them twice, although the first lines come from the ring and the others
\* from the channel, and a receiver that lags skips some.
ShownInOrder ==
  \A p \in Page : \A i, j \in DOMAIN shown[p] : i < j => shown[p][i] < shown[p][j]

\* Of what was sent since a page has its receiver nothing is missing, and of
\* the log lines before only those the ring had no room for, and those that were
\* on their way to the ring, or sent, while the page was between asking for the
\* ring and having a receiver; unless a receiver lagged.
InSeam(p, i) == i >= asked[p].ringAt /\ i < asked[p].at
OneHoleAtMost ==
  \A p \in Page : page[p] \in {"open", "closed"} /\ lagged \cap {p, "ring"} = {} =>
    LET replay == {i \in ToSet(shown[p]) : i < asked[p].at}
        missing == {i \in 1 .. pageAt[p] - 1 : sent[i].kind # "status"} \ ToSet(shown[p])
    IN \A i \in missing :
         /\ i < asked[p].at
         /\ \/ sent[i].kind = "result"
            \/ InSeam(p, i)
            \/ Cardinality(replay) = RingCap /\ \A k \in replay : i < k

\* What a page shows of a process is its status, whenever it asked: when it
\* has seen everything and nobody is about to emit one.  Except that the last
\* status may have been sent between asking for the statuses and having a
\* receiver, and that two tasks may send theirs in the other order.
SentOf(q) == {i \in 1 .. Len(sent) : sent[i].kind = "status" /\ sent[i].process = q}
Quiet(q) ==
  \A t \in Task : ~\E k \in DOMAIN todo[t] :
    todo[t][k].do # "remove" /\ todo[t][k].event.kind = "status" /\ todo[t][k].event.process = q
PillIsTrue ==
  \A p \in Page : page[p] = "open" /\ pageAt[p] = AtEnd /\ p \notin lagged =>
    \A q \in Process : (Quiet(q) /\ SentOf(q) # {}) =>
      LET last == CHOOSE i \in SentOf(q) : \A j \in SentOf(q) : j <= i IN
      \/ pill[p][q] = statuses[q]
      \/ last \in asked[p].since .. asked[p].at - 1
      \/ sent[last].status # statuses[q]

\* When finish_job has removed the job, the ring's task and every stream end.
StreamsEnd ==
  ~inMap ~> ringAt = 0 /\ \A p \in Page : page[p] \in {"away", "closed"}

=============================================================================
