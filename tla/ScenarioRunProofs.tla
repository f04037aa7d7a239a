-------------------------- MODULE ScenarioRunProofs --------------------------
(***************************************************************************)
(* Proofs about ScenarioRun, for any plan, any number of tests, and a      *)
(* channel of any size.                                                    *)
(***************************************************************************)
EXTENDS ScenarioRun, TLAPS

-----------------------------------------------------------------------------
(* Types.                                                                  *)

Event == Result \cup {Log}

\* The plan is a sequence of scenarios, each of which is waited for in its way.
LEMMA PlanIsSequence ==
  /\ Len(Plan) \in Nat /\ DOMAIN Plan = 1 .. Len(Plan)
  /\ \A n \in 1 .. Len(Plan) : n \in Step /\ Expected[Plan[n]] \subseteq Test
  /\ 0 \in Step
BY ControlLoopAssumption, ScenarioRunAssumption DEF Step

\* The last test is one.
LEMMA TestsAreCounted == TestCount \in Nat /\ 1 \in Test /\ TestCount \in Test
BY ControlLoopAssumption DEF Test

\* A log event is not a result.
LEMMA LogIsNoResult == Log \notin Result
<1>1. ASSUME NEW e \in Result PROVE e # Log
  <2>1. "test" \in DOMAIN e
    BY DEF Result
  <2>2. DOMAIN Log = {"log"}
    BY DEF Log
  <2>3. QED
    BY <2>1, <2>2
<1>2. QED
  BY <1>1

\* What is left of the events in a channel are some of them.
LEMMA NewestIsPart ==
  ASSUME NEW S, NEW events \in Seq(S)
  PROVE  /\ Newest(events) \in Seq(S)
         /\ \A i \in 1 .. Len(Newest(events)) : \E j \in 1 .. Len(events) : Newest(events)[i] = events[j]
<1>1. Len(events) \in Nat /\ ChannelCapacity \in Nat \ {0}
  BY ScenarioRunAssumption
<1>2. CASE Len(events) <= ChannelCapacity
  BY <1>1, <1>2 DEF Newest
<1>3. CASE ~(Len(events) <= ChannelCapacity)
  <2> DEFINE from == Len(events) - ChannelCapacity + 1
  <2>1. Newest(events) = SubSeq(events, from, Len(events))
    BY <1>3 DEF Newest
  <2>2. from \in 1 .. Len(events)
    BY <1>1, <1>3
  <2>3. SubSeq(events, from, Len(events)) = [i \in 1 .. (Len(events) - from + 1) |-> events[from + i - 1]]
    BY <2>2, <1>1
  <2>4. Len(SubSeq(events, from, Len(events))) = Len(events) - from + 1
    BY <2>2, <1>1
  <2>5. \A i \in 1 .. (Len(events) - from + 1) : from + i - 1 \in 1 .. Len(events)
    BY <2>2, <1>1
  <2>6. SubSeq(events, from, Len(events)) \in Seq(S)
    BY <2>2, <1>1
  <2> HIDE DEF from
  <2>7. QED
    BY <2>1, <2>3, <2>4, <2>5, <2>6
<1>4. QED
  BY <1>2, <1>3

\* The steps of the station keep its types.
LEMMA StationTypes == ASSUME StationTypeOK, StationNext PROVE StationTypeOK'
<1> USE DEF StationTypeOK
<1>1. CASE StdinSwap
  <2>1. Head(stdin) \in Step /\ Tail(stdin) \in Seq(Step \ {0})
    BY <1>1 DEF StdinSwap
  <2>2. QED
    BY <1>1, <2>1 DEF StdinSwap
<1>2. CASE StdinAnnounce
  BY <1>2, PlanIsSequence DEF StdinAnnounce
<1>3. CASE StdinRefuse
  <2>1. Tail(stdin) \in Seq(Step \ {0})
    BY <1>3 DEF StdinRefuse
  <2>2. QED
    BY <1>3, <2>1 DEF StdinRefuse
<1>4. CASE LoopWrite
  <2>1. Len(Writer) = 5
    BY DEF Writer
  <2>2. AfterWrites[lpc] \in {"select", "top", "test"} /\ lpc \in {"top", "periodic", "notified"}
    BY <1>4 DEF LoopWrite, AfterWrites
  <2>3. written' \in 0 .. 4 /\ (lpc' \in {"select", "test"} => written' = 0)
    BY <1>4, <2>1, <2>2 DEF LoopWrite
  <2>4. evidence' \in SUBSET Step
    BY <1>4 DEF LoopWrite
  <2>5. lpc' # "test" => next' = 1
    BY <1>4, <2>2 DEF LoopWrite
  <2>6. lpc' \in {"top", "select", "periodic", "notified", "test"}
    BY <1>4, <2>2 DEF LoopWrite
  <2>7. QED
    BY <1>4, <2>1, <2>3, <2>4, <2>5, <2>6 DEF LoopWrite
<1>5. CASE LoopTimer
  BY <1>5 DEF LoopTimer
<1>6. CASE LoopNotified
  BY <1>6 DEF LoopNotified
<1>7. CASE LoopTest
  <2>1. [test |-> next, tag |-> tag, evidence |-> evidence] \in Result
    BY DEF Result
  <2>2. stdout' \in Seq(Result)
    BY <1>7, <2>1 DEF LoopTest
  <2>3. next' \in Test /\ (lpc' # "test" => next' = 1)
    BY <1>7, TestsAreCounted DEF LoopTest, Test
  <2>4. lpc' \in {"top", "test"} /\ written' = 0
    BY <1>7 DEF LoopTest
  <2>5. QED
    BY <1>7, <2>2, <2>3, <2>4 DEF LoopTest, Writer
<1>8. CASE Exit
  BY <1>8 DEF Exit
<1>9. QED
  BY <1>1, <1>2, <1>3, <1>4, <1>5, <1>6, <1>7, <1>8 DEF StationNext, StdinStep, LoopStep

\* The steps of the orchestrator keep the types.
LEMMA OrchTypes == ASSUME TypeOK, OrchStep PROVE TypeOK'
<1>1. CASE OrchSend
  <2>1. cur \in Step \ {0}
    BY <1>1, PlanIsSequence DEF OrchSend, TypeOK, Step
  <2>2. stdin' \in Seq(Step \ {0})
    BY <1>1, <2>1 DEF OrchSend, TypeOK, StationTypeOK
  <2>3. StationTypeOK'
    BY <1>1, <2>2 DEF OrchSend, TypeOK, StationTypeOK
  <2>4. QED
    BY <1>1, <2>1, <2>3 DEF OrchSend, TypeOK
<1>2. CASE OrchError
  <2>1. cur \in Step \ {0} /\ cur + 1 \in 1 .. Len(Plan) + 1
    BY <1>2, PlanIsSequence DEF OrchError, TypeOK, Step
  <2>2. QED
    BY <1>2, <2>1 DEF OrchError, TypeOK, StationTypeOK, stationVars
<1>3. CASE OrchSubscribe
  BY <1>3 DEF OrchSubscribe, TypeOK, StationTypeOK, stationVars
<1>4. CASE OrchReceive
  <2>1. Head(channel) \in Event /\ Tail(channel) \in Seq(Event)
    BY <1>4 DEF OrchReceive, TypeOK, Event
  <2>2. Head(channel) # Log => Head(channel).evidence \in SUBSET Step
    BY <2>1 DEF Event, Result
  <2>3. results' \in [Test -> SUBSET Step]
    BY <1>4, <2>2 DEF OrchReceive, TypeOK
  <2>4. QED
    BY <1>4, <2>1, <2>3 DEF OrchReceive, TypeOK, StationTypeOK, stationVars, Event
<1>5. ASSUME OrchTimeout \/ OrchDelay \/ OrchCancelled \/ OrchFinish \/ OrchComplete PROVE TypeOK'
  <2>1. StationTypeOK' /\ results' \in [Test -> SUBSET Step] /\ cancelled' \in BOOLEAN
    BY <1>5 DEF OrchTimeout, OrchDelay, OrchCancelled, OrchFinish, OrchComplete, TypeOK, StationTypeOK, stationVars
  <2>2. subscribed' \in BOOLEAN /\ channel' \in Seq(Event)
    <3>1. subscribed' \in {subscribed, FALSE} /\ channel' \in {channel, <<>>}
      BY <1>5 DEF OrchTimeout, OrchDelay, OrchCancelled, OrchFinish, OrchComplete
    <3>2. <<>> \in Seq(Event)
      OBVIOUS
    <3>3. QED
      BY <3>1, <3>2 DEF TypeOK, Event
  <2>3. opc \in {"wait", "delay", "ending"} => cur \in Step \ {0}
    BY PlanIsSequence DEF TypeOK, Step
  <2>4. shown' \in SUBSET (Step \X {"starting", "error", "timeout", "complete"})
    BY <1>5, <2>3 DEF OrchTimeout, OrchDelay, OrchCancelled, OrchFinish, OrchComplete, TypeOK
  <2>5. OrchComplete => cur' = cur + 1 /\ cur \in 1 .. Len(Plan) /\ opc' = "loop"
    BY <2>3 DEF OrchComplete, TypeOK
  <2>6. ~OrchComplete => cur' = cur /\ opc' \in {"ending", "cancelled", "done"} /\ (opc' = "ending" => opc \in {"wait", "delay"})
    BY <1>5 DEF OrchTimeout, OrchDelay, OrchCancelled, OrchFinish
  <2>7. QED
    BY <2>1, <2>2, <2>4, <2>5, <2>6, PlanIsSequence DEF TypeOK, Event
<1>6. QED
  BY <1>1, <1>2, <1>3, <1>4, <1>5 DEF OrchStep

\* So does the stream task, which passes on what the station prints.
LEMMA StreamTypes == ASSUME TypeOK, Stream PROVE TypeOK'
<1>1. Head(stdout) \in Result /\ Tail(stdout) \in Seq(Result)
  BY DEF Stream, TypeOK, StationTypeOK
<1>2. <<Head(stdout), Log>> \in Seq(Event)
  BY <1>1 DEF Event
<1>3. channel \o <<Head(stdout), Log>> \in Seq(Event)
  BY <1>2 DEF TypeOK, Event
<1>4. channel' \in Seq(Event)
  BY <1>3, NewestIsPart DEF Stream, TypeOK, Event
<1>5. QED
  BY <1>1, <1>4 DEF Stream, TypeOK, StationTypeOK, Event

\* The variables of the run and of the station keep their types.
THEOREM TypeCorrect == Spec => []TypeOK
<1>1. Init => TypeOK
  <2> SUFFICES ASSUME Init PROVE TypeOK
    OBVIOUS
  <2>1. Len(Writer) = 5
    BY DEF Writer
  <2>2. <<>> \in Seq(Step \ {0}) /\ <<>> \in Seq(Result) /\ <<>> \in Seq(Event)
    OBVIOUS
  <2>3. StationTypeOK
    <3>1. StationInit
      BY DEF Init
    <3>2. IdOf(0) \in {IdOf(n) : n \in Step} /\ 0 \in Step /\ 0 \in 0 .. Len(Writer) - 1
      BY <2>1, PlanIsSequence
    <3>3. 1 \in Test
      BY TestsAreCounted
    <3> HIDE DEF Init
    <3>4. QED
      BY <2>2, <3>1, <3>2, <3>3 DEF StationInit, StationTypeOK
  <2>4. cur = 1 /\ 1 \in 1 .. Len(Plan) + 1 /\ opc = "loop"
    BY PlanIsSequence DEF Init
  <2>5. QED
    BY <2>2, <2>3, <2>4 DEF Init, TypeOK, Event
<1>2. TypeOK /\ [Next]_vars => TypeOK'
  <2> SUFFICES ASSUME TypeOK, [Next]_vars PROVE TypeOK'
    OBVIOUS
  <2>1. CASE UNCHANGED vars
    BY <2>1 DEF vars, stationVars, runVars, TypeOK, StationTypeOK
  <2>2. CASE Cancel
    BY <2>2 DEF Cancel, stationVars, TypeOK, StationTypeOK
  <2>3. CASE StationNext /\ UNCHANGED runVars
    BY <2>3, StationTypes DEF runVars, TypeOK
  <2>4. QED
    BY <2>1, <2>2, <2>3, OrchTypes, StreamTypes DEF Next
<1>3. QED
  BY <1>1, <1>2, PTL DEF Spec

-----------------------------------------------------------------------------
(* The answers of a scenario are its own.                                  *)

\* A scenario that is followed by another one waits for the last of the tests,
\* and for longer than the station's cycle takes.
Waits == CycleFits /\ \A n \in 1 .. Len(Plan) : n < Len(Plan) => TestCount \in Expected[Plan[n]]

\* The station owes nothing to any command.
Quiet == stdin = <<>> /\ loading = 0 /\ ~permit /\ lpc \notin {"notified", "test"}
Rested == (up => Quiet) /\ stdout = <<>>

\* The command of the scenario that runs is on its way to the control loop.
Coming ==
  /\ lpc \notin {"notified", "test"}
  /\ \/ stdin = <<cur>> /\ loading = 0 /\ ~permit
     \/ stdin = <<>> /\ loading = cur /\ profile = cur /\ ~permit
     \/ stdin = <<>> /\ loading = 0 /\ profile = cur /\ permit

\* The loop works on it: what it has written since the reset is of its profile.
Testing ==
  /\ stdin = <<>> /\ loading = 0 /\ ~permit
  /\ lpc \in {"notified", "test"} /\ profile = cur /\ evidence \subseteq {cur}

\* What the station has answered: nothing; something, but not the last test;
\* everything, the last test behind the others.
NothingOut ==
  /\ stdout = <<>>
  /\ opc = "wait" => channel = <<>> /\ \A t \in Test : results[t] = {}

OwnOut ==
  /\ \A i \in 1 .. Len(stdout) : stdout[i].evidence \subseteq {cur}
  /\ opc = "wait" =>
       /\ \A i \in 1 .. Len(channel) : channel[i] # Log => channel[i].evidence \subseteq {cur}
       /\ \A t \in Test : results[t] \subseteq {cur}

LastIn ==
  opc = "wait" /\ \/ \E i \in 1 .. Len(channel) : channel[i] # Log /\ channel[i].test = TestCount
                  \/ results[TestCount] # {}

LastOut == LastIn \/ \E i \in 1 .. Len(stdout) : stdout[i].test = TestCount

InOrder ==
  /\ \A i \in 1 .. Len(stdout) : stdout[i].test = TestCount => i = Len(stdout)
  /\ LastIn => stdout = <<>>

Answering ==
  \/ Coming /\ NothingOut
  \/ Testing /\ OwnOut /\ ~LastOut /\ (lpc = "notified" => NothingOut)
  \/ Quiet /\ OwnOut /\ InOrder

Turns ==
  /\ opc \in {"sent", "wait"} => Answering
  /\ opc = "ending" =>
       /\ cur < Len(Plan) => Rested
       /\ \A t \in Expected[Plan[cur]] : results[t] \subseteq {cur}
  /\ opc = "delay" => cur = Len(Plan) /\ Expected[Plan[cur]] = {}
  /\ opc = "loop" /\ cur <= Len(Plan) => Rested

\* A station that owes nothing prints nothing.
LEMMA QuietStays ==
  ASSUME TypeOK, Quiet, StationNext
  PROVE  Quiet' /\ stdout' = stdout
<1>1. CASE StdinStep
  BY <1>1 DEF StdinStep, StdinSwap, StdinAnnounce, StdinRefuse, Quiet
<1>2. CASE LoopStep
  BY <1>2 DEF LoopStep, LoopWrite, LoopTimer, LoopNotified, LoopTest, AfterWrites, Quiet
<1>3. CASE Exit
  BY <1>3 DEF Exit, Quiet
<1>4. QED
  BY <1>1, <1>2, <1>3 DEF StationNext

\* Nor does one that has exited.
LEMMA RestedStays == ASSUME TypeOK, Rested, StationNext PROVE Rested'
<1>1. up
  BY DEF StationNext, StdinStep, StdinSwap, StdinAnnounce, StdinRefuse,
         LoopStep, LoopWrite, LoopTimer, LoopNotified, LoopTest, Exit
<1>2. QED
  BY <1>1, QuietStays DEF Rested

\* What has been received is as it was, unless the orchestrator runs.
LEMMA ReceivedStays ==
  ASSUME UNCHANGED runVars
  PROVE  /\ LastIn' = LastIn
         /\ stdout' = stdout => /\ NothingOut' = NothingOut /\ OwnOut' = OwnOut
                                /\ LastOut' = LastOut /\ InOrder' = InOrder
BY DEF runVars, LastIn, NothingOut, OwnOut, LastOut, InOrder

\* While nothing is out, nothing is out of order.
LEMMA NothingIsOwn ==
  ASSUME TypeOK, NothingOut
  PROVE  OwnOut /\ ~LastOut /\ InOrder
<1>1. stdout = <<>> /\ Len(stdout) = 0
  BY DEF NothingOut
<1>2. opc = "wait" => Len(channel) = 0 /\ \A t \in Test : results[t] = {}
  BY DEF NothingOut
<1>3. QED
  BY <1>1, <1>2, TestsAreCounted DEF OwnOut, LastOut, LastIn, InOrder

\* A command on its way is refused, or reaches the loop.
LEMMA ComingGoesOn ==
  ASSUME TypeOK, Coming, NothingOut, StationNext, UNCHANGED runVars, cur # 0
  PROVE  Answering'
<1>1. stdout' = stdout /\ cur' = cur
  BY DEF StationNext, StdinStep, StdinSwap, StdinAnnounce, StdinRefuse,
         LoopStep, LoopWrite, LoopTimer, LoopNotified, LoopTest, Exit, Coming, runVars
<1>2. NothingOut' /\ OwnOut' /\ ~LastOut' /\ InOrder'
  BY <1>1, NothingIsOwn, ReceivedStays
<1>3. CASE StdinSwap
  BY <1>1, <1>2, <1>3 DEF StdinSwap, Coming, Answering
<1>4. CASE StdinAnnounce
  BY <1>1, <1>2, <1>4 DEF StdinAnnounce, Coming, Answering
<1>5. CASE StdinRefuse
  <2>1. stdin = <<cur>> /\ loading = 0 /\ ~permit
    BY <1>5 DEF StdinRefuse, Coming
  <2>2. Tail(<<cur>>) = <<>>
    OBVIOUS
  <2>3. Quiet'
    BY <1>5, <2>1, <2>2 DEF StdinRefuse, Coming, Quiet
  <2>4. QED
    BY <1>2, <2>3 DEF Answering
<1>6. CASE LoopWrite \/ LoopTimer \/ LoopTest \/ Exit
  BY <1>1, <1>2, <1>6 DEF LoopWrite, LoopTimer, LoopTest, Exit, AfterWrites, Coming, Answering
<1>7. CASE LoopNotified
  BY <1>1, <1>2, <1>7 DEF LoopNotified, Coming, Answering, Testing
<1>8. QED
  BY <1>3, <1>4, <1>5, <1>6, <1>7 DEF StationNext, StdinStep, LoopStep

\* One pass of the writers, one run of the tests, each printed once.
LEMMA TestingGoesOn ==
  ASSUME TypeOK, Testing, OwnOut, ~LastOut, lpc = "notified" => NothingOut, StationNext, UNCHANGED runVars
  PROVE  Answering'
<1>1. cur' = cur
  BY DEF runVars
<1>2. CASE LoopWrite
  <2>1. stdout' = stdout /\ evidence' \subseteq {cur} /\ lpc' \in {"notified", "test"} /\ lpc = "notified"
    BY <1>2 DEF LoopWrite, Testing, AfterWrites
  <2>2. QED
    BY <1>1, <1>2, <2>1, ReceivedStays DEF LoopWrite, Testing, Answering
<1>3. CASE LoopTest
  <2> DEFINE e == [test |-> next, tag |-> tag, evidence |-> evidence]
  <2>1. stdout' = Append(stdout, e) /\ stdout \in Seq(Result) /\ lpc = "test"
    BY <1>3 DEF LoopTest, TypeOK, StationTypeOK
  <2>2. /\ Len(stdout') = Len(stdout) + 1 /\ Len(stdout) \in Nat
        /\ stdout'[Len(stdout) + 1] = e
        /\ \A i \in 1 .. Len(stdout) : stdout'[i] = stdout[i]
    BY <2>1
  <2>3. e.evidence \subseteq {cur} /\ e.test = next
    BY DEF Testing
  <2> HIDE DEF e
  <2>4. \A i \in 1 .. Len(stdout') : stdout'[i].evidence \subseteq {cur}
    BY <2>2, <2>3 DEF OwnOut
  <2>5. OwnOut'
    BY <1>1, <2>4 DEF OwnOut, runVars
  <2>6. ~LastIn'
    BY ReceivedStays DEF LastOut
  <2>7. \A i \in 1 .. Len(stdout) : stdout'[i].test # TestCount
    BY <2>2 DEF LastOut
  <2>8. CASE next < TestCount
    <3>1. e.test # TestCount
      BY <2>3, <2>8, TestsAreCounted DEF TypeOK, StationTypeOK, Test
    <3>2. ~LastOut'
      BY <2>2, <2>6, <2>7, <3>1 DEF LastOut
    <3>3. Testing' /\ lpc' = "test"
      BY <1>1, <1>3, <2>8 DEF LoopTest, Testing
    <3>4. QED
      BY <2>5, <3>2, <3>3 DEF Answering
  <2>9. CASE ~(next < TestCount)
    <3>1. Quiet'
      BY <1>3, <2>9 DEF LoopTest, Testing, Quiet
    <3>2. InOrder'
      BY <2>2, <2>6, <2>7 DEF InOrder
    <3>3. QED
      BY <2>5, <3>1, <3>2 DEF Answering
  <2>10. QED
    BY <2>8, <2>9
<1>4. CASE Exit
  BY <1>1, <1>4, ReceivedStays DEF Exit, Testing, Answering
<1>5. QED
  BY <1>2, <1>3, <1>4 DEF StationNext, StdinStep, StdinSwap, StdinAnnounce, StdinRefuse,
                          LoopStep, LoopTimer, LoopNotified, Testing

\* The steps of the station.
LEMMA StationTurns == ASSUME TypeOK, Turns, StationNext, UNCHANGED runVars PROVE Turns'
<1>1. ASSUME Answering, opc \in {"sent", "wait"} PROVE Answering'
  <2>1. cur # 0
    BY DEF TypeOK
  <2>2. CASE Quiet /\ OwnOut /\ InOrder
    BY <2>2, QuietStays, ReceivedStays DEF Answering
  <2>3. QED
    BY <1>1, <2>1, <2>2, ComingGoesOn, TestingGoesOn DEF Answering
<1>2. QED
  BY <1>1, RestedStays DEF Turns, runVars

\* The stream task hands on what was printed first.
LEMMA StreamTurns == ASSUME TypeOK, Turns, Stream PROVE Turns'
<1> DEFINE h == Head(stdout)
<1>1. /\ stdout # <<>> /\ stdout \in Seq(Result) /\ stdout' = Tail(stdout) /\ h = stdout[1]
      /\ UNCHANGED <<up, stdin, loading, profile, permit, lpc, evidence, opc, cur, results>>
  BY DEF Stream, TypeOK, StationTypeOK
<1>2. /\ Len(stdout) \in Nat \ {0} /\ Len(stdout') = Len(stdout) - 1
      /\ \A i \in 1 .. Len(stdout') : stdout'[i] = stdout[i + 1] /\ i + 1 \in 1 .. Len(stdout)
      /\ h \in Result
  BY <1>1
<1>3. ~Rested
  BY <1>1 DEF Rested
<1>4. \A i \in 1 .. Len(channel') : \/ channel'[i] \in {h, Log}
                                    \/ \E j \in 1 .. Len(channel) : channel'[i] = channel[j]
  <2> DEFINE more == channel \o <<h, Log>>
  <2>1. channel \in Seq(Event) /\ <<h, Log>> \in Seq(Event) /\ more \in Seq(Event)
    BY <1>2 DEF TypeOK, Event
  <2>2. Len(more) = Len(channel) + 2 /\ Len(channel) \in Nat
    BY <2>1
  <2>3. \A j \in 1 .. Len(more) : more[j] = IF j <= Len(channel) THEN channel[j] ELSE <<h, Log>>[j - Len(channel)]
    BY <2>1
  <2>4. \A j \in 1 .. Len(more) : \/ more[j] \in {h, Log}
                                  \/ \E k \in 1 .. Len(channel) : more[j] = channel[k]
    BY <2>2, <2>3
  <2>5. channel' \in {channel, Newest(more)}
    BY DEF Stream
  <2> HIDE DEF more
  <2>6. \A i \in 1 .. Len(Newest(more)) : \E j \in 1 .. Len(more) : Newest(more)[i] = more[j]
    BY <2>1, NewestIsPart
  <2>7. QED
    BY <2>4, <2>5, <2>6
<1>5. ASSUME opc \in {"sent", "wait"} PROVE Answering'
  <2>1. ~NothingOut /\ OwnOut
    BY <1>1, <1>5 DEF NothingOut, Turns, Answering
  <2>2. OwnOut'
    <3>1. \A i \in 1 .. Len(stdout') : stdout'[i].evidence \subseteq {cur'}
      BY <1>1, <1>2, <2>1 DEF OwnOut
    <3>2. h.evidence \subseteq {cur}
      BY <1>1, <1>2, <2>1 DEF OwnOut
    <3>3. opc = "wait" => \A i \in 1 .. Len(channel') : channel'[i] # Log => channel'[i].evidence \subseteq {cur}
      BY <1>4, <2>1, <3>2 DEF OwnOut
    <3>4. QED
      BY <1>1, <2>1, <3>1, <3>3 DEF OwnOut
  <2>3. LastIn' => LastIn \/ h.test = TestCount
    BY <1>1, <1>4 DEF LastIn
  <2>4. CASE Testing /\ ~LastOut /\ lpc # "notified"
    <3>1. ~LastOut'
      <4>1. h.test # TestCount
        BY <1>1, <1>2, <2>4 DEF LastOut
      <4>2. \A i \in 1 .. Len(stdout') : stdout'[i].test # TestCount
        BY <1>2, <2>4 DEF LastOut
      <4>3. QED
        BY <2>3, <2>4, <4>1, <4>2 DEF LastOut
    <3>2. Testing'
      BY <1>1, <2>4 DEF Testing
    <3>3. QED
      BY <1>1, <2>2, <2>4, <3>1, <3>2 DEF Answering
  <2>5. CASE Quiet /\ InOrder
    <3>1. Quiet'
      BY <1>1, <2>5 DEF Quiet
    <3>2. ~LastIn
      BY <1>1, <2>5 DEF InOrder
    <3>3. h.test = TestCount => stdout' = <<>>
      <4>1. h.test = TestCount => Len(stdout) = 1
        <5>1. 1 \in 1 .. Len(stdout) /\ h = stdout[1]
          BY <1>1, <1>2
        <5>2. QED
          BY <2>5, <5>1 DEF InOrder
      <4>2. stdout' \in Seq(Result)
        BY <1>1
      <4>3. QED
        BY <1>2, <4>1, <4>2
    <3>4. \A i \in 1 .. Len(stdout') : stdout'[i].test = TestCount => i = Len(stdout')
      BY <1>2, <2>5 DEF InOrder
    <3>5. InOrder'
      BY <2>3, <3>2, <3>3, <3>4 DEF InOrder
    <3>6. QED
      BY <2>2, <3>1, <3>5 DEF Answering
  <2>6. QED
    BY <1>5, <2>1, <2>4, <2>5 DEF Turns, Answering
<1>6. QED
  BY <1>1, <1>3, <1>5 DEF Turns

\* The orchestrator goes on to the next scenario only when the station rests.
LEMMA OrchTurns == ASSUME TypeOK, Turns, Waits, OrchStep PROVE Turns'
<1>1. Len(Plan) \in Nat /\ cur \in 1 .. Len(Plan) + 1
  BY PlanIsSequence DEF TypeOK
<1>2. CASE OrchSend
  <2>1. Rested /\ up
    BY <1>1, <1>2 DEF OrchSend, Turns
  <2>2. stdin' = <<cur>> /\ stdout' = <<>>
    BY <1>2, <2>1 DEF OrchSend, Rested, Quiet
  <2>3. Coming'
    BY <1>2, <2>1, <2>2 DEF OrchSend, Rested, Quiet, Coming
  <2>4. cur \in 1 .. Len(Plan) /\ cur' = cur
    BY <1>1, <1>2 DEF OrchSend
  <2>5. CASE Expected[Plan[cur]] = {}
    <3>1. opc' = "delay"
      BY <1>2, <2>5 DEF OrchSend
    <3>2. cur = Len(Plan)
      BY <1>1, <2>4, <2>5 DEF Waits
    <3>3. QED
      BY <2>4, <2>5, <3>1, <3>2 DEF Turns
  <2>6. CASE Expected[Plan[cur]] # {}
    <3>1. opc' = "sent"
      BY <1>2, <2>6 DEF OrchSend
    <3>2. NothingOut'
      BY <2>2, <3>1 DEF NothingOut
    <3>3. QED
      BY <2>3, <3>1, <3>2 DEF Turns, Answering
  <2>7. QED
    BY <2>5, <2>6
<1>3. CASE OrchError
  <2>1. Rested'
    BY <1>1, <1>3 DEF OrchError, Turns, stationVars, Rested, Quiet
  <2>2. opc' = "loop"
    BY <1>3 DEF OrchError
  <2>3. QED
    BY <2>1, <2>2 DEF Turns
<1>4. CASE OrchSubscribe
  <2>1. /\ opc' = "wait" /\ channel' = <<>> /\ \A t \in Test : results'[t] = {}
        /\ UNCHANGED <<up, stdin, loading, profile, permit, lpc, evidence, stdout, cur>>
    BY <1>4 DEF OrchSubscribe, stationVars
  <2>2. Answering /\ opc = "sent"
    BY <1>4 DEF OrchSubscribe, Turns
  <2>3. ~LastIn'
    BY <2>1, TestsAreCounted DEF LastIn
  <2>4. CASE Coming /\ NothingOut
    BY <2>1, <2>4 DEF Coming, NothingOut, Answering, Turns
  <2>5. CASE Testing /\ OwnOut /\ ~LastOut /\ (lpc = "notified" => NothingOut)
    <3>1. Testing' /\ OwnOut' /\ ~LastOut' /\ (lpc' = "notified" => NothingOut')
      BY <2>1, <2>3, <2>5 DEF Testing, OwnOut, LastOut, NothingOut
    <3>2. QED
      BY <2>1, <3>1 DEF Answering, Turns
  <2>6. CASE Quiet /\ OwnOut /\ InOrder
    <3>1. Quiet' /\ OwnOut' /\ InOrder'
      BY <2>1, <2>3, <2>6 DEF Quiet, OwnOut, InOrder
    <3>2. QED
      BY <2>1, <3>1 DEF Answering, Turns
  <2>7. QED
    BY <2>2, <2>4, <2>5, <2>6 DEF Answering
<1>5. CASE OrchReceive
  <2> DEFINE e == Head(channel)
  <2>1. /\ opc = "wait" /\ opc' = "wait" /\ channel # <<>> /\ channel \in Seq(Event) /\ channel' = Tail(channel)
        /\ UNCHANGED <<up, stdin, loading, profile, permit, lpc, evidence, stdout, cur>>
    BY <1>5 DEF OrchReceive, TypeOK, Event, stationVars
  <2>2. /\ Len(channel) \in Nat \ {0} /\ 1 \in 1 .. Len(channel) /\ e = channel[1]
        /\ Len(channel') = Len(channel) - 1
        /\ \A i \in 1 .. Len(channel') : channel'[i] = channel[i + 1] /\ i + 1 \in 1 .. Len(channel)
    BY <2>1
  <2>3. \A t \in Test : \/ results'[t] = results[t]
                        \/ e # Log /\ t = e.test /\ results'[t] = e.evidence
    BY <1>5 DEF OrchReceive, TypeOK
  <2>4. Answering /\ OwnOut
    BY <2>1, NothingIsOwn DEF Turns, Answering
  <2>5. OwnOut'
    <3>1. \A i \in 1 .. Len(channel') : channel'[i] # Log => channel'[i].evidence \subseteq {cur}
      BY <2>1, <2>2, <2>4 DEF OwnOut
    <3>2. e # Log => e.evidence \subseteq {cur}
      BY <2>1, <2>2, <2>4 DEF OwnOut
    <3>3. \A t \in Test : results'[t] \subseteq {cur}
      BY <2>1, <2>3, <2>4, <3>2 DEF OwnOut
    <3>4. QED
      BY <2>1, <2>4, <3>1, <3>3 DEF OwnOut
  <2>6. LastIn' => LastIn
    BY <2>1, <2>2, <2>3, TestsAreCounted DEF LastIn
  <2>7. CASE Coming /\ NothingOut
    BY <2>1, <2>7 DEF NothingOut
  <2>8. CASE Testing /\ ~LastOut /\ (lpc = "notified" => NothingOut)
    <3>1. lpc # "notified"
      BY <2>1, <2>8 DEF NothingOut
    <3>2. Testing' /\ ~LastOut'
      BY <2>1, <2>6, <2>8 DEF Testing, LastOut
    <3>3. QED
      BY <2>1, <2>5, <3>1, <3>2 DEF Answering, Turns
  <2>9. CASE Quiet /\ InOrder
    <3>1. Quiet' /\ InOrder'
      BY <2>1, <2>6, <2>9 DEF Quiet, InOrder
    <3>2. QED
      BY <2>1, <2>5, <3>1 DEF Answering, Turns
  <2>10. QED
    BY <2>4, <2>7, <2>8, <2>9 DEF Answering
<1>6. CASE OrchTimeout
  <2>1. Rested /\ opc = "wait"
    BY <1>6 DEF OrchTimeout, Waits, Silent, Idle, Rested, Quiet
  <2>2. \A t \in Test : results[t] \subseteq {cur}
    BY <2>1, NothingIsOwn DEF Turns, Answering, OwnOut
  <2>3. Expected[Plan[cur]] \subseteq Test
    BY <2>1, <1>1, PlanIsSequence DEF TypeOK
  <2>4. Rested' /\ opc' = "ending" /\ UNCHANGED <<cur, results>>
    BY <1>6, <2>1 DEF OrchTimeout, stationVars, Rested, Quiet
  <2>5. QED
    BY <2>2, <2>3, <2>4 DEF Turns
<1>7. CASE OrchDelay
  BY <1>1, <1>7 DEF OrchDelay, Turns
<1>8. CASE OrchComplete
  <2>1. opc' = "loop" /\ cur' = cur + 1 /\ UNCHANGED stationVars
    BY <1>8 DEF OrchComplete
  <2>2. ASSUME cur' <= Len(Plan) PROVE Rested
    <3>1. cur \in 1 .. Len(Plan) /\ cur < Len(Plan)
      BY <1>1, <2>1, <2>2
    <3>2. CASE opc = "ending"
      BY <3>1, <3>2 DEF Turns
    <3>3. CASE opc = "wait" /\ Resolved
      <4>1. LastIn /\ TestCount \in Test
        BY <3>1, <3>3, TestsAreCounted DEF Waits, Resolved, LastIn
      <4>2. ~NothingOut /\ LastOut
        BY <4>1, NothingIsOwn DEF LastOut
      <4>3. QED
        BY <3>3, <4>1, <4>2 DEF Turns, Answering, InOrder, Rested
    <3>4. QED
      BY <1>8, <3>2, <3>3 DEF OrchComplete
  <2>3. QED
    BY <2>1, <2>2 DEF Turns, Rested, Quiet, stationVars
<1>9. CASE OrchCancelled \/ OrchFinish
  BY <1>9 DEF OrchCancelled, OrchFinish, Turns
<1>10. QED
  BY <1>2, <1>3, <1>4, <1>5, <1>6, <1>7, <1>8, <1>9 DEF OrchStep

\* The station and the orchestrator take turns.
LEMMA TurnsAreTaken == ASSUME Waits PROVE Spec => []Turns
<1>1. Init => Turns
  BY DEF Init, StationInit, Turns, Rested, Quiet
<1>2. TypeOK /\ Turns /\ [Next]_vars => Turns'
  <2> SUFFICES ASSUME TypeOK, Turns, [Next]_vars PROVE Turns'
    OBVIOUS
  <2>1. CASE UNCHANGED <<stationVars, opc, cur, results, channel>>
    BY <2>1 DEF stationVars, Turns, Answering, Coming, Testing, Quiet, Rested,
                NothingOut, OwnOut, LastIn, LastOut, InOrder
  <2>2. QED
    BY <2>1, OrchTurns, StreamTurns, StationTurns DEF Next, Cancel, vars, runVars
<1>3. QED
  BY <1>1, <1>2, TypeCorrect, PTL DEF Spec

\* A result that counts for a scenario rests on what was written and read for that
\* scenario alone, for every plan in which whatever is followed by another scenario
\* waits for the last test, and with a timeout longer than the station's cycle.
THEOREM ResultsStayOwn == ASSUME Waits PROVE Spec => []ResultsAreOwn
<1>1. TypeOK /\ Turns => ResultsAreOwn
  <2> SUFFICES ASSUME TypeOK, Turns, opc \in {"wait", "ending"}
               PROVE  \A t \in Expected[Plan[cur]] : results[t] \subseteq {cur}
    BY DEF ResultsAreOwn
  <2>1. Expected[Plan[cur]] \subseteq Test
    BY PlanIsSequence DEF TypeOK
  <2>2. CASE opc = "wait"
    <3>1. OwnOut
      BY <2>2, NothingIsOwn DEF Turns, Answering
    <3>2. QED
      BY <2>1, <2>2, <3>1 DEF OwnOut
  <2>3. QED
    BY <2>2 DEF Turns
<1>2. QED
  BY <1>1, TypeCorrect, TurnsAreTaken, PTL

\* Under the same conditions a command is only ever sent to a station that owes
\* nothing to the one before.
THEOREM SendsFindIdle == ASSUME Waits PROVE Spec => SendsToIdle
<1>1. TypeOK /\ Turns /\ [Next]_vars => [Len(stdin') > Len(stdin) => Idle]_vars
  <2> SUFFICES ASSUME TypeOK, Turns, Next, Len(stdin') > Len(stdin) PROVE Idle
    OBVIOUS
  <2>1. stdin \in Seq(Step \ {0}) /\ Len(stdin) \in Nat
    BY DEF TypeOK, StationTypeOK
  <2>2. CASE OrchSend
    BY <2>2, PlanIsSequence DEF OrchSend, Turns, Rested, Quiet, Idle, TypeOK
  <2>3. stdin' = stdin \/ (stdin # <<>> /\ stdin' = Tail(stdin)) \/ OrchSend
    BY DEF Next, OrchStep, OrchError, OrchSubscribe, OrchReceive, OrchTimeout, OrchDelay, OrchComplete,
           OrchCancelled, OrchFinish, Stream, Cancel, StationNext, StdinStep, StdinSwap, StdinAnnounce,
           StdinRefuse, LoopStep, LoopWrite, LoopTimer, LoopNotified, LoopTest, Exit, stationVars
  <2>4. stdin # <<>> => Len(Tail(stdin)) = Len(stdin) - 1
    BY <2>1
  <2>5. QED
    BY <2>1, <2>2, <2>3, <2>4
<1>2. QED
  BY <1>1, TypeCorrect, TurnsAreTaken, PTL DEF Spec, SendsToIdle

-----------------------------------------------------------------------------
(* A scenario is complete without a timeout only with all its results; for *)
(* this neither the time nor the plan matters.                             *)

EarnedInv ==
  /\ opc = "delay" => Expected[Plan[cur]] = {}
  /\ opc = "ending" => Expected[Plan[cur]] = {} \/ <<cur, "timeout">> \in shown

\* The end of a wait is shown as what it was.
LEMMA EarnedStep == ASSUME EarnedInv, [Next]_vars PROVE EarnedInv'
<1>1. CASE OrchSend \/ OrchError \/ OrchSubscribe \/ OrchReceive
  BY <1>1 DEF OrchSend, OrchError, OrchSubscribe, OrchReceive, EarnedInv
<1>2. CASE OrchTimeout \/ OrchDelay \/ OrchComplete \/ OrchCancelled \/ OrchFinish
  BY <1>2 DEF OrchTimeout, OrchDelay, OrchComplete, OrchCancelled, OrchFinish, EarnedInv
<1>3. CASE UNCHANGED <<opc, cur, shown>>
  BY <1>3 DEF EarnedInv
<1>4. QED
  BY <1>1, <1>2, <1>3 DEF Next, OrchStep, Stream, Cancel, vars, runVars

\* A scenario that is shown complete without a timeout has a result for each test
\* it waits for, however results are lost, late, or tagged.
THEOREM CompletesAreEarned == Spec => CompleteIsEarned
<1>1. Init => EarnedInv
  BY DEF Init, EarnedInv
<1>2. EarnedInv /\ [Next]_vars =>
        [\A n \in Step \ {0} :
           <<n, "complete">> \in shown' \ shown /\ <<n, "timeout">> \notin shown =>
             \A t \in Expected[Plan[n]] : results[t] # {}]_vars
  <2> SUFFICES ASSUME EarnedInv, Next, NEW n \in Step \ {0}, <<n, "complete">> \in shown',
                      <<n, "complete">> \notin shown, <<n, "timeout">> \notin shown,
                      NEW t \in Expected[Plan[n]]
               PROVE  results[t] # {}
    OBVIOUS
  <2>1. OrchComplete /\ n = cur
    <3>1. ASSUME shown' = shown \/ OrchSend \/ OrchError \/ OrchTimeout PROVE FALSE
      BY <3>1 DEF OrchSend, OrchError, OrchTimeout
    <3>2. OrchComplete
      BY <3>1 DEF Next, OrchStep, OrchSubscribe, OrchReceive, OrchDelay, OrchCancelled, OrchFinish,
                  Stream, Cancel, runVars
    <3>3. QED
      BY <3>2 DEF OrchComplete
  <2>2. CASE opc = "ending"
    BY <2>1, <2>2 DEF EarnedInv
  <2>3. CASE opc = "wait" /\ Resolved
    BY <2>1, <2>3 DEF Resolved
  <2>4. QED
    BY <2>1, <2>2, <2>3 DEF OrchComplete
<1>3. QED
  BY <1>1, <1>2, EarnedStep, PTL DEF Spec, CompleteIsEarned

=============================================================================
