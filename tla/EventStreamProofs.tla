-------------------------- MODULE EventStreamProofs --------------------------
(***************************************************************************)
(* Proofs about EventStream, for any stations and pages, a channel and a   *)
(* ring of any size, and any number of calls.                              *)
(***************************************************************************)
EXTENDS EventStream, DataLemmas

-----------------------------------------------------------------------------
(* Calls and positions.                                                    *)

\* Every call of the tasks is a sequence of the steps a task can take.
LEMMA CallsAreSteps ==
  /\ \A t \in Task : Calls(t) \subseteq Seq(Step)
  /\ EmitStatus("test_runner", "finished") \o <<[do |-> "remove"]>> \in Seq(Step)
<1>1. ASSUME NEW q \in Process, NEW s \in Status PROVE EmitStatus(q, s) \in Seq(Step)
  BY <1>1 DEF EmitStatus, Record, Send, Update, Step, Event
<1>2. ASSUME NEW q \in Process PROVE Send(Log(q)) \in Step /\ Send(Result(q)) \in Step
  BY <1>2 DEF Send, Log, Result, Step, Event
<1>3. \A q \in Process : Send(Log(q)) \in Step /\ Send(Result(q)) \in Step
  BY <1>2
<1>4. "test_runner" \in Process /\ Station \subseteq Process
  BY DEF Process
<1>5. {"running", "stopped", "finished"} \subseteq Status
  BY DEF Status
<1>6. ASSUME NEW s \in Station PROVE TerminateAndEmit(s) \in Seq(Step)
  BY <1>1, <1>3, <1>4, <1>5, <1>6 DEF TerminateAndEmit
<1>7. ASSUME NEW s \in Station
      PROVE  ForwardLine(s) \in Seq(Step) /\ HandleConformanceEvent(s) \in Seq(Step)
  BY <1>3, <1>4, <1>7 DEF ForwardLine, HandleConformanceEvent
<1>8. ASSUME NEW t \in Task PROVE Calls(t) \subseteq Seq(Step)
  BY <1>1, <1>4, <1>5, <1>6, <1>7, <1>8 DEF Calls, Task
<1>9. [do |-> "remove"] \in Step
  BY DEF Step
<1>10. EmitStatus("test_runner", "finished") \in Seq(Step)
  BY <1>1, <1>4, <1>5
<1>11. QED
  BY <1>8, <1>9, <1>10

\* The oldest event a receiver can still get is a position up to the end.
LEMMA OldestIsPosition ==
  ASSUME TypeOK
  PROVE  Oldest \in 1 .. AtEnd /\ AtEnd \in Nat \ {0}
BY EventStreamAssumption DEF TypeOK, Oldest, AtEnd

\* A line put into the ring keeps it within its size.
LEMMA RingKeepsItsSize ==
  ASSUME TypeOK, NEW i \in Nat
  PROVE  PushBack(i) \in Seq(Nat) /\ Len(PushBack(i)) <= RingCap
<1>1. CASE Len(ring) >= RingCap
  <2>1. ring # <<>> /\ ring \in Seq(Nat)
    BY <1>1, EventStreamAssumption DEF TypeOK
  <2>2. Tail(ring) \in Seq(Nat) /\ Len(Tail(ring)) = Len(ring) - 1
    BY <2>1
  <2>3. QED
    BY <1>1, <2>2, EventStreamAssumption DEF TypeOK, PushBack
<1>2. CASE ~(Len(ring) >= RingCap)
  BY <1>2, EventStreamAssumption DEF TypeOK, PushBack
<1>3. QED
  BY <1>1, <1>2

-----------------------------------------------------------------------------
(* Type correctness.                                                       *)

\* A step of a task keeps the types.
LEMMA TaskTypes ==
  ASSUME TypeOK,
         \/ \E t \in Task : Call(t) \/ TaskSteps(t)
         \/ CallFinish
         \/ RemoveJob
  PROVE  TypeOK'
<1> USE DEF TypeOK, ringVars, pageVars, AtEnd
<1>1. ASSUME NEW t \in Task, Call(t) PROVE TypeOK'
  <2>1. \E steps \in Seq(Step) : todo' = [todo EXCEPT ![t] = steps]
    BY <1>1, CallsAreSteps DEF Call
  <2>2. calls' \in 0 .. MaxCalls
    BY <1>1, EventStreamAssumption DEF Call
  <2>3. UNCHANGED <<inMap, sent, statuses, ringVars, pageVars, lagged>> /\ AtEnd' = AtEnd
    BY <1>1 DEF Call
  <2> HIDE DEF AtEnd
  <2>4. QED
    BY <2>1, <2>2, <2>3
<1>2. CASE CallFinish
  BY <1>2, CallsAreSteps DEF CallFinish, Task
<1>3. ASSUME NEW t \in Task, NEW do \in {"record", "send", "remove"}, At(t, do), Done(t)
      PROVE  /\ todo' \in [Task -> Seq(Step)]
             /\ Head(todo[t]) \in Step /\ Head(todo[t]).do = do
  BY <1>3 DEF At, Done
<1>4. ASSUME NEW t \in Task, RecordStatus(t) PROVE TypeOK'
  <2>1. todo' \in [Task -> Seq(Step)] /\ Head(todo[t]) \in Step /\ Head(todo[t]).do = "record"
    BY <1>3, <1>4 DEF RecordStatus
  <2>2. Head(todo[t]).event.process \in Process /\ Head(todo[t]).event.status \in Status
    BY <2>1 DEF Step
  <2>3. QED
    BY <1>4, <2>1, <2>2 DEF RecordStatus
<1>5. ASSUME NEW t \in Task, SendEvent(t) PROVE TypeOK'
  <2>1. todo' \in [Task -> Seq(Step)] /\ Head(todo[t]) \in Step /\ Head(todo[t]).do = "send"
    BY <1>3, <1>5 DEF SendEvent
  <2>2. Head(todo[t]).event \in Event
    BY <2>1 DEF Step
  <2>3. sent' \in Seq(Event) /\ Len(sent') = Len(sent) + 1
    BY <1>5, <2>2 DEF SendEvent
  <2>4. UNCHANGED <<calls, inMap, statuses, ring, ringAt, page, asked, pageAt, pill, shown, lagged>>
    BY <1>5 DEF SendEvent
  <2>5. AtEnd' = AtEnd + 1 /\ AtEnd \in Nat
    BY <2>3
  <2>6. 1 .. AtEnd \subseteq 1 .. AtEnd' /\ 0 .. AtEnd \subseteq 0 .. AtEnd'
    BY <2>5
  <2>7. ringAt' \in 0 .. AtEnd' /\ pageAt' \in [Page -> 1 .. AtEnd']
    BY <2>4, <2>6
  <2>8. asked' \in [Page -> [statuses : [Process -> Status], since : 1 .. AtEnd', logs : Seq(Nat),
                             ringAt : 0 .. AtEnd', at : 1 .. AtEnd']]
    BY <2>4, <2>6
  <2> HIDE DEF AtEnd
  <2>9. QED
    BY <2>1, <2>3, <2>4, <2>7, <2>8
<1>6. CASE RemoveJob
  BY <1>3, <1>6 DEF RemoveJob, Task
<1>7. QED
  BY <1>1, <1>2, <1>4, <1>5, <1>6 DEF TaskSteps

\* A step of the ring's task keeps the types.
LEMMA RingTypes ==
  ASSUME TypeOK, RingSteps
  PROVE  TypeOK'
<1> USE DEF taskVars, pageVars
<1>1. CASE RingReceives
  <2>1. ringAt \in Nat \ {0} /\ ringAt <= Len(sent) /\ Len(sent) \in Nat
    BY <1>1 DEF RingReceives, TypeOK, AtEnd
  <2>2. ring' \in Seq(Nat) /\ Len(ring') <= RingCap
    BY <1>1, <2>1, RingKeepsItsSize DEF RingReceives, TypeOK
  <2>3. QED
    BY <1>1, <2>1, <2>2 DEF RingReceives, TypeOK, AtEnd
<1>2. CASE RingLags
  <2>1. ringAt' \in 0 .. AtEnd /\ lagged' \subseteq Page \cup {"ring"}
    BY <1>2, OldestIsPosition DEF RingLags, TypeOK
  <2>2. UNCHANGED <<taskVars, sent, statuses, ring, pageVars>> /\ AtEnd' = AtEnd
    BY <1>2 DEF RingLags, AtEnd
  <2>3. QED
    BY <2>1, <2>2 DEF TypeOK
<1>3. CASE RingEnds
  BY <1>3, OldestIsPosition DEF RingEnds, TypeOK, AtEnd
<1>4. QED
  BY <1>1, <1>2, <1>3 DEF RingSteps

\* A step of a page keeps the types.
LEMMA PageTypes ==
  ASSUME TypeOK, NEW p \in Page, AskStatuses(p) \/ AskInVain(p) \/ PageSteps(p)
  PROVE  TypeOK'
<1> USE OldestIsPosition DEF TypeOK, taskVars, ringVars
<1> DEFINE Asked == [statuses : [Process -> Status], since : 1 .. AtEnd, logs : Seq(Nat),
                     ringAt : 0 .. AtEnd, at : 1 .. AtEnd]
<1>0. /\ asked \in [Page -> Asked] /\ asked[p] \in Asked
      /\ AtEnd \in 1 .. AtEnd /\ statuses \in [Process -> Status] /\ <<>> \in Seq(Nat)
  <2>1. asked \in [Page -> Asked]
    BY DEF TypeOK
  <2>2. AtEnd \in 1 .. AtEnd /\ statuses \in [Process -> Status]
    BY OldestIsPosition
  <2> HIDE DEF TypeOK, Asked
  <2>3. QED
    BY <2>1, <2>2
<1>1. CASE AskStatuses(p)
  <2>1. [asked[p] EXCEPT !.statuses = statuses, !.since = AtEnd] \in Asked
    <3> HIDE DEF TypeOK
    <3> QED BY <1>0
  <2>2. asked' \in [Page -> Asked] /\ AtEnd' = AtEnd
    BY <1>0, <1>1, <2>1 DEF AskStatuses, AtEnd
  <2>3. QED
    BY <1>1, <2>2 DEF AskStatuses, AtEnd
<1>2. CASE AskInVain(p)
  BY <1>2 DEF AskInVain, AtEnd
<1>3. CASE AskLogs(p)
  <2>1. [asked[p] EXCEPT !.logs = ring, !.ringAt = ringAt] \in Asked
    BY <1>0
  <2>2. asked' \in [Page -> Asked] /\ AtEnd' = AtEnd
    BY <1>0, <1>3, <2>1 DEF AskLogs, AtEnd
  <2>3. QED
    BY <1>3, <2>2 DEF AskLogs, AtEnd
<1>4. CASE Subscribe(p)
  <2>1. NothingAsked.statuses \in [Process -> Status]
    BY DEF NothingAsked, Status
  <2>2. asked[p].logs \in Seq(Nat) /\ asked[p].statuses \in [Process -> Status]
    BY DEF AtEnd
  <2>3. pill' \in [Page -> [Process -> Status]]
    BY <1>4, <2>2 DEF Subscribe, Status
  <2>4. [asked[p] EXCEPT !.at = AtEnd, !.logs = <<>>, !.statuses = NothingAsked.statuses] \in Asked
    <3> HIDE DEF TypeOK
    <3> QED BY <1>0, <2>1
  <2>5. asked' \in [Page -> Asked] /\ AtEnd' = AtEnd
    BY <1>0, <1>4, <2>4 DEF Subscribe, Subscribed, AtEnd
  <2>6. QED
    BY <1>4, <2>2, <2>3, <2>5 DEF Subscribe, Subscribed, AtEnd
<1>5. CASE PageReceives(p)
  <2>1. pageAt[p] \in 1 .. Len(sent) /\ Len(sent) \in Nat
    BY <1>5 DEF PageReceives, AtEnd
  <2>2. sent[pageAt[p]] \in Event
    BY <2>1
  <2>3. sent[pageAt[p]].kind = "status" =>
          sent[pageAt[p]].process \in Process /\ sent[pageAt[p]].status \in Status
    BY <2>2 DEF Event
  <2>4. pill' \in [Page -> [Process -> Status]]
    BY <1>5, <2>3 DEF PageReceives
  <2>5. shown' \in [Page -> Seq(Nat)]
    BY <1>5, <2>1 DEF PageReceives
  <2>6. QED
    <3>1. page' \in [Page -> {"away", "statuses", "logs", "open", "closed"}]
      BY <1>5 DEF PageReceives
    <3>2. pageAt' \in [Page -> 1 .. AtEnd]
      <4>1. pageAt' = [pageAt EXCEPT ![p] = @ + 1] /\ pageAt \in [Page -> 1 .. AtEnd]
        BY <1>5 DEF PageReceives
      <4>2. pageAt[p] + 1 \in 1 .. AtEnd
        BY <2>1 DEF AtEnd
      <4>3. QED
        BY <4>1, <4>2
    <3>3. UNCHANGED <<todo, calls, inMap, sent, statuses, ring, ringAt, asked, lagged>>
      BY <1>5 DEF PageReceives
    <3>4. AtEnd' = AtEnd
      BY <3>3 DEF AtEnd
    <3> HIDE DEF taskVars, ringVars, Asked
    <3>5. QED
      BY <2>4, <2>5, <3>1, <3>2, <3>3, <3>4
<1>6. CASE PageLags(p)
  BY <1>6 DEF PageLags, AtEnd
<1>7. CASE StreamEnds(p)
  BY <1>7 DEF StreamEnds, AtEnd
<1>8. QED
  BY <1>1, <1>2, <1>3, <1>4, <1>5, <1>6, <1>7 DEF PageSteps

\* Every step keeps the types.
LEMMA StepTypes ==
  ASSUME TypeOK, [Next]_vars
  PROVE  TypeOK'
<1>1. CASE UNCHANGED vars
  BY <1>1 DEF TypeOK, AtEnd, vars, taskVars, ringVars, pageVars
<1>2. QED
  BY <1>1, TaskTypes, RingTypes, PageTypes DEF Next

\* Initially the types are right.
LEMMA InitTypes == Init => TypeOK
BY EventStreamAssumption DEF Init, TypeOK, NothingAsked, AtEnd, Status

\* What every task, receiver and page holds keeps its type, and the ring its size.
THEOREM TypeCorrect == Spec => []TypeOK
BY InitTypes, StepTypes, PTL DEF Spec

-----------------------------------------------------------------------------
(* What pages are given.                                                   *)

InOrder(s) == \A i, j \in DOMAIN s : i < j => s[i] < s[j]
UpTo(s, n) == \A i \in DOMAIN s : s[i] < n

\* A sequence in order stays so when its first element is dropped.
LEMMA TailInOrder ==
  ASSUME NEW s \in Seq(Nat), s # <<>>, InOrder(s), NEW n \in Nat, UpTo(s, n)
  PROVE  Tail(s) \in Seq(Nat) /\ InOrder(Tail(s)) /\ UpTo(Tail(s), n)
<1>1. Tail(s) \in Seq(Nat) /\ Len(Tail(s)) = Len(s) - 1
  OBVIOUS
<1>2. \A i \in 1 .. Len(Tail(s)) : Tail(s)[i] = s[i + 1]
  OBVIOUS
<1>3. DOMAIN s = 1 .. Len(s) /\ DOMAIN Tail(s) = 1 .. Len(s) - 1 /\ Len(s) \in Nat
  BY <1>1
<1>4. InOrder(Tail(s))
  <2> SUFFICES ASSUME NEW i \in DOMAIN Tail(s), NEW j \in DOMAIN Tail(s), i < j
               PROVE  Tail(s)[i] < Tail(s)[j]
    BY DEF InOrder
  <2>1. i + 1 \in DOMAIN s /\ j + 1 \in DOMAIN s /\ i + 1 < j + 1
    BY <1>3
  <2>2. QED
    BY <1>1, <1>2, <1>3, <2>1 DEF InOrder
<1>5. UpTo(Tail(s), n)
  <2> SUFFICES ASSUME NEW i \in DOMAIN Tail(s) PROVE Tail(s)[i] < n
    BY DEF UpTo
  <2>1. i + 1 \in DOMAIN s /\ Tail(s)[i] = s[i + 1]
    BY <1>1, <1>2, <1>3
  <2>2. QED
    BY <2>1 DEF UpTo
<1>6. QED
  BY <1>1, <1>4, <1>5

\* It stays so when a larger element is appended.
LEMMA AppendInOrder ==
  ASSUME NEW s \in Seq(Nat), NEW n \in Nat, InOrder(s), UpTo(s, n)
  PROVE  InOrder(Append(s, n)) /\ UpTo(Append(s, n), n + 1)
<1>1. /\ Len(Append(s, n)) = Len(s) + 1 /\ Append(s, n)[Len(s) + 1] = n
      /\ \A i \in 1 .. Len(s) : Append(s, n)[i] = s[i]
  OBVIOUS
<1>2. \A i \in DOMAIN s : s[i] \in Nat
  OBVIOUS
<1>3. /\ DOMAIN s = 1 .. Len(s) /\ DOMAIN Append(s, n) = 1 .. Len(s) + 1 /\ Len(s) \in Nat
  BY <1>1
<1>4. InOrder(Append(s, n))
  <2> SUFFICES ASSUME NEW i \in DOMAIN Append(s, n), NEW j \in DOMAIN Append(s, n), i < j
               PROVE  Append(s, n)[i] < Append(s, n)[j]
    BY DEF InOrder
  <2>1. i \in DOMAIN s /\ Append(s, n)[i] = s[i] /\ s[i] < n
    BY <1>1, <1>3 DEF UpTo
  <2>2. CASE j = Len(s) + 1
    BY <1>1, <2>1, <2>2
  <2>3. CASE j # Len(s) + 1
    BY <1>1, <1>3, <2>1, <2>3 DEF InOrder
  <2>4. QED
    BY <2>2, <2>3
<1>5. UpTo(Append(s, n), n + 1)
  BY <1>1, <1>2, <1>3 DEF UpTo
<1>6. QED
  BY <1>4, <1>5

\* The ring, the copies of it that were handed out, and what pages show are in
\* order, and end before what their receivers are to get next.
NextOfRing == IF ringAt = 0 THEN AtEnd ELSE ringAt
AllInOrder ==
  /\ InOrder(ring) /\ UpTo(ring, NextOfRing)
  /\ \A p \in Page : InOrder(asked[p].logs) /\ UpTo(asked[p].logs, AtEnd)
  /\ \A p \in Page : InOrder(shown[p]) /\ UpTo(shown[p], pageAt[p])

\* A position before one is before every later one.
LEMMA UpToMore ==
  ASSUME NEW s \in Seq(Nat), NEW n \in Nat, NEW m \in Nat, UpTo(s, n), n <= m
  PROVE  UpTo(s, m)
BY DEF UpTo

\* A step of a task appends to what was sent, at most.
LEMMA TaskOrder ==
  ASSUME TypeOK, AllInOrder,
         \/ \E t \in Task : Call(t) \/ TaskSteps(t)
         \/ CallFinish
         \/ RemoveJob
  PROVE  AllInOrder'
<1>1. UNCHANGED <<ringVars, pageVars>> /\ AtEnd' \in Nat /\ AtEnd \in Nat /\ AtEnd <= AtEnd'
  BY DEF TypeOK, AtEnd, Call, TaskSteps, RecordStatus, SendEvent, CallFinish, RemoveJob,
         ringVars, pageVars
<1>2. ring \in Seq(Nat) /\ \A p \in Page : asked[p].logs \in Seq(Nat)
  BY DEF TypeOK
<1>3. UpTo(ring, NextOfRing')
  <2>1. NextOfRing \in Nat /\ NextOfRing' \in Nat /\ NextOfRing <= NextOfRing'
    BY <1>1 DEF TypeOK, NextOfRing, ringVars
  <2>2. QED
    BY <1>2, <2>1, UpToMore DEF AllInOrder
<1>4. \A p \in Page : UpTo(asked[p].logs, AtEnd')
  BY <1>1, <1>2, UpToMore DEF AllInOrder
<1>5. QED
  BY <1>1, <1>3, <1>4 DEF AllInOrder, ringVars, pageVars, InOrder, UpTo

\* The ring's task puts in what is later than all the ring holds.
LEMMA RingOrder ==
  ASSUME TypeOK, AllInOrder, RingSteps
  PROVE  AllInOrder'
<1>1. ring \in Seq(Nat) /\ ringAt \in Nat /\ AtEnd \in Nat /\ ringAt <= AtEnd
  BY DEF TypeOK, AtEnd
<1>2. UNCHANGED <<sent, pageVars>> /\ AtEnd' = AtEnd
  BY DEF RingSteps, RingReceives, RingLags, RingEnds, AtEnd
<1>3. InOrder(ring') /\ UpTo(ring', NextOfRing')
  <2>1. CASE RingReceives
    <3>1. ringAt > 0 /\ ringAt' = ringAt + 1 /\ NextOfRing = ringAt /\ NextOfRing' = ringAt + 1
      BY <1>1, <2>1 DEF RingReceives, NextOfRing
    <3>2. InOrder(PushBack(ringAt)) /\ UpTo(PushBack(ringAt), ringAt + 1)
      <4>1. CASE Len(ring) >= RingCap
        <5>1. ring # <<>>
          BY <1>1, <4>1, EventStreamAssumption
        <5>2. Tail(ring) \in Seq(Nat) /\ InOrder(Tail(ring)) /\ UpTo(Tail(ring), ringAt)
          BY <1>1, <3>1, <5>1, TailInOrder DEF AllInOrder
        <5>3. QED
          BY <1>1, <4>1, <5>2, AppendInOrder DEF PushBack
      <4>2. CASE ~(Len(ring) >= RingCap)
        BY <1>1, <3>1, <4>2, AppendInOrder DEF PushBack, AllInOrder
      <4>3. QED
        BY <4>1, <4>2
    <3>3. UpTo(ring, ringAt + 1)
      BY <1>1, <3>1, UpToMore DEF AllInOrder
    <3>4. QED
      BY <2>1, <3>1, <3>2, <3>3 DEF RingReceives, AllInOrder
  <2>2. CASE RingLags
    <3>1. NextOfRing = ringAt /\ NextOfRing' \in Nat /\ ringAt <= NextOfRing' /\ ring' = ring
      BY <1>1, <2>2, OldestIsPosition DEF RingLags, NextOfRing
    <3>2. QED
      BY <1>1, <3>1, UpToMore DEF AllInOrder
  <2>3. CASE RingEnds
    <3>1. NextOfRing' = AtEnd /\ NextOfRing = AtEnd /\ ring' = ring
      BY <1>1, <1>2, <2>3 DEF RingEnds, NextOfRing
    <3>2. QED
      BY <3>1 DEF AllInOrder
  <2>4. QED
    BY <2>1, <2>2, <2>3 DEF RingSteps
<1>4. QED
  BY <1>2, <1>3 DEF AllInOrder, pageVars, InOrder, UpTo

\* A page starts with a copy of the ring, and goes on with what was sent after it.
LEMMA PageOrder ==
  ASSUME TypeOK, AllInOrder, NEW p \in Page, AskStatuses(p) \/ AskInVain(p) \/ PageSteps(p)
  PROVE  AllInOrder'
<1>1. UNCHANGED <<sent, ringVars>> /\ AtEnd' = AtEnd /\ NextOfRing' = NextOfRing /\ AtEnd \in Nat
  <2>1. UNCHANGED <<sent, ringVars>>
    BY DEF PageSteps, AskStatuses, AskInVain, AskLogs, Subscribe, PageReceives, PageLags, StreamEnds
  <2>2. QED
    BY <2>1, OldestIsPosition DEF ringVars, AtEnd, NextOfRing
<1>2. InOrder(ring') /\ UpTo(ring', NextOfRing')
  BY <1>1 DEF AllInOrder, ringVars, InOrder, UpTo
<1>3. \A q \in Page : InOrder(asked'[q].logs) /\ UpTo(asked'[q].logs, AtEnd')
  <2>1. UpTo(ring, AtEnd)
    <3>1. ring \in Seq(Nat) /\ NextOfRing \in Nat /\ NextOfRing <= AtEnd
      BY <1>1 DEF TypeOK, NextOfRing
    <3>2. QED
      BY <1>1, <3>1, UpToMore DEF AllInOrder
  <2>2. CASE AskStatuses(p) \/ AskInVain(p) \/ PageReceives(p) \/ PageLags(p) \/ StreamEnds(p)
    <3>1. \A q \in Page : asked'[q].logs = asked[q].logs
      <4>1. CASE AskStatuses(p)
        <5>1. \E st, si : asked' = [asked EXCEPT ![p].statuses = st, ![p].since = si]
          BY <4>1 DEF AskStatuses
        <5>2. DOMAIN asked = Page /\ "logs" \in DOMAIN asked[p]
          BY DEF TypeOK
        <5>3. QED
          BY <5>1, <5>2
      <4>2. CASE AskInVain(p) \/ PageReceives(p) \/ PageLags(p) \/ StreamEnds(p)
        BY <4>2 DEF AskInVain, PageReceives, PageLags, StreamEnds
      <4>3. QED
        BY <2>2, <4>1, <4>2
    <3>2. QED
      BY <1>1, <3>1 DEF AllInOrder
  <2>3. CASE AskLogs(p)
    <3>1. \A q \in Page : asked'[q].logs = IF q = p THEN ring ELSE asked[q].logs
      BY <2>3 DEF AskLogs, TypeOK
    <3>2. QED
      BY <1>1, <2>1, <3>1 DEF AllInOrder
  <2>4. CASE Subscribe(p)
    <3>1. \A q \in Page : asked'[q].logs = IF q = p THEN <<>> ELSE asked[q].logs
      BY <2>4 DEF Subscribe, TypeOK
    <3>2. InOrder(<<>>) /\ UpTo(<<>>, AtEnd)
      BY DEF InOrder, UpTo
    <3>3. QED
      BY <1>1, <3>1, <3>2 DEF AllInOrder
  <2>5. QED
    BY <2>2, <2>3, <2>4 DEF PageSteps
<1>4. \A q \in Page : InOrder(shown'[q]) /\ UpTo(shown'[q], pageAt'[q])
  <2>1. CASE AskStatuses(p) \/ AskInVain(p) \/ AskLogs(p) \/ StreamEnds(p)
    BY <2>1 DEF AskStatuses, AskInVain, AskLogs, StreamEnds, AllInOrder
  <2>2. CASE Subscribe(p)
    <3>1. \A q \in Page : /\ shown'[q] = IF q = p THEN asked[p].logs ELSE shown[q]
                          /\ pageAt'[q] = IF q = p THEN AtEnd ELSE pageAt[q]
      BY <2>2 DEF Subscribe, Subscribed, TypeOK
    <3>2. QED
      BY <3>1 DEF AllInOrder
  <2>3. CASE PageReceives(p)
    <3>1. pageAt[p] \in Nat /\ shown[p] \in Seq(Nat)
      BY DEF TypeOK, AtEnd
    <3>2. /\ InOrder(Append(shown[p], pageAt[p])) /\ UpTo(Append(shown[p], pageAt[p]), pageAt[p] + 1)
          /\ InOrder(shown[p]) /\ UpTo(shown[p], pageAt[p] + 1)
      BY <3>1, AppendInOrder, UpToMore DEF AllInOrder
    <3>3. \A q \in Page : /\ shown'[q] \in (IF q = p THEN {shown[p], Append(shown[p], pageAt[p])}
                                            ELSE {shown[q]})
                          /\ pageAt'[q] = IF q = p THEN pageAt[p] + 1 ELSE pageAt[q]
      BY <2>3 DEF PageReceives, TypeOK
    <3>4. QED
      BY <3>2, <3>3 DEF AllInOrder
  <2>4. CASE PageLags(p)
    <3>1. pageAt[p] \in Nat /\ Oldest \in Nat /\ pageAt[p] <= Oldest /\ shown[p] \in Seq(Nat)
      BY <2>4, OldestIsPosition DEF PageLags, TypeOK, AtEnd
    <3>2. InOrder(shown[p]) /\ UpTo(shown[p], Oldest)
      BY <3>1, UpToMore DEF AllInOrder
    <3>3. \A q \in Page : /\ shown'[q] = shown[q]
                          /\ pageAt'[q] = IF q = p THEN Oldest ELSE pageAt[q]
      BY <2>4 DEF PageLags, TypeOK
    <3>4. QED
      BY <3>2, <3>3 DEF AllInOrder
  <2>5. QED
    BY <2>1, <2>2, <2>3, <2>4 DEF PageSteps
<1>5. QED
  BY <1>2, <1>3, <1>4 DEF AllInOrder, InOrder, UpTo

\* The order is kept by every step.
LEMMA OrderKept == Spec => []AllInOrder
<1>1. Init => AllInOrder
  BY DEF Init, AllInOrder, NothingAsked, InOrder, UpTo
<1>2. TypeOK /\ AllInOrder /\ [Next]_vars => AllInOrder'
  <2> SUFFICES ASSUME TypeOK, AllInOrder, [Next]_vars PROVE AllInOrder'
    OBVIOUS
  <2>1. CASE UNCHANGED vars
    BY <2>1 DEF AllInOrder, NextOfRing, AtEnd, InOrder, UpTo, vars, ringVars, pageVars
  <2>2. QED
    BY <2>1, TaskOrder, RingOrder, PageOrder DEF Next
<1>3. QED
  BY <1>1, <1>2, TypeCorrect, PTL DEF Spec

\* Log lines and results reach every page in the order they were sent and none of
\* them twice: over the seam between the ring and the channel, and over what a
\* receiver that lags skips.
THEOREM PagesAreInOrder == Spec => []ShownInOrder
<1>1. AllInOrder => ShownInOrder
  BY DEF AllInOrder, ShownInOrder, InOrder
<1>2. QED
  BY <1>1, OrderKept, PTL

-----------------------------------------------------------------------------
(* What pages miss.                                                        *)

\* Every log line sent before position n is in s, unless s has as many lines as
\* the ring has room for, all of them later.
Kept(s, n) ==
  \A i \in 1 .. n - 1 : sent[i].kind = "log" =>
    \/ i \in ToSet(s)
    \/ Len(s) = RingCap /\ \A k \in ToSet(s) : i < k

\* OneHoleAtMost of one page.
HoleOf(p) ==
  page[p] \in {"open", "closed"} /\ lagged \cap {p, "ring"} = {} =>
    LET replay == {i \in ToSet(shown[p]) : i < asked[p].at}
        missing == {i \in 1 .. pageAt[p] - 1 : sent[i].kind # "status"} \ ToSet(shown[p])
    IN \A i \in missing :
         /\ i < asked[p].at
         /\ \/ sent[i].kind = "result"
            \/ InSeam(p, i)
            \/ Cardinality(replay) = RingCap /\ \A k \in replay : i < k

\* As long as it has not lagged, the ring has what its task was given, and so
\* has a copy of it what its task had been given by then.
KeptByRing == ringAt > 0 /\ "ring" \notin lagged => Kept(ring, ringAt)
KeptFor(p) ==
  page[p] = "logs" /\ asked[p].ringAt > 0 /\ "ring" \notin lagged
    => Kept(asked[p].logs, asked[p].ringAt)

\* What a receiver gives a page was sent after the page subscribed.
Behind(p) == asked[p].at <= pageAt[p] /\ (page[p] = "away" => pageAt[p] = 1)

HoleInv ==
  /\ KeptByRing
  /\ \A p \in Page : KeptFor(p) /\ Behind(p) /\ HoleOf(p)

\* What has been sent stays, so that what was kept of it stays kept.
LEMMA KeptStays ==
  ASSUME TypeOK, \A i \in 1 .. Len(sent) : sent'[i] = sent[i],
         NEW s, NEW n \in 0 .. AtEnd, Kept(s, n)
  PROVE  Kept(s, n)'
<1>1. \A i \in 1 .. n - 1 : i \in 1 .. Len(sent)
  BY DEF TypeOK, AtEnd
<1>2. QED
  BY <1>1 DEF Kept

\* The elements of a sequence after one was appended or the first was dropped.
LEMMA ElementsOfAppend ==
  ASSUME NEW s \in Seq(Nat), NEW n \in Nat
  PROVE  ToSet(Append(s, n)) = ToSet(s) \cup {n}
<1>1. /\ DOMAIN s = 1 .. Len(s) /\ DOMAIN Append(s, n) = 1 .. Len(s) + 1 /\ Len(s) \in Nat
      /\ \A i \in 1 .. Len(s) : Append(s, n)[i] = s[i]
      /\ Append(s, n)[Len(s) + 1] = n
  OBVIOUS
<1>2. QED
  BY <1>1 DEF ToSet

\* The elements of an increasing sequence without its first.
LEMMA ElementsOfTail ==
  ASSUME NEW s \in Seq(Nat), s # <<>>, InOrder(s)
  PROVE  /\ ToSet(s) = ToSet(Tail(s)) \cup {Head(s)}
         /\ \A k \in ToSet(Tail(s)) : Head(s) < k
<1>1. /\ DOMAIN s = 1 .. Len(s) /\ DOMAIN Tail(s) = 1 .. Len(s) - 1 /\ Len(s) \in Nat \ {0}
      /\ \A i \in 1 .. Len(s) - 1 : Tail(s)[i] = s[i + 1]
      /\ Head(s) = s[1]
  OBVIOUS
<1>2. \A i \in 1 .. Len(s) : i = 1 \/ (i - 1 \in 1 .. Len(s) - 1 /\ (i - 1) + 1 = i)
  BY <1>1
<1>3. ToSet(s) \subseteq ToSet(Tail(s)) \cup {Head(s)}
  <2> SUFFICES ASSUME NEW i \in 1 .. Len(s) PROVE s[i] \in ToSet(Tail(s)) \cup {Head(s)}
    BY <1>1 DEF ToSet
  <2>1. i # 1 => s[i] = Tail(s)[i - 1] /\ i - 1 \in DOMAIN Tail(s)
    BY <1>1, <1>2
  <2>2. QED
    BY <1>1, <2>1 DEF ToSet
<1>4. \A i \in 1 .. Len(s) - 1 : i + 1 \in 1 .. Len(s) /\ 1 < i + 1 /\ 1 \in 1 .. Len(s)
  BY <1>1
<1>5. \A k \in ToSet(Tail(s)) : k \in ToSet(s) /\ Head(s) < k
  BY <1>1, <1>4 DEF ToSet, InOrder
<1>6. Head(s) \in ToSet(s)
  BY <1>1 DEF ToSet
<1>7. QED
  BY <1>3, <1>5, <1>6

\* A line put into a ring that kept the earlier ones: it keeps them and the line.
LEMMA PushBackKeeps ==
  ASSUME TypeOK, AllInOrder, ringAt > 0, Kept(ring, ringAt)
  PROVE  /\ Kept(PushBack(ringAt), ringAt + 1)
         /\ sent[ringAt].kind # "log" => Kept(ring, ringAt + 1)
<1>1. ring \in Seq(Nat) /\ ringAt \in Nat /\ InOrder(ring) /\ UpTo(ring, ringAt) /\ Len(ring) <= RingCap
  BY DEF TypeOK, AllInOrder, NextOfRing, AtEnd
<1>2. \A i \in 1 .. (ringAt + 1) - 1 : i = ringAt \/ i \in 1 .. ringAt - 1
  BY <1>1
<1>3. sent[ringAt].kind # "log" => Kept(ring, ringAt + 1)
  BY <1>2 DEF Kept
<1>4. \A k \in ToSet(ring) : k \in Nat /\ k < ringAt
  BY <1>1 DEF ToSet, UpTo
<1>5. CASE Len(ring) >= RingCap
  <2>1. ring # <<>> /\ Len(ring) = RingCap
    BY <1>1, <1>5, EventStreamAssumption
  <2>2. Tail(ring) \in Seq(Nat) /\ Len(Tail(ring)) = RingCap - 1
    BY <1>1, <2>1
  <2>3. Len(PushBack(ringAt)) = RingCap /\ ToSet(PushBack(ringAt)) = ToSet(Tail(ring)) \cup {ringAt}
    <3>1. PushBack(ringAt) = Append(Tail(ring), ringAt)
      BY <1>5 DEF PushBack
    <3>2. Len(Append(Tail(ring), ringAt)) = (RingCap - 1) + 1
      BY <1>1, <2>2
    <3>3. ToSet(Append(Tail(ring), ringAt)) = ToSet(Tail(ring)) \cup {ringAt}
      BY <1>1, <2>2, ElementsOfAppend
    <3>4. (RingCap - 1) + 1 = RingCap
      BY EventStreamAssumption
    <3>5. QED
      BY <3>1, <3>2, <3>3, <3>4
  <2>4. /\ ToSet(ring) = ToSet(Tail(ring)) \cup {Head(ring)}
        /\ \A k \in ToSet(Tail(ring)) : Head(ring) < k
    BY <1>1, <2>1, ElementsOfTail
  <2> SUFFICES ASSUME NEW i \in 1 .. ringAt - 1, sent[i].kind = "log",
                      i \notin ToSet(PushBack(ringAt))
               PROVE  \A k \in ToSet(PushBack(ringAt)) : i < k
    BY <1>2, <1>3, <2>3 DEF Kept
  <2>5. i < ringAt
    BY <1>1
  <2>6. CASE i = Head(ring)
    BY <2>3, <2>4, <2>5, <2>6
  <2>7. CASE i # Head(ring)
    <3>1. \A k \in ToSet(ring) : i < k
      BY <2>3, <2>4, <2>7 DEF Kept
    <3>2. QED
      BY <2>3, <2>4, <2>5, <3>1
  <2>8. QED
    BY <2>6, <2>7
<1>6. CASE ~(Len(ring) >= RingCap)
  <2>1. ToSet(PushBack(ringAt)) = ToSet(ring) \cup {ringAt}
    BY <1>1, <1>6, ElementsOfAppend DEF PushBack
  <2>2. Len(ring) # RingCap
    BY <1>1, <1>6, EventStreamAssumption
  <2>3. QED
    BY <1>2, <2>1, <2>2 DEF Kept
<1>7. QED
  BY <1>3, <1>5, <1>6

\* A step of a task sends an event at most, after everything that was kept.
LEMMA TaskKeeps ==
  ASSUME TypeOK, HoleInv,
         \/ \E t \in Task : Call(t) \/ TaskSteps(t)
         \/ CallFinish
         \/ RemoveJob
  PROVE  HoleInv'
<1>1. /\ UNCHANGED <<ring, ringAt, page, asked, pageAt, shown, lagged>>
      /\ \A i \in 1 .. Len(sent) : sent'[i] = sent[i]
  <2>1. ASSUME NEW t \in Task, SendEvent(t)
        PROVE  /\ UNCHANGED <<ringVars, pageVars, lagged>>
               /\ \A i \in 1 .. Len(sent) : sent'[i] = sent[i]
    <3>1. sent \in Seq(Event) /\ \E e : sent' = Append(sent, e)
      BY <2>1 DEF SendEvent, TypeOK
    <3>2. QED
      BY <2>1, <3>1 DEF SendEvent
  <2>2. ASSUME NEW t \in Task, Call(t) \/ RecordStatus(t) \/ CallFinish \/ RemoveJob
        PROVE  UNCHANGED <<sent, ringVars, pageVars, lagged>>
    BY <2>2 DEF Call, RecordStatus, CallFinish, RemoveJob
  <2>3. Task # {}
    BY DEF Task
  <2>4. QED
    BY <2>1, <2>2, <2>3 DEF TaskSteps, ringVars, pageVars
<1>2. KeptByRing'
  BY <1>1, KeptStays DEF HoleInv, KeptByRing, TypeOK
<1>3. ASSUME NEW p \in Page PROVE KeptFor(p)' /\ Behind(p)'
  <2>1. asked[p].ringAt \in 0 .. AtEnd
    BY DEF TypeOK
  <2>2. QED
    BY <1>1, <2>1, KeptStays DEF HoleInv, KeptFor, Behind
<1>4. ASSUME NEW p \in Page PROVE HoleOf(p)'
  <2>1. \A i \in 1 .. pageAt[p] - 1 : i \in 1 .. Len(sent)
    BY DEF TypeOK, AtEnd
  <2>2. HoleOf(p)
    BY DEF HoleInv
  <2>3. QED
    BY <1>1, <2>1, <2>2 DEF HoleOf, InSeam
<1>5. QED
  BY <1>2, <1>3, <1>4 DEF HoleInv

\* The ring's task puts every line it is given into the ring, and ends only when
\* nothing more can be sent.
LEMMA RingKeeps ==
  ASSUME TypeOK, AllInOrder, HoleInv, RingSteps
  PROVE  HoleInv'
<1>1. UNCHANGED <<sent, page, asked, pageAt, shown>> /\ lagged \subseteq lagged'
  BY DEF RingSteps, RingReceives, RingLags, RingEnds, pageVars
<1>2. KeptByRing'
  <2>1. CASE RingReceives
    <3>1. ringAt > 0 /\ ringAt' = ringAt + 1 /\ lagged' = lagged
      BY <2>1 DEF RingReceives
    <3>2. CASE "ring" \in lagged
      BY <3>1, <3>2 DEF KeptByRing
    <3>3. CASE "ring" \notin lagged
      <4>1. Kept(ring, ringAt)
        BY <3>1, <3>3 DEF HoleInv, KeptByRing
      <4>2. /\ Kept(PushBack(ringAt), ringAt + 1)
            /\ sent[ringAt].kind # "log" => Kept(ring, ringAt + 1)
        BY <3>1, <4>1, PushBackKeeps
      <4>3. Kept(ring', ringAt + 1)
        BY <2>1, <4>2 DEF RingReceives
      <4>4. QED
        BY <1>1, <3>1, <4>3 DEF KeptByRing, Kept
    <3>4. QED
      BY <3>2, <3>3
  <2>2. CASE RingLags
    BY <2>2 DEF RingLags, KeptByRing
  <2>3. CASE RingEnds
    BY <2>3 DEF RingEnds, KeptByRing
  <2>4. QED
    BY <2>1, <2>2, <2>3 DEF RingSteps
<1>3. ASSUME NEW p \in Page PROVE KeptFor(p)' /\ Behind(p)' /\ HoleOf(p)'
  <2>1. KeptFor(p)'
    BY <1>1 DEF HoleInv, KeptFor, Kept
  <2>2. HoleOf(p)'
    BY <1>1 DEF HoleInv, HoleOf, InSeam
  <2>3. QED
    BY <1>1, <2>1, <2>2 DEF HoleInv, Behind
<1>4. QED
  BY <1>2, <1>3 DEF HoleInv

\* What a page is shown when it has a receiver is what the ring kept, and what
\* its receiver gives it comes after that.
LEMMA SubscribeKeeps ==
  ASSUME TypeOK, AllInOrder, HoleInv, NEW p \in Page, Subscribe(p)
  PROVE  HoleOf(p)'
<1> DEFINE L == asked[p].logs
<1>1. /\ L \in Seq(Nat) /\ InOrder(L) /\ UpTo(L, AtEnd) /\ AtEnd \in Nat
      /\ asked[p].ringAt \in Nat
  BY DEF TypeOK, AllInOrder, AtEnd
<1>2. /\ shown'[p] = L /\ pageAt'[p] = AtEnd /\ asked'[p].at = AtEnd
      /\ asked'[p].ringAt = asked[p].ringAt /\ page[p] = "logs"
      /\ UNCHANGED <<sent, lagged>>
  BY DEF Subscribe, Subscribed, TypeOK
<1>3. ToSet(L) \subseteq {i \in Nat : i < AtEnd}
  BY <1>1 DEF ToSet, UpTo
<1>4. Cardinality(ToSet(L)) = Len(L)
  <2>1. \A i, j \in DOMAIN L : L[i] = L[j] => i = j
    <3>1. \A i \in DOMAIN L : i \in Nat /\ L[i] \in Nat
      BY <1>1
    <3>2. \A i, j \in DOMAIN L : i < j => L[i] < L[j]
      BY <1>1 DEF InOrder
    <3>3. \A i, j \in DOMAIN L : i = j \/ i < j \/ j < i
      BY <3>1
    <3> HIDE DEF L
    <3>4. QED
      BY <3>1, <3>2, <3>3
  <2>2. QED
    BY <1>1, <2>1, CountOfDistinct
<1>5. {i \in ToSet(L) : i < AtEnd} = ToSet(L)
  BY <1>3
<1> SUFFICES ASSUME lagged \cap {p, "ring"} = {},
                    NEW i \in {j \in 1 .. AtEnd - 1 : sent[j].kind # "status"} \ ToSet(L)
             PROVE  /\ i < AtEnd
                    /\ \/ sent[i].kind = "result"
                       \/ i >= asked[p].ringAt
                       \/ Len(L) = RingCap /\ \A k \in ToSet(L) : i < k
  <2> HIDE DEF L
  <2> QED
    BY <1>2, <1>4, <1>5 DEF HoleOf, InSeam
<1>6. i \in 1 .. Len(sent) /\ i < AtEnd /\ sent[i] \in Event
  BY <1>1 DEF AtEnd, TypeOK
<1>7. sent[i].kind = "log" \/ sent[i].kind = "result"
  BY <1>6 DEF Event
<1>8. CASE sent[i].kind = "log" /\ i < asked[p].ringAt
  <2>1. Kept(L, asked[p].ringAt)
    BY <1>1, <1>2, <1>6, <1>8 DEF HoleInv, KeptFor
  <2>2. i \in 1 .. asked[p].ringAt - 1
    BY <1>1, <1>6, <1>8
  <2>3. QED
    BY <1>6, <1>8, <2>1, <2>2 DEF Kept
<1>9. QED
  BY <1>1, <1>6, <1>7, <1>8

\* A page that is given an event is shown it, unless it is a status.
LEMMA ReceiveKeeps ==
  ASSUME TypeOK, HoleInv, NEW p \in Page, PageReceives(p)
  PROVE  HoleOf(p)'
<1>1. /\ pageAt[p] \in 1 .. Len(sent) /\ Len(sent) \in Nat /\ shown[p] \in Seq(Nat)
      /\ asked[p].at \in Nat /\ asked[p].at <= pageAt[p]
  BY DEF TypeOK, AtEnd, PageReceives, HoleInv, Behind
<1>2. /\ UNCHANGED <<sent, asked, lagged>> /\ pageAt'[p] = pageAt[p] + 1 /\ page[p] = "open"
      /\ shown'[p] = IF sent[pageAt[p]].kind = "status" THEN shown[p]
                     ELSE Append(shown[p], pageAt[p])
  BY DEF PageReceives, TypeOK
<1>3. ToSet(shown'[p]) = IF sent[pageAt[p]].kind = "status" THEN ToSet(shown[p])
                         ELSE ToSet(shown[p]) \cup {pageAt[p]}
  <2>1. pageAt[p] \in Nat
    BY <1>1
  <2>2. ToSet(Append(shown[p], pageAt[p])) = ToSet(shown[p]) \cup {pageAt[p]}
    BY <1>1, <2>1, ElementsOfAppend
  <2>3. QED
    BY <1>2, <2>2
<1>4. {i \in ToSet(shown'[p]) : i < asked[p].at} = {i \in ToSet(shown[p]) : i < asked[p].at}
  BY <1>1, <1>3
<1>5. \A i \in 1 .. pageAt'[p] - 1 : i = pageAt[p] \/ i \in 1 .. pageAt[p] - 1
  BY <1>1, <1>2
<1>6. HoleOf(p)
  BY DEF HoleInv
<1>7. {i \in 1 .. pageAt'[p] - 1 : sent[i].kind # "status"} \ ToSet(shown'[p])
        \subseteq {i \in 1 .. pageAt[p] - 1 : sent[i].kind # "status"} \ ToSet(shown[p])
  BY <1>3, <1>5
<1>8. QED
  BY <1>2, <1>4, <1>6, <1>7 DEF HoleOf, InSeam

\* A step of a page.
LEMMA PageKeeps ==
  ASSUME TypeOK, AllInOrder, HoleInv, NEW p \in Page,
         AskStatuses(p) \/ AskInVain(p) \/ PageSteps(p)
  PROVE  HoleInv'
<1>1. UNCHANGED <<sent, ring, ringAt>> /\ AtEnd' = AtEnd /\ lagged \subseteq lagged'
      /\ ("ring" \notin lagged' => "ring" \notin lagged)
  BY DEF PageSteps, AskStatuses, AskInVain, AskLogs, Subscribe, PageReceives, PageLags, StreamEnds,
         ringVars, AtEnd
<1>2. KeptByRing'
  BY <1>1 DEF HoleInv, KeptByRing, Kept
<1>3. ASSUME NEW q \in Page, q # p
      PROVE  KeptFor(q)' /\ Behind(q)' /\ HoleOf(q)'
  <2>1. /\ page'[q] = page[q] /\ asked'[q] = asked[q] /\ pageAt'[q] = pageAt[q]
        /\ shown'[q] = shown[q]
    <3>0. /\ \E S : page \in [Page -> S]
          /\ \E S : asked \in [Page -> S]
          /\ \E S : pageAt \in [Page -> S]
          /\ \E S : shown \in [Page -> S]
      BY DEF TypeOK
    <3> USE <1>3
    <3>1. CASE AskStatuses(p)
      BY <3>0, <3>1 DEF AskStatuses
    <3>2. CASE AskInVain(p) \/ StreamEnds(p)
      BY <3>0, <3>2 DEF AskInVain, StreamEnds
    <3>3. CASE AskLogs(p)
      BY <3>0, <3>3 DEF AskLogs
    <3>4. CASE Subscribe(p)
      BY <3>0, <3>4 DEF Subscribe
    <3>5. CASE PageReceives(p)
      BY <3>0, <3>5 DEF PageReceives
    <3>6. CASE PageLags(p)
      BY <3>0, <3>6 DEF PageLags
    <3>7. QED
      BY <3>1, <3>2, <3>3, <3>4, <3>5, <3>6 DEF PageSteps
  <2>2. KeptFor(q) /\ Behind(q) /\ HoleOf(q)
    BY DEF HoleInv
  <2>3. KeptFor(q)'
    BY <1>1, <2>1, <2>2 DEF KeptFor, Kept
  <2>4. HoleOf(q)'
    BY <1>1, <2>1, <2>2 DEF HoleOf, InSeam
  <2>5. QED
    BY <2>1, <2>2, <2>3, <2>4 DEF Behind
<1>4. KeptFor(p)' /\ Behind(p)' /\ HoleOf(p)'
  <2>0. /\ KeptFor(p) /\ Behind(p) /\ HoleOf(p)
        /\ asked[p].at \in Nat /\ pageAt[p] \in 1 .. AtEnd /\ AtEnd \in Nat /\ Oldest \in Nat
    BY OldestIsPosition DEF HoleInv, TypeOK, AtEnd
  <2>1. CASE AskStatuses(p)
    <3>1. page'[p] = "statuses" /\ asked'[p].at = asked[p].at /\ pageAt'[p] = pageAt[p]
      BY <2>1 DEF AskStatuses, TypeOK
    <3>2. QED
      BY <2>0, <3>1 DEF KeptFor, Behind, HoleOf
  <2>2. CASE AskInVain(p)
    <3>1. page'[p] = "closed" /\ page[p] = "away" /\ UNCHANGED <<sent, asked, pageAt, shown, lagged>>
      BY <2>2 DEF AskInVain, TypeOK
    <3>2. pageAt[p] = 1
      BY <2>0, <3>1 DEF Behind
    <3>3. QED
      BY <2>0, <3>1, <3>2 DEF KeptFor, Behind, HoleOf
  <2>3. CASE AskLogs(p)
    <3>1. /\ page'[p] = "logs" /\ asked'[p].at = asked[p].at /\ pageAt'[p] = pageAt[p]
          /\ asked'[p].logs = ring /\ asked'[p].ringAt = ringAt
      BY <2>3 DEF AskLogs, TypeOK
    <3>2. KeptByRing
      BY DEF HoleInv
    <3>3. QED
      BY <1>1, <2>0, <3>1, <3>2 DEF KeptFor, KeptByRing, Behind, HoleOf, Kept
  <2>4. CASE Subscribe(p)
    <3>1. page'[p] = "open" /\ asked'[p].at = AtEnd /\ pageAt'[p] = AtEnd
      BY <2>4 DEF Subscribe, Subscribed, TypeOK
    <3>2. QED
      BY <2>0, <2>4, <3>1, SubscribeKeeps DEF KeptFor, Behind
  <2>5. CASE PageReceives(p)
    <3>1. page'[p] \in {"open", "closed"} /\ asked' = asked /\ pageAt'[p] = pageAt[p] + 1
      BY <2>5 DEF PageReceives, TypeOK
    <3>2. QED
      BY <2>0, <2>5, <3>1, ReceiveKeeps DEF KeptFor, Behind
  <2>6. CASE PageLags(p)
    <3>1. page'[p] = "open" /\ asked' = asked /\ pageAt'[p] = Oldest /\ p \in lagged' /\ pageAt[p] < Oldest
      BY <2>6 DEF PageLags, TypeOK
    <3>2. QED
      BY <2>0, <3>1 DEF KeptFor, Behind, HoleOf
  <2>7. CASE StreamEnds(p)
    <3>1. page'[p] = "closed" /\ page[p] = "open" /\ UNCHANGED <<sent, asked, pageAt, shown, lagged>>
      BY <2>7 DEF StreamEnds, TypeOK
    <3>2. QED
      BY <2>0, <3>1 DEF KeptFor, Behind, HoleOf, InSeam
  <2>8. QED
    BY <2>1, <2>2, <2>3, <2>4, <2>5, <2>6, <2>7 DEF PageSteps
<1>5. QED
  BY <1>2, <1>3, <1>4 DEF HoleInv

\* A page that follows a job from its start to its end misses nothing, and one that
\* comes later only what the ring had no room for and what was under way
\* while it subscribed, in one piece; unless a receiver lagged.
THEOREM HolesAreSeams == Spec => []OneHoleAtMost
<1>1. Init => HoleInv
  BY DEF Init, HoleInv, KeptByRing, Kept, KeptFor, Behind, HoleOf, NothingAsked, ToSet
<1>2. TypeOK /\ AllInOrder /\ HoleInv /\ [Next]_vars => HoleInv'
  <2> SUFFICES ASSUME TypeOK, AllInOrder, HoleInv, [Next]_vars PROVE HoleInv'
    OBVIOUS
  <2>1. CASE UNCHANGED vars
    <3>1. UNCHANGED <<sent, ring, ringAt, page, asked, pageAt, shown, lagged>>
      BY <2>1 DEF vars, ringVars, pageVars
    <3>2. KeptByRing'
      BY <3>1 DEF HoleInv, KeptByRing, Kept
    <3>3. ASSUME NEW p \in Page PROVE KeptFor(p)' /\ Behind(p)'
      BY <3>1 DEF HoleInv, KeptFor, Kept, Behind
    <3>4. ASSUME NEW p \in Page PROVE HoleOf(p)'
      BY <3>1 DEF HoleInv, HoleOf, InSeam
    <3>5. QED
      BY <3>2, <3>3, <3>4 DEF HoleInv
  <2>2. QED
    BY <2>1, TaskKeeps, RingKeeps, PageKeeps DEF Next
<1>3. HoleInv => OneHoleAtMost
  BY DEF HoleInv, HoleOf, OneHoleAtMost
<1>4. QED
  BY <1>1, <1>2, <1>3, TypeCorrect, OrderKept, PTL DEF Spec

-----------------------------------------------------------------------------
(* What pages show of a process.                                           *)

IsStatus(e, q) == e.kind = "status" /\ e.process = q

\* A status that has been recorded is about to be sent.
Pending(q) ==
  \E t \in Task : \E k \in DOMAIN todo[t] :
    todo[t][k].do = "send" /\ IsStatus(todo[t][k].event, q)

\* The steps record each status immediately before they send it.
RecordsFirst(s) ==
  \A k \in DOMAIN s :
    /\ s[k].do = "record" =>
         /\ s[k].event.status # "unknown"
         /\ k + 1 \in DOMAIN s /\ s[k + 1] = Send(s[k].event)
    /\ s[k].do = "send" /\ s[k].event.kind = "status" /\ k # 1 => s[k - 1].do = "record"

SendsStatusNow(s) == s # <<>> /\ Head(s).do = "send" /\ Head(s).event.kind = "status"

\* So what a task is about to send has been recorded.
RecordedFirst(t) ==
  /\ RecordsFirst(todo[t])
  /\ SendsStatusNow(todo[t]) => statuses[Head(todo[t]).event.process] # "unknown"

SentSince(p, q) == \E i \in SentOf(q) : i >= asked[p].since

\* A page knows the status of a process, or a newer one was sent since it asked,
\* or is about to be.
Knows(p, q) ==
  /\ page[p] \in {"statuses", "logs"} =>
       SentSince(p, q) \/ Pending(q) \/ asked[p].statuses[q] = statuses[q]
  /\ page[p] = "open" =>
       SentSince(p, q) \/ Pending(q) \/ pill[p][q] = statuses[q] \/ statuses[q] = "unknown"

\* The last status its receiver gave it is the one it shows.
ShowsLast(p, q) ==
  page[p] = "open" /\ p \notin lagged =>
    \A i \in SentOf(q) :
      /\ asked[p].at <= i /\ i < pageAt[p]
      /\ \A j \in SentOf(q) : j < pageAt[p] => j <= i
      => pill[p][q] = sent[i].status

AskedFirst(p) == page[p] = "open" => asked[p].since <= asked[p].at /\ asked[p].at <= pageAt[p]

PillInv ==
  /\ \A t \in Task : RecordedFirst(t)
  /\ \A q \in Process : SentOf(q) # {} => statuses[q] # "unknown"
  /\ \A p \in Page : AskedFirst(p) /\ \A q \in Process : Knows(p, q) /\ ShowsLast(p, q)

\* Every call records first.
LEMMA CallsRecordFirst ==
  /\ \A t \in Task : \A s \in Calls(t) : RecordsFirst(s) /\ ~SendsStatusNow(s)
  /\ LET s == EmitStatus("test_runner", "finished") \o <<[do |-> "remove"]>>
     IN  RecordsFirst(s) /\ ~SendsStatusNow(s)
<1>1. ASSUME NEW q, NEW v, v # "unknown"
      PROVE  RecordsFirst(EmitStatus(q, v)) /\ ~SendsStatusNow(EmitStatus(q, v))
  BY <1>1 DEF EmitStatus, Record, Send, Update, RecordsFirst, SendsStatusNow
<1>2. ASSUME NEW s \in Station
      PROVE  RecordsFirst(TerminateAndEmit(s)) /\ ~SendsStatusNow(TerminateAndEmit(s))
  <2>1. TerminateAndEmit(s) = <<Send(Log("test_runner")), Record(s, "stopped"),
                                Send(Update(s, "stopped"))>>
    BY ThreeElements DEF TerminateAndEmit, EmitStatus
  <2>2. QED
    BY <2>1 DEF Record, Send, Update, Log, RecordsFirst, SendsStatusNow
<1>3. ASSUME NEW s \in Station
      PROVE  /\ RecordsFirst(ForwardLine(s)) /\ ~SendsStatusNow(ForwardLine(s))
             /\ RecordsFirst(HandleConformanceEvent(s)) /\ ~SendsStatusNow(HandleConformanceEvent(s))
  BY DEF ForwardLine, HandleConformanceEvent, Send, Log, Result, RecordsFirst, SendsStatusNow
<1>4. EmitStatus("test_runner", "finished") \o <<[do |-> "remove"]>> =
        <<Record("test_runner", "finished"), Send(Update("test_runner", "finished")),
          [do |-> "remove"]>>
  BY ThreeElements DEF EmitStatus
<1>5. LET s == EmitStatus("test_runner", "finished") \o <<[do |-> "remove"]>>
      IN  RecordsFirst(s) /\ ~SendsStatusNow(s)
  <2> DEFINE s == EmitStatus("test_runner", "finished") \o <<[do |-> "remove"]>>
  <2> DEFINE a == Record("test_runner", "finished")
  <2> DEFINE b == Send(Update("test_runner", "finished"))
  <2> DEFINE c == [do |-> "remove"]
  <2>1. s = <<a, b, c>>
    BY <1>4
  <2> HIDE DEF a, b, c, s
  <2>2. DOMAIN s = 1 .. 3 /\ s[1] = a /\ s[2] = b /\ s[3] = c /\ Head(s) = a
    BY <2>1
  <2>3. RecordsFirst(s) /\ ~SendsStatusNow(s)
    BY <2>2 DEF a, b, c, Record, Send, Update, RecordsFirst, SendsStatusNow
  <2>4. QED
    BY <2>3 DEF s
<1>6. QED
  BY <1>1, <1>2, <1>3, <1>5 DEF Calls

\* A step of a call that is done leaves the others, in their order.
LEMMA StepDone ==
  ASSUME TypeOK, NEW t \in Task, todo[t] # <<>>, Done(t)
  PROVE  /\ todo[t] \in Seq(Step) /\ Head(todo[t]) = todo[t][1] /\ 1 \in DOMAIN todo[t]
         /\ \A k \in DOMAIN todo[t] : k \in Nat \ {0} /\ (k # 1 => k - 1 \in DOMAIN todo'[t])
         /\ \A k \in DOMAIN todo'[t] : /\ k \in Nat \ {0} /\ k + 1 \in DOMAIN todo[t]
                                       /\ todo'[t][k] = todo[t][k + 1]
         /\ \A u \in Task : u # t => todo'[u] = todo[u]
<1>1. todo[t] \in Seq(Step) /\ todo'[t] = Tail(todo[t]) /\ \A u \in Task : u # t => todo'[u] = todo[u]
  BY DEF TypeOK, Done
<1> DEFINE s == todo[t]
<1>2. Len(s) \in Nat \ {0} /\ DOMAIN s = 1 .. Len(s) /\ DOMAIN Tail(s) = 1 .. Len(s) - 1
      /\ Head(s) = s[1] /\ \A k \in 1 .. Len(s) - 1 : Tail(s)[k] = s[k + 1]
  BY <1>1
<1> HIDE DEF s
<1>3. /\ 1 \in DOMAIN s
      /\ \A k \in DOMAIN s : k \in Nat \ {0} /\ (k # 1 => k - 1 \in DOMAIN Tail(s))
      /\ \A k \in DOMAIN Tail(s) : /\ k \in Nat \ {0} /\ k + 1 \in DOMAIN s
                                   /\ Tail(s)[k] = s[k + 1]
  BY <1>2
<1>4. QED
  BY <1>1, <1>2, <1>3 DEF s

\* What is left when a step is done records first, too: the status that is to be
\* sent next is the one that has just been recorded.
LEMMA RestRecordsFirst ==
  ASSUME TypeOK, NEW t \in Task, todo[t] # <<>>, Done(t), RecordsFirst(todo[t])
  PROVE  /\ RecordsFirst(todo'[t])
         /\ SendsStatusNow(todo'[t]) =>
              Head(todo[t]).do = "record" /\ Head(todo'[t]) = Send(Head(todo[t]).event)
         /\ Head(todo[t]).do = "record" =>
              1 \in DOMAIN todo'[t] /\ todo'[t][1] = Send(Head(todo[t]).event)
<1>1. RecordsFirst(todo'[t])
  <2> SUFFICES ASSUME NEW k \in DOMAIN todo'[t]
               PROVE  /\ todo'[t][k].do = "record" =>
                           /\ todo'[t][k].event.status # "unknown"
                           /\ k + 1 \in DOMAIN todo'[t] /\ todo'[t][k + 1] = Send(todo'[t][k].event)
                      /\ todo'[t][k].do = "send" /\ todo'[t][k].event.kind = "status" /\ k # 1
                           => todo'[t][k - 1].do = "record"
    BY DEF RecordsFirst
  <2>1. k \in Nat \ {0} /\ k + 1 \in DOMAIN todo[t] /\ todo'[t][k] = todo[t][k + 1]
    BY StepDone
  <2>2. ASSUME todo'[t][k].do = "record"
        PROVE  /\ todo'[t][k].event.status # "unknown"
               /\ k + 1 \in DOMAIN todo'[t] /\ todo'[t][k + 1] = Send(todo'[t][k].event)
    <3>1. /\ todo[t][k + 1].event.status # "unknown"
          /\ (k + 1) + 1 \in DOMAIN todo[t] /\ todo[t][(k + 1) + 1] = Send(todo[t][k + 1].event)
      BY <2>1, <2>2 DEF RecordsFirst
    <3>2. ((k + 1) + 1) - 1 = k + 1 /\ (k + 1) + 1 # 1
      BY <2>1
    <3>3. k + 1 \in DOMAIN todo'[t]
      BY <3>1, <3>2, StepDone
    <3>4. todo'[t][k + 1] = todo[t][(k + 1) + 1]
      BY <3>3, StepDone
    <3>5. QED
      BY <2>1, <3>1, <3>3, <3>4
  <2>3. ASSUME todo'[t][k].do = "send", todo'[t][k].event.kind = "status", k # 1
        PROVE  todo'[t][k - 1].do = "record"
    <3>1. (k + 1) - 1 = k /\ k + 1 # 1 /\ (k - 1) + 1 = k
      BY <2>1
    <3>2. todo[t][k].do = "record"
      BY <2>1, <2>3, <3>1 DEF RecordsFirst
    <3>3. k \in DOMAIN todo[t]
      <4>1. todo[t] \in Seq(Step)
        BY StepDone
      <4>2. QED
        BY <2>1, <4>1
    <3>4. k - 1 \in DOMAIN todo'[t]
      BY <2>3, <3>3, StepDone
    <3>5. todo'[t][k - 1] = todo[t][(k - 1) + 1]
      BY <3>4, StepDone
    <3>6. QED
      BY <3>1, <3>2, <3>5
  <2>4. QED
    BY <2>2, <2>3
<1>2. ASSUME Head(todo[t]).do = "record"
      PROVE  1 \in DOMAIN todo'[t] /\ todo'[t][1] = Send(Head(todo[t]).event)
  <2>1. 1 \in DOMAIN todo[t] /\ Head(todo[t]) = todo[t][1]
    BY StepDone
  <2>2. 1 + 1 \in DOMAIN todo[t] /\ todo[t][1 + 1] = Send(todo[t][1].event)
    BY <1>2, <2>1 DEF RecordsFirst
  <2>3. (1 + 1) - 1 = 1 /\ 1 + 1 # 1
    OBVIOUS
  <2>4. 1 \in DOMAIN todo'[t]
    BY <2>2, <2>3, StepDone
  <2>5. QED
    BY <2>1, <2>2, <2>4, StepDone
<1>3. ASSUME SendsStatusNow(todo'[t])
      PROVE  Head(todo[t]).do = "record" /\ Head(todo'[t]) = Send(Head(todo[t]).event)
  <2>1. todo'[t] # <<>> /\ todo'[t] \in Seq(Step)
    BY <1>3 DEF SendsStatusNow, TypeOK, Done
  <2>2. 1 \in DOMAIN todo'[t] /\ Head(todo'[t]) = todo'[t][1]
    BY <2>1
  <2>3. 1 + 1 \in DOMAIN todo[t] /\ todo'[t][1] = todo[t][1 + 1] /\ (1 + 1) - 1 = 1 /\ 1 + 1 # 1
    BY <2>2, StepDone
  <2>4. todo[t][1].do = "record"
    BY <1>3, <2>2, <2>3 DEF SendsStatusNow, RecordsFirst
  <2>5. QED
    BY <1>2, <2>2, <2>4, StepDone
<1>4. QED
  BY <1>1, <1>2, <1>3

\* What was sent of the statuses of a process, after one more event.
LEMMA SentOfMore ==
  ASSUME TypeOK, NEW e \in Event, sent' = Append(sent, e), NEW q
  PROVE  /\ SentOf(q)' = SentOf(q) \cup {i \in {AtEnd} : IsStatus(e, q)}
         /\ \A i \in SentOf(q) : sent'[i] = sent[i]
         /\ SentOf(q) \subseteq 1 .. Len(sent) /\ Len(sent) \in Nat
<1>1. /\ sent \in Seq(Event) /\ Len(sent) \in Nat /\ Len(sent') = Len(sent) + 1
      /\ \A i \in 1 .. Len(sent) : sent'[i] = sent[i]
      /\ sent'[Len(sent) + 1] = e
  BY DEF TypeOK
<1>2. 1 .. Len(sent') = (1 .. Len(sent)) \cup {Len(sent) + 1}
  BY <1>1
<1>3. QED
  BY <1>1, <1>2 DEF SentOf, IsStatus, AtEnd

\* What a page knows depends on what it was told and on what becomes of the
\* statuses.
LEMMA KnowsStays ==
  ASSUME NEW p \in Page, NEW q \in Process, Knows(p, q),
         page'[p] = page[p], asked'[p] = asked[p], pill'[p] = pill[p],
         SentSince(p, q) => SentSince(p, q)',
         Pending(q) => SentSince(p, q)' \/ Pending(q)',
         statuses'[q] = statuses[q] \/ Pending(q)' \/ SentSince(p, q)'
  PROVE  Knows(p, q)'
BY DEF Knows

\* A call begins: what it is about to record, nobody knows yet.
LEMMA CallPills ==
  ASSUME TypeOK, PillInv, NEW t \in Task, NEW s, RecordsFirst(s), ~SendsStatusNow(s),
         todo[t] = <<>>, todo' = [todo EXCEPT ![t] = s],
         UNCHANGED <<sent, statuses, pageVars, lagged>>
  PROVE  PillInv'
<1>1. todo'[t] = s /\ \A u \in Task : u # t => todo'[u] = todo[u]
  BY DEF TypeOK
<1>2. ASSUME NEW u \in Task PROVE RecordedFirst(u)'
  BY <1>1 DEF PillInv, RecordedFirst
<1>3. ASSUME NEW q, Pending(q) PROVE Pending(q)'
  <2>1. PICK u \in Task : \E k \in DOMAIN todo[u] :
          todo[u][k].do = "send" /\ IsStatus(todo[u][k].event, q)
    BY <1>3 DEF Pending
  <2>2. u # t
    BY <2>1
  <2>3. QED
    BY <1>1, <2>1, <2>2 DEF Pending
<1>4. \A q : SentOf(q)' = SentOf(q)
  BY DEF SentOf
<1>5. ASSUME NEW p \in Page, NEW q \in Process PROVE Knows(p, q)' /\ ShowsLast(p, q)'
  <2>1. Knows(p, q) /\ ShowsLast(p, q)
    BY DEF PillInv
  <2>2. Knows(p, q)'
    BY <1>3, <1>4, <2>1, KnowsStays DEF pageVars, SentSince
  <2>3. ShowsLast(p, q)'
    BY <1>4, <2>1 DEF pageVars, ShowsLast
  <2>4. QED
    BY <2>2, <2>3
<1>6. QED
  BY <1>2, <1>4, <1>5 DEF PillInv, AskedFirst, pageVars

\* A status is recorded: it is about to be sent.
LEMMA RecordPills ==
  ASSUME TypeOK, PillInv, NEW t \in Task, RecordStatus(t)
  PROVE  PillInv'
<1> DEFINE e == Head(todo[t]).event
<1>1. /\ todo[t] # <<>> /\ Done(t) /\ Head(todo[t]).do = "record" /\ RecordsFirst(todo[t])
      /\ statuses' = [statuses EXCEPT ![e.process] = e.status]
      /\ UNCHANGED <<sent, pageVars, lagged>>
  BY DEF RecordStatus, At, PillInv, RecordedFirst
<1>2. e.process \in Process /\ e.kind = "status" /\ e.status # "unknown"
  <2>1. Head(todo[t]) \in Step /\ Head(todo[t]) = todo[t][1] /\ 1 \in DOMAIN todo[t]
    BY <1>1, StepDone DEF TypeOK
  <2>2. QED
    BY <1>1, <2>1 DEF Step, RecordsFirst
<1>3. /\ 1 \in DOMAIN todo'[t] /\ todo'[t][1] = Send(e) /\ RecordsFirst(todo'[t])
      /\ SendsStatusNow(todo'[t]) => Head(todo'[t]) = Send(e)
      /\ \A u \in Task : u # t => todo'[u] = todo[u]
  BY <1>1, RestRecordsFirst, StepDone
<1>4. /\ statuses'[e.process] = e.status
      /\ \A q \in Process : q # e.process => statuses'[q] = statuses[q]
      /\ \A q \in Process : statuses[q] # "unknown" => statuses'[q] # "unknown"
  BY <1>1, <1>2 DEF TypeOK
<1> HIDE DEF e
<1>5. ASSUME NEW q \in Process, q = e.process PROVE Pending(q)'
  BY <1>2, <1>3, <1>5 DEF Pending, Send, IsStatus
<1>6. ASSUME NEW q \in Process, Pending(q) PROVE Pending(q)'
  <2>1. PICK u \in Task : \E k \in DOMAIN todo[u] :
          todo[u][k].do = "send" /\ IsStatus(todo[u][k].event, q)
    BY <1>6 DEF Pending
  <2>k. PICK k \in DOMAIN todo[u] : todo[u][k].do = "send" /\ IsStatus(todo[u][k].event, q)
    BY <2>1
  <2>2. CASE u = t
    <3>1. k # 1
      BY <1>1, <2>k, <2>2, StepDone
    <3>2. k - 1 \in DOMAIN todo'[t] /\ k \in Nat \ {0}
      BY <1>1, <2>k, <2>2, <3>1, StepDone
    <3>3. todo'[t][k - 1] = todo[t][(k - 1) + 1] /\ (k - 1) + 1 = k
      BY <1>1, <3>2, StepDone
    <3>4. QED
      BY <2>k, <2>2, <3>2, <3>3 DEF Pending
  <2>3. CASE u # t
    BY <1>3, <2>k, <2>3 DEF Pending
  <2>4. QED
    BY <2>2, <2>3
<1>7. ASSUME NEW u \in Task PROVE RecordedFirst(u)'
  <2>1. CASE u = t
    BY <1>2, <1>3, <1>4, <2>1 DEF RecordedFirst, Send
  <2>2. CASE u # t
    <3>1. RecordedFirst(u) /\ todo'[u] = todo[u]
      BY <1>3, <2>2 DEF PillInv
    <3>2. SendsStatusNow(todo[u]) => Head(todo[u]).event.process \in Process
      <4>1. todo[u] # <<>> => Head(todo[u]) \in Step
        BY DEF TypeOK
      <4>2. QED
        BY <4>1 DEF SendsStatusNow, Step, Event
    <3>3. QED
      BY <1>4, <3>1, <3>2 DEF RecordedFirst
  <2>3. QED
    BY <2>1, <2>2
<1>8. \A q : SentOf(q)' = SentOf(q)
  BY <1>1 DEF SentOf
<1>9. ASSUME NEW p \in Page, NEW q \in Process PROVE Knows(p, q)' /\ ShowsLast(p, q)'
  <2>1. Knows(p, q) /\ ShowsLast(p, q)
    BY DEF PillInv
  <2>2. Knows(p, q)'
    BY <1>1, <1>4, <1>5, <1>6, <1>8, <2>1, KnowsStays DEF pageVars, SentSince
  <2>3. ShowsLast(p, q)'
    BY <1>1, <1>8, <2>1 DEF pageVars, ShowsLast
  <2>4. QED
    BY <2>2, <2>3
<1>10. QED
  BY <1>1, <1>4, <1>7, <1>8, <1>9 DEF PillInv, AskedFirst, pageVars

\* An event is sent: if it is a status, it has been recorded, and it comes after
\* everything the pages know.
LEMMA SendPills ==
  ASSUME TypeOK, PillInv, NEW t \in Task, SendEvent(t)
  PROVE  PillInv'
<1> DEFINE e == Head(todo[t]).event
<1>1. /\ todo[t] # <<>> /\ Done(t) /\ Head(todo[t]).do = "send" /\ RecordsFirst(todo[t])
      /\ RecordedFirst(t)
      /\ sent' = Append(sent, e) /\ UNCHANGED <<statuses, pageVars, lagged>>
  BY DEF SendEvent, At, PillInv, RecordedFirst
<1>2. e \in Event
  <2>1. Head(todo[t]) \in Step
    BY <1>1 DEF TypeOK
  <2>2. QED
    BY <1>1, <2>1 DEF Step
<1>3. /\ RecordsFirst(todo'[t]) /\ ~SendsStatusNow(todo'[t])
      /\ \A u \in Task : u # t => todo'[u] = todo[u]
  BY <1>1, RestRecordsFirst, StepDone
<1>4. \A q \in Process : IsStatus(e, q) => statuses[q] # "unknown"
  BY <1>1 DEF RecordedFirst, SendsStatusNow, IsStatus
<1>5. Head(todo[t]) = todo[t][1]
  BY <1>1, StepDone
<1> HIDE DEF e
<1>6. ASSUME NEW q
      PROVE  /\ SentOf(q)' = SentOf(q) \cup {i \in {AtEnd} : IsStatus(e, q)}
             /\ \A i \in SentOf(q) : sent'[i] = sent[i]
             /\ SentOf(q) \subseteq 1 .. Len(sent) /\ Len(sent) \in Nat
  BY <1>1, <1>2, SentOfMore
<1>7. ASSUME NEW q \in Process, Pending(q) PROVE IsStatus(e, q) \/ Pending(q)'
  <2>1. PICK u \in Task : \E k \in DOMAIN todo[u] :
          todo[u][k].do = "send" /\ IsStatus(todo[u][k].event, q)
    BY <1>7 DEF Pending
  <2>k. PICK k \in DOMAIN todo[u] : todo[u][k].do = "send" /\ IsStatus(todo[u][k].event, q)
    BY <2>1
  <2>2. CASE u = t /\ k = 1
    BY <1>5, <2>k, <2>2 DEF e
  <2>3. CASE u = t /\ k # 1
    <3>1. k - 1 \in DOMAIN todo'[t] /\ k \in Nat \ {0}
      BY <1>1, <2>k, <2>3, StepDone
    <3>2. todo'[t][k - 1] = todo[t][(k - 1) + 1] /\ (k - 1) + 1 = k
      BY <1>1, <3>1, StepDone
    <3>3. QED
      BY <2>k, <2>3, <3>1, <3>2 DEF Pending
  <2>4. CASE u # t
    BY <1>3, <2>k, <2>4 DEF Pending
  <2>5. QED
    BY <2>2, <2>3, <2>4
<1>8. ASSUME NEW u \in Task PROVE RecordedFirst(u)'
  BY <1>1, <1>3 DEF PillInv, RecordedFirst
<1>9. ASSUME NEW q \in Process, SentOf(q)' # {} PROVE statuses'[q] # "unknown"
  BY <1>1, <1>4, <1>6, <1>9 DEF PillInv
<1>10. ASSUME NEW p \in Page, NEW q \in Process PROVE Knows(p, q)' /\ ShowsLast(p, q)'
  <2>1. Knows(p, q) /\ ShowsLast(p, q)
    BY DEF PillInv
  <2>2. asked[p].since \in Nat /\ asked[p].since <= AtEnd /\ pageAt[p] \in Nat /\ pageAt[p] <= AtEnd
    BY DEF TypeOK, AtEnd
  <2>3. SentSince(p, q) => SentSince(p, q)'
    BY <1>1, <1>6 DEF SentSince, pageVars
  <2>4. IsStatus(e, q) => SentSince(p, q)'
    BY <1>1, <1>6, <2>2 DEF SentSince, pageVars
  <2>5. Knows(p, q)'
    BY <1>1, <1>7, <2>1, <2>3, <2>4, KnowsStays DEF pageVars
  <2>6. ShowsLast(p, q)'
    <3> SUFFICES ASSUME page[p] = "open", p \notin lagged, NEW i \in SentOf(q)',
                        asked[p].at <= i, i < pageAt[p],
                        \A j \in SentOf(q)' : j < pageAt[p] => j <= i
                 PROVE  pill[p][q] = sent'[i].status
      BY <1>1 DEF ShowsLast, pageVars
    <3>1. AtEnd \in Nat
      BY <1>6 DEF AtEnd
    <3>2. i # AtEnd
      BY <2>2, <3>1
    <3>3. i \in SentOf(q) /\ sent'[i] = sent[i]
      BY <1>6, <3>2
    <3>4. QED
      BY <1>6, <2>1, <3>3 DEF ShowsLast
  <2>7. QED
    BY <2>5, <2>6
<1>11. QED
  BY <1>1, <1>8, <1>9, <1>10 DEF PillInv, AskedFirst, pageVars

\* The job is removed: that sends nothing.
LEMMA RemovePills ==
  ASSUME TypeOK, PillInv, RemoveJob
  PROVE  PillInv'
<1> DEFINE t == "orchestrator"
<1>1. /\ t \in Task /\ todo[t] # <<>> /\ Done(t) /\ Head(todo[t]).do = "remove"
      /\ RecordsFirst(todo[t]) /\ UNCHANGED <<sent, statuses, pageVars, lagged>>
  BY DEF RemoveJob, At, PillInv, RecordedFirst, Task
<1> HIDE DEF t
<1>2. /\ RecordsFirst(todo'[t]) /\ ~SendsStatusNow(todo'[t]) /\ Head(todo[t]) = todo[t][1]
      /\ \A u \in Task : u # t => todo'[u] = todo[u]
  BY <1>1, RestRecordsFirst, StepDone
<1>3. ASSUME NEW u \in Task PROVE RecordedFirst(u)'
  BY <1>1, <1>2 DEF PillInv, RecordedFirst
<1>4. ASSUME NEW q, Pending(q) PROVE Pending(q)'
  <2>1. PICK u \in Task : \E k \in DOMAIN todo[u] :
          todo[u][k].do = "send" /\ IsStatus(todo[u][k].event, q)
    BY <1>4 DEF Pending
  <2>2. PICK k \in DOMAIN todo[u] : todo[u][k].do = "send" /\ IsStatus(todo[u][k].event, q)
    BY <2>1
  <2>3. CASE u = t
    <3>1. k - 1 \in DOMAIN todo'[t] /\ k \in Nat \ {0}
      BY <1>1, <1>2, <2>2, <2>3, StepDone
    <3>2. todo'[t][k - 1] = todo[t][(k - 1) + 1] /\ (k - 1) + 1 = k
      BY <1>1, <3>1, StepDone
    <3>3. QED
      BY <1>1, <2>2, <2>3, <3>1, <3>2 DEF Pending
  <2>4. CASE u # t
    BY <1>2, <2>2, <2>4 DEF Pending
  <2>5. QED
    BY <2>3, <2>4
<1>5. \A q : SentOf(q)' = SentOf(q)
  BY <1>1 DEF SentOf
<1>6. ASSUME NEW p \in Page, NEW q \in Process PROVE Knows(p, q)' /\ ShowsLast(p, q)'
  <2>1. Knows(p, q) /\ ShowsLast(p, q)
    BY DEF PillInv
  <2>2. Knows(p, q)'
    BY <1>1, <1>4, <1>5, <2>1, KnowsStays DEF pageVars, SentSince
  <2>3. ShowsLast(p, q)'
    BY <1>1, <1>5, <2>1 DEF pageVars, ShowsLast
  <2>4. QED
    BY <2>2, <2>3
<1>7. QED
  BY <1>1, <1>3, <1>5, <1>6 DEF PillInv, AskedFirst, pageVars

\* The tasks keep the invariant.
LEMMA TaskPills ==
  ASSUME TypeOK, PillInv, \/ \E t \in Task : Call(t) \/ TaskSteps(t)
                          \/ CallFinish \/ RemoveJob
  PROVE  PillInv'
<1>1. ASSUME NEW t \in Task, Call(t) PROVE PillInv'
  <2>1. PICK s \in Calls(t) : todo' = [todo EXCEPT ![t] = s]
    BY <1>1 DEF Call
  <2>2. todo[t] = <<>> /\ UNCHANGED <<sent, statuses, pageVars, lagged>>
    BY <1>1 DEF Call
  <2>3. QED
    BY <2>1, <2>2, CallsRecordFirst, CallPills
<1>2. CASE CallFinish
  <2> DEFINE s == EmitStatus("test_runner", "finished") \o <<[do |-> "remove"]>>
  <2>1. /\ todo["orchestrator"] = <<>> /\ todo' = [todo EXCEPT !["orchestrator"] = s]
        /\ UNCHANGED <<sent, statuses, pageVars, lagged>> /\ "orchestrator" \in Task
    BY <1>2 DEF CallFinish, Task
  <2>2. RecordsFirst(s) /\ ~SendsStatusNow(s)
    BY CallsRecordFirst
  <2> HIDE DEF s
  <2>3. QED
    BY <2>1, <2>2, CallPills
<1>3. QED
  BY <1>1, <1>2, RecordPills, SendPills, RemovePills DEF TaskSteps

\* The pages that an action does not concern go on knowing what they know.
LEMMA OthersPills ==
  ASSUME PillInv, UNCHANGED <<todo, sent, statuses>>, lagged \subseteq lagged', NEW p \in Page,
         page'[p] = page[p], asked'[p] = asked[p], pageAt'[p] = pageAt[p], pill'[p] = pill[p]
  PROVE  AskedFirst(p)' /\ \A q \in Process : Knows(p, q)' /\ ShowsLast(p, q)'
<1>1. \A q : SentOf(q)' = SentOf(q) /\ Pending(q)' = Pending(q)
  BY DEF SentOf, Pending
<1>2. ASSUME NEW q \in Process PROVE Knows(p, q)' /\ ShowsLast(p, q)'
  <2>1. Knows(p, q) /\ ShowsLast(p, q)
    BY DEF PillInv
  <2>2. Knows(p, q)'
    BY <1>1, <2>1, KnowsStays DEF SentSince
  <2>3. ShowsLast(p, q)'
    BY <1>1, <2>1 DEF ShowsLast
  <2>4. QED
    BY <2>2, <2>3
<1>3. AskedFirst(p)'
  BY DEF PillInv, AskedFirst
<1>4. QED
  BY <1>2, <1>3

\* So an action that leaves the tasks, the channel and the statuses keeps the
\* invariant if the page it is about is right afterwards.
LEMMA OnePagePills ==
  ASSUME PillInv, UNCHANGED <<todo, sent, statuses>>, lagged \subseteq lagged', NEW p \in Page,
         \A r \in Page : r # p => /\ page'[r] = page[r] /\ asked'[r] = asked[r]
                                  /\ pageAt'[r] = pageAt[r] /\ pill'[r] = pill[r],
         AskedFirst(p)' /\ \A q \in Process : Knows(p, q)' /\ ShowsLast(p, q)'
  PROVE  PillInv'
<1>1. \A t \in Task : RecordedFirst(t)'
  BY DEF PillInv, RecordedFirst
<1>2. \A q \in Process : SentOf(q)' # {} => statuses'[q] # "unknown"
  BY DEF PillInv, SentOf
<1>3. ASSUME NEW r \in Page PROVE AskedFirst(r)' /\ \A q \in Process : Knows(r, q)' /\ ShowsLast(r, q)'
  BY OthersPills
<1>4. QED
  BY <1>1, <1>2, <1>3 DEF PillInv

\* A page that has asked knows the statuses; one that opens takes them over.
LEMMA AskPills ==
  ASSUME TypeOK, PillInv, NEW p \in Page,
         AskStatuses(p) \/ AskLogs(p) \/ Subscribe(p) \/ AskInVain(p) \/ StreamEnds(p)
  PROVE  PillInv'
<1> USE DEF taskVars
<1>1. CASE AskStatuses(p)
  <2>1. /\ page'[p] = "statuses" /\ asked'[p].statuses = statuses
        /\ \A r \in Page : r # p => page'[r] = page[r] /\ asked'[r] = asked[r]
        /\ UNCHANGED <<todo, sent, statuses, pageAt, pill, lagged>>
    BY <1>1 DEF AskStatuses, TypeOK
  <2>2. AskedFirst(p)' /\ \A q \in Process : Knows(p, q)' /\ ShowsLast(p, q)'
    BY <2>1 DEF AskedFirst, Knows, ShowsLast
  <2>3. QED
    BY <2>1, <2>2, OnePagePills
<1>2. CASE AskLogs(p)
  <2>1. /\ page[p] = "statuses" /\ page'[p] = "logs"
        /\ asked'[p].statuses = asked[p].statuses /\ asked'[p].since = asked[p].since
        /\ \A r \in Page : r # p => page'[r] = page[r] /\ asked'[r] = asked[r]
        /\ UNCHANGED <<todo, sent, statuses, pageAt, pill, lagged>>
    BY <1>2 DEF AskLogs, TypeOK
  <2>2. ASSUME NEW q \in Process PROVE Knows(p, q)'
    <3>1. SentSince(p, q) => SentSince(p, q)'
      BY <2>1 DEF SentSince, SentOf
    <3>2. Pending(q) => Pending(q)'
      BY <2>1 DEF Pending
    <3>3. SentSince(p, q) \/ Pending(q) \/ asked[p].statuses[q] = statuses[q]
      BY <2>1 DEF PillInv, Knows
    <3>4. QED
      BY <2>1, <3>1, <3>2, <3>3 DEF Knows
  <2>3. AskedFirst(p)' /\ \A q \in Process : ShowsLast(p, q)'
    BY <2>1 DEF AskedFirst, ShowsLast
  <2>4. QED
    BY <2>1, <2>2, <2>3, OnePagePills
<1>3. CASE Subscribe(p)
  <2>1. /\ page[p] = "logs" /\ page'[p] = "open"
        /\ asked'[p].at = AtEnd /\ asked'[p].since = asked[p].since /\ pageAt'[p] = AtEnd
        /\ \A r \in Page : r # p => /\ page'[r] = page[r] /\ asked'[r] = asked[r]
                                    /\ pageAt'[r] = pageAt[r] /\ pill'[r] = pill[r]
        /\ UNCHANGED <<todo, sent, statuses, lagged>>
    BY <1>3 DEF Subscribe, Subscribed, TypeOK
  <2>2. \A q \in Process : \/ pill'[p][q] = asked[p].statuses[q]
                           \/ asked[p].statuses[q] = "unknown"
    BY <1>3 DEF Subscribe, TypeOK
  <2>3. ASSUME NEW q \in Process PROVE Knows(p, q)'
    <3>1. SentSince(p, q) => SentSince(p, q)'
      BY <2>1 DEF SentSince, SentOf
    <3>2. Pending(q) => Pending(q)'
      BY <2>1 DEF Pending
    <3>3. SentSince(p, q) \/ Pending(q) \/ asked[p].statuses[q] = statuses[q]
      BY <2>1 DEF PillInv, Knows
    <3>4. QED
      BY <2>1, <2>2, <3>1, <3>2, <3>3 DEF Knows
  <2>4. asked[p].since <= AtEnd /\ AtEnd \in Nat /\ AtEnd' = AtEnd
    BY <2>1, OldestIsPosition DEF TypeOK, AtEnd
  <2>5. AskedFirst(p)'
    BY <2>1, <2>4 DEF AskedFirst
  <2>6. ASSUME NEW q \in Process PROVE ShowsLast(p, q)'
    <3>1. \A i \in SentOf(q)' : ~(asked'[p].at <= i /\ i < pageAt'[p])
      BY <2>1, <2>4 DEF SentOf, AtEnd, TypeOK
    <3>2. QED
      BY <3>1 DEF ShowsLast
  <2>7. QED
    BY <2>1, <2>3, <2>5, <2>6, OnePagePills
<1>4. CASE AskInVain(p) \/ StreamEnds(p)
  <2>1. /\ page'[p] = "closed" /\ \A r \in Page : r # p => page'[r] = page[r]
        /\ UNCHANGED <<todo, sent, statuses, asked, pageAt, pill, lagged>>
    BY <1>4 DEF AskInVain, StreamEnds, TypeOK
  <2>2. AskedFirst(p)' /\ \A q \in Process : Knows(p, q)' /\ ShowsLast(p, q)'
    BY <2>1 DEF AskedFirst, Knows, ShowsLast
  <2>3. QED
    BY <2>1, <2>2, OnePagePills
<1>5. QED
  BY <1>1, <1>2, <1>3, <1>4

\* A page that is given a status shows it.
LEMMA ReceivePills ==
  ASSUME TypeOK, PillInv, NEW p \in Page, PageReceives(p)
  PROVE  PillInv'
<1> DEFINE i == pageAt[p]
<1> DEFINE e == sent[i]
<1>1. /\ page[p] = "open" /\ page'[p] \in {"open", "closed"} /\ i \in Nat /\ i \in 1 .. Len(sent)
      /\ pageAt'[p] = i + 1 /\ asked' = asked
      /\ \A r \in Page : r # p => page'[r] = page[r] /\ pageAt'[r] = pageAt[r] /\ pill'[r] = pill[r]
      /\ UNCHANGED <<todo, sent, statuses, lagged>>
  BY OldestIsPosition DEF PageReceives, TypeOK, taskVars
<1>2. e \in Event
  BY <1>1 DEF TypeOK
<1>3. ASSUME NEW q \in Process
      PROVE  pill'[p][q] = IF IsStatus(e, q) THEN e.status ELSE pill[p][q]
  BY <1>1, <1>3 DEF PageReceives, TypeOK, IsStatus
<1>4. asked[p].since <= asked[p].at /\ asked[p].at <= i
  BY <1>1 DEF PillInv, AskedFirst
<1>5. asked[p].since \in Nat /\ asked[p].at \in Nat
  BY OldestIsPosition DEF TypeOK
<1> HIDE DEF i, e
<1>6. AskedFirst(p)'
  BY <1>1, <1>4, <1>5 DEF AskedFirst
<1>7. \A q : SentOf(q)' = SentOf(q) /\ Pending(q)' = Pending(q) /\ SentSince(p, q)' = SentSince(p, q)
  BY <1>1 DEF SentOf, Pending, SentSince
<1>8. \A q \in Process : IsStatus(e, q) <=> i \in SentOf(q)
  BY <1>1 DEF SentOf, IsStatus, e
<1>9. ASSUME NEW q \in Process PROVE Knows(p, q)'
  <2>1. CASE IsStatus(e, q)
    <3>1. SentSince(p, q)
      BY <1>1, <1>4, <1>5, <1>8, <2>1 DEF SentSince
    <3>2. QED
      BY <1>1, <1>7, <3>1 DEF Knows
  <2>2. CASE ~IsStatus(e, q)
    <3>1. Knows(p, q) /\ pill'[p][q] = pill[p][q]
      BY <1>3, <2>2 DEF PillInv
    <3>2. QED
      BY <1>1, <1>7, <3>1 DEF Knows
  <2>3. QED
    BY <2>1, <2>2
<1>10. ASSUME NEW q \in Process PROVE ShowsLast(p, q)'
  <2> SUFFICES ASSUME p \notin lagged, NEW k \in SentOf(q),
                      asked[p].at <= k, k < i + 1,
                      \A j \in SentOf(q) : j < i + 1 => j <= k
               PROVE  pill'[p][q] = sent[k].status
    BY <1>1, <1>7 DEF ShowsLast
  <2>1. SentOf(q) \subseteq Nat
    BY DEF SentOf
  <2>2. CASE IsStatus(e, q)
    <3>1. i <= k
      BY <1>1, <1>8, <2>2
    <3>2. k = i
      BY <1>1, <2>1, <3>1
    <3>3. QED
      BY <1>3, <2>2, <3>2 DEF e
  <2>3. CASE ~IsStatus(e, q)
    <3>1. k # i
      BY <1>8, <2>3
    <3>2. k < i /\ \A j \in SentOf(q) : j < i => j <= k
      BY <1>1, <2>1, <3>1
    <3>3. ShowsLast(p, q)
      BY DEF PillInv
    <3>4. pill[p][q] = sent[k].status
      BY <1>1, <3>2, <3>3 DEF ShowsLast, i
    <3>5. QED
      BY <1>3, <2>3, <3>4
  <2>4. QED
    BY <2>2, <2>3
<1>11. QED
  BY <1>1, <1>6, <1>9, <1>10, OnePagePills

\* A page that has lost events may have lost a status.
LEMMA LagPills ==
  ASSUME TypeOK, PillInv, NEW p \in Page, PageLags(p)
  PROVE  PillInv'
<1>1. /\ page[p] = "open" /\ pageAt'[p] = Oldest /\ pageAt[p] < Oldest /\ lagged' = lagged \cup {p}
      /\ \A r \in Page : r # p => pageAt'[r] = pageAt[r]
      /\ UNCHANGED <<todo, sent, statuses, page, asked, pill>>
  BY DEF PageLags, TypeOK, taskVars
<1>2. /\ asked[p].since \in Nat /\ asked[p].at \in Nat /\ pageAt[p] \in Nat /\ Oldest \in Nat
      /\ asked[p].since <= asked[p].at /\ asked[p].at <= pageAt[p]
  BY <1>1, OldestIsPosition DEF TypeOK, PillInv, AskedFirst
<1>3. AskedFirst(p)'
  BY <1>1, <1>2 DEF AskedFirst
<1>4. \A q \in Process : ShowsLast(p, q)'
  BY <1>1 DEF ShowsLast
<1>5. ASSUME NEW q \in Process PROVE Knows(p, q)'
  <2>1. Knows(p, q)
    BY DEF PillInv
  <2>2. SentSince(p, q)' = SentSince(p, q) /\ Pending(q)' = Pending(q)
    BY <1>1 DEF SentSince, SentOf, Pending
  <2>3. QED
    BY <1>1, <2>1, <2>2 DEF Knows
<1>6. QED
  BY <1>1, <1>3, <1>4, <1>5, OnePagePills

\* The invariant of what pages show of the processes.
LEMMA PillInductive == Spec => []PillInv
<1>1. Init => PillInv
  <2> SUFFICES ASSUME Init PROVE PillInv
    OBVIOUS
  <2>1. \A t \in Task : todo[t] = <<>>
    BY DEF Init
  <2>2. \A t \in Task : RecordedFirst(t)
    BY <2>1 DEF RecordedFirst, RecordsFirst, SendsStatusNow
  <2>3. \A q : SentOf(q) = {}
    BY DEF Init, SentOf
  <2>4. \A p \in Page : page[p] = "away"
    BY DEF Init
  <2>5. QED
    BY <2>2, <2>3, <2>4 DEF PillInv, AskedFirst, Knows, ShowsLast
<1>2. TypeOK /\ PillInv /\ [Next]_vars => PillInv'
  <2> SUFFICES ASSUME TypeOK, PillInv, [Next]_vars PROVE PillInv'
    OBVIOUS
  <2>1. CASE RingSteps
    <3>1. UNCHANGED <<todo, sent, statuses, page, asked, pageAt, pill>> /\ lagged \subseteq lagged'
      BY <2>1 DEF RingSteps, RingReceives, RingLags, RingEnds, taskVars, pageVars
    <3>2. \A t \in Task : RecordedFirst(t)'
      BY <3>1 DEF PillInv, RecordedFirst
    <3>3. \A q \in Process : SentOf(q)' # {} => statuses'[q] # "unknown"
      BY <3>1 DEF PillInv, SentOf
    <3>4. \A p \in Page : AskedFirst(p)' /\ \A q \in Process : Knows(p, q)' /\ ShowsLast(p, q)'
      BY <3>1, OthersPills
    <3>5. QED
      BY <3>2, <3>3, <3>4 DEF PillInv
  <2>2. ASSUME NEW p \in Page, AskStatuses(p) \/ AskInVain(p) \/ PageSteps(p) PROVE PillInv'
    BY <2>2, AskPills, ReceivePills, LagPills DEF PageSteps
  <2>3. CASE UNCHANGED vars
    <3>1. UNCHANGED <<todo, sent, statuses, page, asked, pageAt, pill, lagged>>
      BY <2>3 DEF vars, taskVars, pageVars
    <3>2. \A t \in Task : RecordedFirst(t)'
      BY <3>1 DEF PillInv, RecordedFirst
    <3>3. \A q \in Process : SentOf(q)' # {} => statuses'[q] # "unknown"
      BY <3>1 DEF PillInv, SentOf
    <3>4. \A p \in Page : AskedFirst(p)' /\ \A q \in Process : Knows(p, q)' /\ ShowsLast(p, q)'
      BY <3>1, OthersPills
    <3>5. QED
      BY <3>2, <3>3, <3>4 DEF PillInv
  <2>4. QED
    BY <2>1, <2>2, <2>3, TaskPills DEF Next
<1>3. QED
  BY <1>1, <1>2, TypeCorrect, PTL DEF Spec

\* A page that has been given everything shows of each process the status the
\* job service has recorded, whenever it asked; unless the last one was sent
\* while it was asking, or two tasks sent theirs in the other order.
THEOREM PillsAreTrue == Spec => []PillIsTrue
<1>1. TypeOK /\ PillInv => PillIsTrue
  <2> SUFFICES ASSUME TypeOK, PillInv, NEW p \in Page, page[p] = "open", pageAt[p] = AtEnd,
                      p \notin lagged, NEW q \in Process, Quiet(q), SentOf(q) # {}
               PROVE  LET last == CHOOSE i \in SentOf(q) : \A j \in SentOf(q) : j <= i
                      IN  \/ pill[p][q] = statuses[q]
                          \/ last \in asked[p].since .. asked[p].at - 1
                          \/ sent[last].status # statuses[q]
    BY DEF PillIsTrue
  <2> DEFINE last == CHOOSE i \in SentOf(q) : \A j \in SentOf(q) : j <= i
  <2>1. SentOf(q) \subseteq 1 .. Len(sent) /\ Len(sent) \in Nat
    BY DEF SentOf, TypeOK
  <2>2. \E i \in SentOf(q) : \A j \in SentOf(q) : j <= i
    <3>1. SentOf(q) \subseteq Nat /\ \A i \in SentOf(q) : i <= Len(sent)
      BY <2>1
    <3>2. QED
      BY <2>1, <3>1, LargestExists
  <2>3. last \in SentOf(q) /\ \A j \in SentOf(q) : j <= last
    BY <2>2
  <2> HIDE DEF last
  <2>4. last \in Nat /\ asked[p].since \in Nat /\ asked[p].at \in Nat
    BY <2>1, <2>3, OldestIsPosition DEF TypeOK
  <2>4a. last < pageAt[p] /\ \A j \in SentOf(q) : j \in Nat
    BY <2>1, <2>3 DEF AtEnd
  <2>5. CASE last >= asked[p].at
    <3>1. ShowsLast(p, q)
      BY DEF PillInv
    <3>2. pill[p][q] = sent[last].status
      BY <2>3, <2>4a, <2>4, <2>5, <3>1 DEF ShowsLast
    <3>3. QED
      BY <3>2 DEF last
  <2>6. CASE last < asked[p].at /\ last >= asked[p].since
    BY <2>4, <2>6 DEF last
  <2>7. CASE last < asked[p].since
    <3>1. ~SentSince(p, q)
      <4>1. \A j \in SentOf(q) : j \in Nat /\ ~(j >= asked[p].since)
        BY <2>1, <2>3, <2>4, <2>7
      <4>2. QED
        BY <4>1 DEF SentSince
    <3>2. ~Pending(q)
      <4>1. \A e : e.kind = "status" /\ e.process = q <=> IsStatus(e, q)
        BY DEF IsStatus
      <4>2. QED
        BY <4>1 DEF Pending, Quiet
    <3>3. statuses[q] # "unknown" /\ Knows(p, q)
      BY DEF PillInv
    <3>4. pill[p][q] = statuses[q]
      BY <3>1, <3>2, <3>3 DEF Knows
    <3>5. QED
      BY <3>4
  <2>8. QED
    BY <2>4, <2>5, <2>6, <2>7 DEF last
<1>2. QED
  BY <1>1, TypeCorrect, PillInductive, PTL

=============================================================================
