------------------------- MODULE PointExchangeProofs -------------------------
(***************************************************************************)
(* Proofs about PointExchange, for any profile, scenarios and tests, and   *)
(* however often the connection breaks.                                     *)
(***************************************************************************)
EXTENDS PointExchange, DataLemmas

-----------------------------------------------------------------------------
(* What is read, asked and answered.                                        *)

Value == Int \cup BOOLEAN

\* Whether v may be the value of point p, on any of the two sides.
Proper(p, v) ==
  \/ p \in AnalogInput /\ v \in Int /\ Within(AiBounds[p], v)
  \/ p \in AnalogOutput /\ v \in Int /\ Within(AoBounds[p], v)
  \/ p \in BinaryInput /\ v = TRUE
  \/ p \in BinaryOutput /\ v \in BOOLEAN

Reading == {u \in Point \X Value : Proper(u[1], u[2])}
Change == {u \in Reading : u[1] \in AnalogInput}

WriteAo == {c \in [op : {"write_ao"}, point : DOMAIN AoToAi, value : Int] :
              Within(AoBounds[c.point], c.value) => Within(AiBounds[AoToAi[c.point]], c.value)}
WriteBo == [op : {"write_bo"}, point : Latched]
Command == WriteAo \cup WriteBo \cup [op : {"read"}]
Message == [type : {"answer", "integrity"}, status : {"success", "out_of_range"}, values : Seq(Reading)]
           \cup [type : {"report"}, status : {"success"}, values : Seq(Change)]

Loops == [at : Passes \cup {"select", "test"}, writer : 0 .. 3, script : Seq(Command),
          i : Nat \ {0}, waits : BOOLEAN, since : Int]

Outstation ==
  /\ inputs \in [Input -> Value] /\ \A p \in Input : Proper(p, inputs[p])
  /\ statuses \in [AnalogOutput \cup BinaryOutput -> Value]
  /\ \A p \in AnalogOutput \cup BinaryOutput : Proper(p, statuses[p])
  /\ operated \subseteq AnalogOutput \cup BinaryOutput /\ refused \subseteq AnalogOutput
  /\ changes \in Seq(Change) /\ reported \in 0 .. Len(changes)

Connection ==
  /\ reqs \in Seq(Command \cup [op : {"integrity", "confirm"}])
  /\ wire \in Seq(Message)

Station ==
  /\ latest \in [Point -> Value \cup {Nothing}]
  /\ sent \subseteq DOMAIN AoToAi \cup Latched
  /\ outOfRange = {}
  /\ expected \in [AnalogInput -> Int]
  /\ \A a \in DOMAIN AoToAi : Within(AoBounds[a], expected[AoToAi[a]])
                                => Within(AiBounds[AoToAi[a]], expected[AoToAi[a]])
  /\ scenario \in 0 .. Len(Plan) /\ notify \in BOOLEAN /\ broken \in Nat
  /\ loop \in Loops

TypeOK == Outstation /\ Connection /\ Station

-----------------------------------------------------------------------------
(* Which value of a point is the newest in a message.                       *)

Mentions(s, p) == \E n \in DOMAIN s : s[n][1] = p
Newest(s, p, v) ==
  \E n \in DOMAIN s : s[n] = <<p, v>> /\ \A m \in DOMAIN s : m > n => s[m][1] # p

\* What the outstation has for a point.
Current(p) == IF p \in Input THEN inputs[p] ELSE statuses[p]

Settled(s) == \A p \in Point : Mentions(s, p) => Newest(s, p, Current(p))
Complete(s) == \A p \in Point : Newest(s, p, Current(p))

-----------------------------------------------------------------------------
(* The one request that is open.                                            *)

IsCommand(r) == r.op \in {"write_ao", "write_bo", "read"}

\* What an answer to the request that waits can be.
Answers(m) ==
  \/ /\ Item.op = "write_ao" /\ m.values = <<>> /\ Item.point \in operated
     /\ m.status = "success" => /\ Within(AoBounds[Item.point], Item.value)
                                /\ inputs[AoToAi[Item.point]] = Item.value
     /\ m.status # "success" => ~Within(AoBounds[Item.point], Item.value)
  \/ Item.op = "write_bo" /\ m.values = <<>> /\ Item.point \in operated /\ m.status = "success"
  \/ Item.op = "read" /\ m.status = "success" /\ Complete(m.values)

NoCommand == \A i \in DOMAIN reqs : ~IsCommand(reqs[i])
NoAnswer == \A k \in DOMAIN wire : wire[k].type # "answer"

OneOpen ==
  /\ loop.waits => loop.at \in Passes /\ loop.i \in DOMAIN loop.script
  /\ \A i \in DOMAIN reqs : IsCommand(reqs[i]) =>
       /\ loop.waits /\ reqs[i] = Item
       /\ \A j \in DOMAIN reqs : IsCommand(reqs[j]) => j = i
       /\ NoAnswer
  /\ \A k \in DOMAIN wire : wire[k].type = "answer" =>
       /\ loop.waits /\ Answers(wire[k])
       /\ \A j \in DOMAIN wire : wire[j].type = "answer" => j = k

Link == OneOpen /\ Settled(changes) /\ sent \subseteq operated

-----------------------------------------------------------------------------
(* What the pass that a scenario is judged by has come to.                  *)

\* Nothing has come in between since the pass began.
Undisturbed == loop.at \in {"notified", "test"} /\ ~notify /\ loop.since = broken

Accepts(a) == Within(AoBounds[a], expected[AoToAi[a]])
AoDone(a) == Accepts(a) => a \in sent /\ inputs[AoToAi[a]] = expected[AoToAi[a]]

\* p is still to be written.
Ahead(p) == \E n \in DOMAIN loop.script : n >= loop.i /\ loop.script[n].point = p

NoBinaryYet == \A b \in BinaryInput : latest[b] = Nothing
KnowsAll ==
  /\ \A p \in Point : latest[p] = Current(p)
  /\ \A k \in DOMAIN wire : Settled(wire[k].values)
KnowsAllSoon ==
  \A k \in DOMAIN wire : wire[k].type = "answer" =>
    \A j \in DOMAIN wire : j >= k => Settled(wire[j].values)

Begun == loop.script = <<>> /\ sent = {} /\ NoBinaryYet
WritingAo ==
  /\ NoBinaryYet
  /\ \A n \in DOMAIN loop.script :
       /\ loop.script[n].op = "write_ao"
       /\ loop.script[n].value = expected[AoToAi[loop.script[n].point]]
  /\ \A a \in DOMAIN AoToAi : Ahead(a) \/ AoDone(a)
WritingBo ==
  /\ \A n \in DOMAIN loop.script : loop.script[n].op = "write_bo"
  /\ \A b \in Latched : Ahead(b) \/ b \in sent
BoDone == Latched \subseteq sent
ReadingBack ==
  /\ loop.script = ReadEntries
  /\ IF loop.i = 1 THEN KnowsAllSoon ELSE KnowsAll

ToldSo ==
  /\ \A a \in sent \cap DOMAIN AoToAi : Accepts(a)
  /\ loop.at = "notified" /\ loop.writer = 0 => Begun
  /\ loop.at = "notified" /\ loop.writer = 1 => WritingAo
  /\ loop.at = "test" \/ loop.writer >= 2 => \A a \in DOMAIN AoToAi : AoDone(a)
  /\ loop.at = "notified" /\ loop.writer = 2 => WritingBo
  /\ loop.at = "test" \/ loop.writer = 3 => BoDone
  /\ loop.at = "notified" /\ loop.writer = 3 => ReadingBack
  /\ loop.at = "test" /\ Entries > 0 => KnowsAll

\* No values are yet to come that were asked for before the pass.
Calm ==
  /\ loop.since <= broken
  /\ loop.at \in {"notified", "test"} /\ loop.since = broken => ~Reconnecting

PassInv == Calm /\ (Undisturbed => ToldSo)
-----------------------------------------------------------------------------
(* Facts about messages and the values in them.                             *)

\* A point that is mentioned in a message has a newest value in it.
LEMMA NewestExists ==
  ASSUME NEW S, NEW s \in Seq(S), NEW p, Mentions(s, p)
  PROVE  \E n \in DOMAIN s : s[n][1] = p /\ \A m \in DOMAIN s : m > n => s[m][1] # p
<1> DEFINE N == {n \in DOMAIN s : s[n][1] = p}
<1>1. N # {} /\ N \subseteq Nat /\ Len(s) \in Nat /\ \A n \in N : n <= Len(s)
  BY DEF Mentions
<1>2. PICK n \in N : \A m \in N : m <= n
  <2> HIDE DEF N
  <2>1. QED
    BY <1>1, LargestExists
<1>3. \A m \in DOMAIN s : m \in Nat
  OBVIOUS
<1>4. QED
  BY <1>2, <1>3

\* If all a message says of a point is that it is v, that is the newest, too.
LEMMA OneValueIsNewest ==
  ASSUME NEW S, NEW s \in Seq(S), NEW p, NEW v, Mentions(s, p),
         \A n \in DOMAIN s : s[n][1] = p => s[n] = <<p, v>>
  PROVE  Newest(s, p, v)
BY NewestExists DEF Newest

\* Only one value is the newest.
LEMMA NewestIsOne ==
  ASSUME NEW S, NEW s \in Seq(S), NEW p, NEW v, NEW w, Newest(s, p, v), Newest(s, p, w)
  PROVE  v = w
<1>1. PICK n \in DOMAIN s : s[n] = <<p, v>> /\ \A m \in DOMAIN s : m > n => s[m][1] # p
  BY DEF Newest
<1>2. PICK k \in DOMAIN s : s[k] = <<p, w>> /\ \A m \in DOMAIN s : m > k => s[m][1] # p
  BY DEF Newest
<1>3. n \in Nat /\ k \in Nat /\ ~(n < k) /\ ~(k < n)
  BY <1>1, <1>2
<1>4. n = k
  BY <1>3
<1>5. QED
  BY <1>1, <1>2, <1>4

\* One value more: it is the newest of its point.
LEMMA NewestOfMore ==
  ASSUME NEW S, NEW s \in Seq(S), NEW p, NEW v, <<p, v>> \in S
  PROVE  /\ Newest(Append(s, <<p, v>>), p, v)
         /\ \A q, w : q # p => (Newest(Append(s, <<p, v>>), q, w) <=> Newest(s, q, w))
         /\ \A q : q # p => (Mentions(Append(s, <<p, v>>), q) <=> Mentions(s, q))
<1> DEFINE t == Append(s, <<p, v>>)
<1> DEFINE L == Len(s)
<1>1. /\ L \in Nat /\ DOMAIN s = 1 .. L /\ DOMAIN t = 1 .. L + 1
      /\ t[L + 1] = <<p, v>> /\ \A n \in 1 .. L : t[n] = s[n]
  OBVIOUS
<1> HIDE DEF t, L
<1>2. Newest(t, p, v)
  BY <1>1 DEF Newest
<1>3. ASSUME NEW q, NEW w, q # p PROVE Newest(t, q, w) <=> Newest(s, q, w)
  <2>1. ASSUME Newest(t, q, w) PROVE Newest(s, q, w)
    <3>1. PICK n \in DOMAIN t : t[n] = <<q, w>> /\ \A m \in DOMAIN t : m > n => t[m][1] # q
      BY <2>1 DEF Newest
    <3>2. n # L + 1
      BY <1>1, <1>3, <3>1
    <3>3. n \in 1 .. L
      BY <1>1, <3>2
    <3>4. \A m \in 1 .. L : m \in 1 .. L + 1
      BY <1>1
    <3>5. QED
      BY <1>1, <3>1, <3>3, <3>4 DEF Newest
  <2>2. ASSUME Newest(s, q, w) PROVE Newest(t, q, w)
    <3>1. PICK n \in DOMAIN s : s[n] = <<q, w>> /\ \A m \in DOMAIN s : m > n => s[m][1] # q
      BY <2>2 DEF Newest
    <3>2. n \in DOMAIN t /\ t[n] = <<q, w>>
      BY <1>1, <3>1
    <3>3. ASSUME NEW m \in DOMAIN t, m > n PROVE t[m][1] # q
      <4>1. CASE m = L + 1
        BY <1>1, <1>3, <4>1
      <4>2. CASE m # L + 1
        BY <1>1, <3>1, <3>3, <4>2
      <4>3. QED
        BY <4>1, <4>2
    <3>4. QED
      BY <3>2, <3>3 DEF Newest
  <2>3. QED
    BY <2>1, <2>2
<1>4. ASSUME NEW q, q # p PROVE Mentions(t, q) <=> Mentions(s, q)
  <2>1. \A n \in DOMAIN t : t[n][1] = q => n \in DOMAIN s /\ s[n] = t[n]
    BY <1>1, <1>4
  <2>2. \A n \in DOMAIN s : n \in DOMAIN t /\ s[n] = t[n]
    BY <1>1
  <2>3. QED
    BY <2>1, <2>2 DEF Mentions
<1>5. QED
  BY <1>2, <1>3, <1>4 DEF t

\* The rest of a message says of a point the newest that all of it said, or
\* nothing.
LEMMA NewestOfRest ==
  ASSUME NEW S, NEW s \in Seq(S), NEW k \in 0 .. Len(s), NEW p,
         Mentions(SubSeq(s, k + 1, Len(s)), p)
  PROVE  /\ Mentions(s, p)
         /\ \A v : Newest(s, p, v) => Newest(SubSeq(s, k + 1, Len(s)), p, v)
<1> DEFINE t == SubSeq(s, k + 1, Len(s))
<1> DEFINE L == Len(s)
<1>1. /\ L \in Nat /\ k \in Nat /\ k <= L /\ DOMAIN s = 1 .. L /\ DOMAIN t = 1 .. L - k
      /\ \A n \in 1 .. L - k : t[n] = s[n + k]
  BY SubSeqProperties
<1>2. PICK r \in DOMAIN t : t[r][1] = p
  BY DEF Mentions
<1> HIDE DEF t, L
<1>3. r + k \in DOMAIN s /\ s[r + k][1] = p
  BY <1>1, <1>2
<1>4. ASSUME NEW v, Newest(s, p, v) PROVE Newest(t, p, v)
  <2>1. PICK n \in DOMAIN s : s[n] = <<p, v>> /\ \A m \in DOMAIN s : m > n => s[m][1] # p
    BY <1>4 DEF Newest
  <2>2. n \in Nat /\ n >= r + k /\ r \in Nat /\ r > 0
    BY <1>1, <1>2, <1>3, <2>1
  <2>3. n - k \in DOMAIN t /\ (n - k) + k = n
    BY <1>1, <2>1, <2>2
  <2>4. t[n - k] = <<p, v>>
    BY <1>1, <2>1, <2>3
  <2>5. ASSUME NEW m \in DOMAIN t, m > n - k PROVE t[m][1] # p
    <3>1. m + k \in DOMAIN s /\ m + k > n /\ t[m] = s[m + k]
      BY <1>1, <2>2, <2>5
    <3>2. QED
      BY <2>1, <3>1
  <2>6. QED
    BY <2>3, <2>4, <2>5 DEF Newest
<1>5. QED
  BY <1>3, <1>4 DEF Mentions, t

-----------------------------------------------------------------------------
(* What the control station makes of a message.                             *)

Known == [latest : [Point -> Value \cup {Nothing}], outOfRange : SUBSET Point]

\* A proper value is put down as the newest, and is within its bounds.
LEMMA HandledOnce ==
  ASSUME NEW k \in Known, NEW u \in Reading
  PROVE  /\ Handled(k, u[1], u[2]) \in Known
         /\ Handled(k, u[1], u[2]).outOfRange = k.outOfRange
         /\ Handled(k, u[1], u[2]).latest[u[1]] = u[2]
         /\ \A p \in Point : p # u[1] => Handled(k, u[1], u[2]).latest[p] = k.latest[p]
<1> DEFINE p == u[1]
<1> DEFINE v == u[2]
<1>1. p \in Point /\ v \in Value /\ Proper(p, v)
  BY DEF Reading
<1> HIDE DEF p, v
<1>2. Handled(k, p, v) = WriteRecord(k, p, v)
  <2>1. EnrichAndValidate(k, p, v) = k
    BY <1>1, PointsAssumption DEF Proper, EnrichAndValidate
  <2>2. p \in BinaryInput \cup BinaryOutput \cup AnalogInput \cup AnalogOutput
    BY <1>1 DEF Point, Input
  <2>3. QED
    BY <2>1, <2>2 DEF Handled, HandleBinaryInput, HandleBinaryOutputStatus, HandleAnalogInput,
       HandleAnalogOutputStatus
<1>3. WriteRecord(k, p, v) \in Known
  BY <1>1 DEF WriteRecord, Known
<1>4. /\ WriteRecord(k, p, v).outOfRange = k.outOfRange /\ WriteRecord(k, p, v).latest[p] = v
      /\ \A q \in Point : q # p => WriteRecord(k, p, v).latest[q] = k.latest[q]
  BY <1>1 DEF WriteRecord, Known
<1>5. QED
  BY <1>2, <1>3, <1>4 DEF p, v

\* A message is handled value by value.
LEMMA HandledOneByOne ==
  ASSUME NEW k \in Known, NEW s \in Seq(Reading)
  PROVE  \E g \in [0 .. Len(s) -> Known] :
           /\ g[0] = k
           /\ \A n \in 0 .. Len(s) - 1 : g[n + 1] = Handled(g[n], s[n + 1][1], s[n + 1][2])
           /\ HandledAll(k, s) = g[Len(s)]
<1> DEFINE N == Len(s)
<1> DEFINE H(a, n) == Handled(a, s[n][1], s[n][2])
<1> DEFINE F == [a \in Known \X (1 .. N) |-> H(a[1], a[2])]
<1>1. N \in Nat /\ N = Len(s) /\ DOMAIN s = 1 .. N /\ \A n \in 1 .. N : s[n] \in Reading
  OBVIOUS
<1> DEFINE Eq(f) == f = [t \in SUBSET (DOMAIN s) |->
                         IF t = {} THEN k
                         ELSE LET x == Max(t) IN Handled(f[t \ {x}], s[x][1], s[x][2])]
<1> DEFINE it == CHOOSE f : Eq(f)
<1>2. HandledAll(k, s) = it[DOMAIN s]
  BY DEF HandledAll, FoldLeft, MapThenFoldSet
<1> HIDE DEF it
<1>3. ASSUME NEW a \in Known, NEW n \in 1 .. N PROVE H(a, n) \in Known
  <2>1. s[n] \in Reading
    BY <1>1
  <2>2. QED
    BY <2>1, HandledOnce
<1>4. N \in Nat
  BY <1>1
<1> HIDE DEF N
<1>5. \E f : Eq(f)
  <2>1. F \in [Known \X (1 .. N) -> Known]
    <3>1. \A a \in Known \X (1 .. N) : H(a[1], a[2]) \in Known
      BY <1>3
    <3> HIDE DEF H
    <3>2. QED
      BY <3>1
  <2>2. \A a \in Known, n \in 1 .. N : F[<<a, n>>] = Handled(a, s[n][1], s[n][2])
    OBVIOUS
  <2> HIDE DEF F
  <2>3. PICK f \in [SUBSET (1 .. N) -> Known] : Folds(f, F, k, N)
    BY <1>4, <2>1, FoldExists
  <2>4. ASSUME NEW t \in SUBSET (1 .. N), t # {}
        PROVE  F[<<f[t \ {Max(t)}], Max(t)>>]
                 = Handled(f[t \ {Max(t)}], s[Max(t)][1], s[Max(t)][2])
    <3>1. Max(t) \in 1 .. N
      BY <1>4, <2>4, MaxIn
    <3>2. t \ {Max(t)} \in SUBSET (1 .. N)
      OBVIOUS
    <3>3. QED
      BY <2>2, <2>3, <3>1, <3>2
  <2>5. \A t \in SUBSET (1 .. N) :
          f[t] = IF t = {} THEN k ELSE Handled(f[t \ {Max(t)}], s[Max(t)][1], s[Max(t)][2])
    BY <2>3, <2>4 DEF Folds
  <2>6. f = [t \in SUBSET (1 .. N) |->
               IF t = {} THEN k ELSE Handled(f[t \ {Max(t)}], s[Max(t)][1], s[Max(t)][2])]
    BY <2>5
  <2>7. QED
    BY <1>1, <2>6
<1>6. Eq(it)
  <2> HIDE DEF Eq
  <2>1. QED
    BY <1>5 DEF it
<1>7. \A t \in SUBSET (1 .. N) :
        it[t] = IF t = {} THEN k ELSE Handled(it[t \ {Max(t)}], s[Max(t)][1], s[Max(t)][2])
  <2>1. it = [t \in SUBSET (1 .. N) |->
                IF t = {} THEN k ELSE Handled(it[t \ {Max(t)}], s[Max(t)][1], s[Max(t)][2])]
    BY <1>1, <1>6
  <2>2. QED
    BY <2>1
<1> HIDE DEF Eq, F, H
<1> DEFINE g == [n \in 0 .. N |-> it[1 .. n]]
<1>8. g[0] = k /\ g[N] = it[DOMAIN s]
  <2>1. 1 .. 0 = {} /\ 1 .. 0 \in SUBSET (1 .. N)
    BY <1>4
  <2>2. it[1 .. 0] = k
    BY <1>7, <2>1
  <2>3. QED
    BY <1>1, <2>2
<1>9. ASSUME NEW n \in 0 .. N - 1 PROVE g[n + 1] = Handled(g[n], s[n + 1][1], s[n + 1][2])
  <2>1. 1 .. n + 1 \in SUBSET (1 .. N) /\ 1 .. n + 1 # {} /\ n + 1 \in 1 .. n + 1
    <3> HIDE DEF g
    <3>1. n \in Nat /\ n + 1 <= N
      BY <1>4
    <3>2. \A m \in 1 .. n + 1 : m \in 1 .. N
      BY <1>4, <3>1
    <3>3. n + 1 \in 1 .. n + 1
      BY <3>1
    <3>4. QED
      BY <3>2, <3>3
  <2>2. Max(1 .. n + 1) = n + 1
    <3>1. 1 .. n + 1 \subseteq Nat /\ \A x \in 1 .. n + 1 : x <= n + 1
      OBVIOUS
    <3>2. QED
      BY <2>1, <3>1, MaxOf
  <2>3. (1 .. n + 1) \ {n + 1} = 1 .. n
    BY <1>4
  <2>4. it[1 .. n + 1] = Handled(it[1 .. n], s[n + 1][1], s[n + 1][2])
    BY <1>7, <2>1, <2>2, <2>3
  <2>5. g[n + 1] = it[1 .. n + 1] /\ g[n] = it[1 .. n]
    BY <1>4
  <2>6. QED
    BY <2>4, <2>5
<1> HIDE DEF g
<1>10. ASSUME NEW n \in Nat, n <= N => g[n] \in Known PROVE n + 1 <= N => g[n + 1] \in Known
  <2> SUFFICES ASSUME n + 1 <= N PROVE g[n + 1] \in Known
    OBVIOUS
  <2>1. n \in 0 .. N - 1 /\ n + 1 \in 1 .. N /\ g[n] \in Known
    BY <1>4, <1>10
  <2>2. QED
    BY <1>3, <1>9, <2>1 DEF H
<1>11. \A n \in 0 .. N : g[n] \in Known
  <2> DEFINE T == {n \in Nat : n <= N => g[n] \in Known}
  <2>1. 0 \in T
    BY <1>8
  <2>2. \A n \in Nat : n \in T => n + 1 \in T
    BY <1>10
  <2>3. \A n \in Nat : n \in T
    <3> HIDE DEF T
    <3>1. QED
      BY <2>1, <2>2, SetInduction
  <2>4. QED
    BY <2>3
<1>12. g \in [0 .. N -> Known]
  BY <1>11 DEF g
<1>13. QED
  BY <1>1, <1>2, <1>8, <1>9, <1>12

\* Of each point the newest value of a message is what is known afterwards.
LEMMA NewestIsKnown ==
  ASSUME NEW k \in Known, NEW s \in Seq(Reading)
  PROVE  /\ HandledAll(k, s) \in Known
         /\ HandledAll(k, s).outOfRange = k.outOfRange
         /\ \A p \in Point : /\ ~Mentions(s, p) => HandledAll(k, s).latest[p] = k.latest[p]
                             /\ \A v : Newest(s, p, v) => HandledAll(k, s).latest[p] = v
<1>1. PICK g \in [0 .. Len(s) -> Known] :
        /\ g[0] = k
        /\ \A n \in 0 .. Len(s) - 1 : g[n + 1] = Handled(g[n], s[n + 1][1], s[n + 1][2])
        /\ HandledAll(k, s) = g[Len(s)]
  BY HandledOneByOne
<1> DEFINE N == Len(s)
<1>2. N \in Nat /\ DOMAIN s = 1 .. N /\ \A n \in 1 .. N : s[n] \in Reading
  OBVIOUS
<1>3. g \in [0 .. N -> Known] /\ g[0] = k /\ HandledAll(k, s) = g[N]
  BY <1>1
<1>4. ASSUME NEW n \in 0 .. N - 1
      PROVE  /\ g[n + 1].outOfRange = g[n].outOfRange
             /\ g[n + 1].latest[s[n + 1][1]] = s[n + 1][2]
             /\ \A p \in Point : p # s[n + 1][1] => g[n + 1].latest[p] = g[n].latest[p]
  <2>1. g[n] \in Known /\ s[n + 1] \in Reading
    BY <1>2, <1>3
  <2> DEFINE a == g[n]
  <2> DEFINE b == g[n + 1]
  <2> DEFINE u == s[n + 1]
  <2>2. b = Handled(a, u[1], u[2])
    BY <1>1
  <2> HIDE DEF a, b, u
  <2>3. a \in Known /\ u \in Reading
    BY <2>1 DEF a, u
  <2>4. /\ b.outOfRange = a.outOfRange /\ b.latest[u[1]] = u[2]
        /\ \A p \in Point : p # u[1] => b.latest[p] = a.latest[p]
    BY <2>2, <2>3, HandledOnce
  <2>5. QED
    BY <2>4 DEF a, b, u
<1> HIDE DEF N
<1> DEFINE Upto(n) ==
      /\ g[n].outOfRange = k.outOfRange
      /\ \A p \in Point :
           /\ (\A m \in 1 .. n : s[m][1] # p) => g[n].latest[p] = k.latest[p]
           /\ \A m \in 1 .. n : s[m][1] = p /\ (\A l \in 1 .. n : l > m => s[l][1] # p)
                => g[n].latest[p] = s[m][2]
<1> DEFINE T == {n \in Nat : n <= N => Upto(n)}
<1>5. 0 \in T
  BY <1>3
<1>6. ASSUME NEW n \in Nat, n <= N => Upto(n), n + 1 <= N PROVE Upto(n + 1)
  <2>1. n \in 0 .. N - 1 /\ Upto(n)
    BY <1>2, <1>6
  <2>2. g[n + 1].outOfRange = k.outOfRange
    BY <1>4, <2>1
  <2>3. \A m \in 1 .. n : m \in 1 .. n + 1 /\ m # n + 1
    BY <1>6
  <2>3a. n + 1 \in 1 .. n + 1 /\ \A m \in 1 .. n + 1 : m = n + 1 \/ m \in 1 .. n
    BY <1>6
  <2>4. ASSUME NEW p \in Point, \A m \in 1 .. n + 1 : s[m][1] # p
        PROVE  g[n + 1].latest[p] = k.latest[p]
    BY <1>4, <2>1, <2>3, <2>3a, <2>4
  <2>5. ASSUME NEW p \in Point, NEW m \in 1 .. n + 1, s[m][1] = p,
               \A l \in 1 .. n + 1 : l > m => s[l][1] # p
        PROVE  g[n + 1].latest[p] = s[m][2]
    <3>1. CASE m = n + 1
      BY <1>4, <2>1, <2>5, <3>1
    <3>2. CASE m # n + 1
      <4>1. m \in 1 .. n /\ n + 1 > m
        BY <1>6, <3>2
      <4>2. s[n + 1][1] # p
        BY <2>3a, <2>5, <4>1
      <4>3. \A l \in 1 .. n : l > m => s[l][1] # p
        BY <2>3, <2>5
      <4>4. g[n].latest[p] = s[m][2]
        BY <2>1, <2>5, <4>1, <4>3
      <4>5. QED
        BY <1>4, <2>1, <4>2, <4>4
    <3>3. QED
      BY <3>1, <3>2
  <2>6. QED
    BY <2>2, <2>4, <2>5
<1>7. Upto(N)
  <2> HIDE DEF Upto
  <2>1. \A n \in Nat : n \in T => n + 1 \in T
    BY <1>6
  <2>2. \A n \in Nat : n \in T
    <3> HIDE DEF T
    <3>1. QED
      BY <1>5, <2>1, SetInduction
  <2>3. QED
    BY <1>2, <2>2
<1>8. ASSUME NEW p \in Point, ~Mentions(s, p) PROVE g[N].latest[p] = k.latest[p]
  BY <1>2, <1>7, <1>8 DEF Mentions
<1>9. ASSUME NEW p \in Point, NEW v, Newest(s, p, v) PROVE g[N].latest[p] = v
  <2>1. PICK m \in DOMAIN s : s[m] = <<p, v>> /\ \A l \in DOMAIN s : l > m => s[l][1] # p
    BY <1>9 DEF Newest
  <2>2. s[m][1] = p /\ s[m][2] = v
    BY <2>1
  <2>3. /\ m \in 1 .. N /\ s[m][1] = p /\ \A l \in 1 .. N : l > m => s[l][1] # p
        /\ \A j \in 1 .. N : s[j][1] = p /\ (\A l \in 1 .. N : l > j => s[l][1] # p)
             => g[N].latest[p] = s[j][2]
    BY <1>2, <1>7, <2>1, <2>2
  <2>4. QED
    BY <2>2, <2>3
<1>10. g[N] \in Known
  BY <1>2, <1>3
<1>11. QED
  BY <1>3, <1>7, <1>8, <1>9, <1>10

-----------------------------------------------------------------------------
(* What the outstation has, and what the control loop asks for.             *)

\* All that s says is what the outstation has.
Said(s) == s \in Seq(Reading) /\ \A n \in DOMAIN s : s[n] = <<s[n][1], Current(s[n][1])>>

\* What the outstation has of a point is within the point's bounds.
LEMMA CurrentIsProper ==
  ASSUME TypeOK, NEW p \in Point
  PROVE  Proper(p, Current(p)) /\ Current(p) \in Value /\ Current(p) # Nothing
<1>1. p \in Input \/ p \in AnalogOutput \cup BinaryOutput
  BY DEF Point
<1>2. Current(p) \in Value /\ Proper(p, Current(p))
  BY <1>1 DEF TypeOK, Outstation, Current
<1>3. Nothing \notin Value
  BY PointsAssumption DEF Value
<1>4. QED
  BY <1>2, <1>3

\* What the outstation has for some points, put into a sequence.
LEMMA ValuesOf ==
  ASSUME TypeOK, NEW Q, Q \subseteq Point, NEW f, \A p \in Q : f[p] = Current(p)
  PROVE  /\ Said(SetToSeq({<<p, f[p]>> : p \in Q}))
         /\ \A q \in Q : Mentions(SetToSeq({<<p, f[p]>> : p \in Q}), q)
<1> DEFINE g == [p \in Q |-> <<p, f[p]>>]
<1> DEFINE S == {<<p, f[p]>> : p \in Q}
<1> DEFINE s == SetToSeq(S)
<1>1. IsFiniteSet(Q)
  BY PointsAssumption, FS_Subset
<1>2. S = {g[p] : p \in Q}
  OBVIOUS
<1>3. IsFiniteSet(S)
  <2> HIDE DEF g, S
  <2>1. QED
    BY <1>1, <1>2, FiniteImage
<1>4. \A u \in S : u \in Reading /\ u = <<u[1], Current(u[1])>>
  <2> SUFFICES ASSUME NEW p \in Q
               PROVE  <<p, f[p]>> \in Reading /\ f[p] = Current(p)
    OBVIOUS
  <2>1. QED
    BY CurrentIsProper DEF Reading
<1> HIDE DEF S
<1>5. s \in Seq(S) /\ \A x \in S : \E n \in DOMAIN s : s[n] = x
  BY <1>3, SequenceOfSet
<1> HIDE DEF s
<1>6. \A n \in DOMAIN s : s[n] \in S
  BY <1>5
<1>7. Said(s)
  <2>1. s \in Seq(Reading)
    BY <1>4, <1>5
  <2>2. QED
    BY <1>4, <1>6, <2>1 DEF Said
<1>8. ASSUME NEW p \in Q PROVE Mentions(s, p)
  <2>1. <<p, f[p]>> \in S
    BY DEF S
  <2>2. PICK n \in DOMAIN s : s[n] = <<p, f[p]>>
    BY <1>5, <2>1
  <2>3. QED
    BY <2>2 DEF Mentions
<1>9. QED
  BY <1>7, <1>8 DEF s, S

\* One message after the other, and what both say.
LEMMA SaidTogether ==
  ASSUME NEW s, NEW t, Said(s), Said(t)
  PROVE  /\ Said(s \o t)
         /\ \A p : Mentions(s, p) \/ Mentions(t, p) => Mentions(s \o t, p)
<1>1. /\ s \in Seq(Reading) /\ t \in Seq(Reading) /\ s \o t \in Seq(Reading)
      /\ Len(s) \in Nat /\ Len(t) \in Nat /\ DOMAIN (s \o t) = 1 .. Len(s) + Len(t)
      /\ DOMAIN s = 1 .. Len(s) /\ DOMAIN t = 1 .. Len(t)
      /\ \A n \in 1 .. Len(s) : (s \o t)[n] = s[n]
      /\ \A n \in 1 .. Len(t) : (s \o t)[Len(s) + n] = t[n]
  BY DEF Said
<1> DEFINE u == s \o t
<1> DEFINE L == Len(s)
<1>2. /\ \A n \in DOMAIN s : n \in DOMAIN u /\ u[n] = s[n]
      /\ \A n \in DOMAIN t : L + n \in DOMAIN u /\ u[L + n] = t[n]
      /\ \A n \in DOMAIN u : n \in DOMAIN s \/ n - L \in DOMAIN t
      /\ \A n \in DOMAIN u : L + (n - L) = n
  BY <1>1
<1> HIDE DEF u
<1>3. ASSUME NEW n \in DOMAIN u PROVE u[n] = <<u[n][1], Current(u[n][1])>>
  <2>1. CASE n \in DOMAIN s
    BY <1>2, <2>1 DEF Said
  <2>2. CASE n - L \in DOMAIN t
    BY <1>2, <2>2 DEF Said
  <2>3. QED
    BY <1>2, <2>1, <2>2
<1>4. ASSUME NEW p, Mentions(s, p) \/ Mentions(t, p) PROVE Mentions(u, p)
  BY <1>2, <1>4 DEF Mentions
<1>5. QED
  BY <1>1, <1>3, <1>4 DEF Said, u

\* A class 0 read is answered with the current value of every point.
LEMMA AllValuesComplete ==
  ASSUME TypeOK
  PROVE  AllValues \in Seq(Reading) /\ Complete(AllValues)
<1> DEFINE bi == SetToSeq({<<p, inputs[p]>> : p \in BinaryInput})
<1> DEFINE ai == SetToSeq({<<p, inputs[p]>> : p \in AnalogInput})
<1> DEFINE ao == SetToSeq({<<p, statuses[p]>> : p \in AnalogOutput})
<1> DEFINE bo == SetToSeq({<<p, statuses[p]>> : p \in BinaryOutput})
<1>1. /\ \A p \in BinaryInput \cup AnalogInput : p \in Point /\ inputs[p] = Current(p)
      /\ \A p \in AnalogOutput \cup BinaryOutput : p \in Point /\ statuses[p] = Current(p)
  BY PointsAssumption DEF Point, Input, Current
<1>1a. /\ BinaryInput \subseteq Point /\ AnalogInput \subseteq Point
       /\ AnalogOutput \subseteq Point /\ BinaryOutput \subseteq Point
  BY DEF Point, Input
<1>2a. Said(bi) /\ \A p \in BinaryInput : Mentions(bi, p)
  <2>1. \A p \in BinaryInput : inputs[p] = Current(p)
    BY <1>1
  <2>2. QED
    BY <1>1a, <2>1, ValuesOf
<1>2b. Said(ai) /\ \A p \in AnalogInput : Mentions(ai, p)
  <2>1. \A p \in AnalogInput : inputs[p] = Current(p)
    BY <1>1
  <2>2. QED
    BY <1>1a, <2>1, ValuesOf
<1>3a. Said(ao) /\ \A p \in AnalogOutput : Mentions(ao, p)
  <2>1. \A p \in AnalogOutput : statuses[p] = Current(p)
    BY <1>1
  <2>2. QED
    BY <1>1a, <2>1, ValuesOf
<1>3b. Said(bo) /\ \A p \in BinaryOutput : Mentions(bo, p)
  <2>1. \A p \in BinaryOutput : statuses[p] = Current(p)
    BY <1>1
  <2>2. QED
    BY <1>1a, <2>1, ValuesOf
<1>4. AllValues = bi \o ai \o ao \o bo
  BY DEF AllValues
<1> HIDE DEF bi, ai, ao, bo
<1> DEFINE s == bi \o ai \o ao \o bo
<1>5. Said(bi \o ai) /\ \A p : Mentions(bi, p) \/ Mentions(ai, p) => Mentions(bi \o ai, p)
  BY <1>2a, <1>2b, SaidTogether
<1>6. /\ Said(bi \o ai \o ao)
      /\ \A p : Mentions(bi \o ai, p) \/ Mentions(ao, p) => Mentions(bi \o ai \o ao, p)
  BY <1>3a, <1>5, SaidTogether
<1>7. /\ Said(s)
      /\ \A p : Mentions(bi \o ai \o ao, p) \/ Mentions(bo, p) => Mentions(s, p)
  BY <1>3b, <1>6, SaidTogether
<1>8. \A p \in Point : Mentions(s, p)
  BY <1>2a, <1>2b, <1>3a, <1>3b, <1>5, <1>6, <1>7 DEF Point, Input
<1> HIDE DEF s
<1>9. ASSUME NEW p \in Point PROVE Newest(s, p, Current(p))
  <2>1. \A n \in DOMAIN s : s[n][1] = p => s[n] = <<p, Current(p)>>
    BY <1>7 DEF Said
  <2>2. QED
    BY <1>7, <1>8, <2>1, OneValueIsNewest DEF Said
<1>10. QED
  BY <1>4, <1>7, <1>9 DEF Said, Complete, s

\* The outputs that are written are read back.
LEMMA LatchedIs ==
  /\ Latched \subseteq BinaryOutput
  /\ \A b \in Latched : b \in DOMAIN BoToBi /\ BoToBi[b] \in BinaryInput
  /\ DOMAIN BiToBo \subseteq BinaryInput
<1>1. /\ DOMAIN BoToBi \subseteq BinaryOutput
      /\ \A b \in DOMAIN BoToBi : BoToBi[b] \in BinaryInput
      /\ \A i \in DOMAIN BiToBo : BiToBo[i] \in DOMAIN BoToBi
      /\ DOMAIN BiToBo = {BoToBi[b] : b \in DOMAIN BoToBi}
  BY PointsAssumption
<1>2. QED
  BY <1>1 DEF Latched

\* The scripts are sequences of commands.
LEMMA ScriptsOfCommands ==
  ASSUME TypeOK
  PROVE  /\ WriteAllAO \in Seq(Command)
         /\ \A n \in DOMAIN WriteAllAO :
              /\ WriteAllAO[n].op = "write_ao" /\ WriteAllAO[n].point \in DOMAIN AoToAi
              /\ WriteAllAO[n].value = expected[AoToAi[WriteAllAO[n].point]]
         /\ \A a \in DOMAIN AoToAi : a \notin sent =>
              \E n \in DOMAIN WriteAllAO : WriteAllAO[n].point = a
         /\ WriteBO \in Seq(Command)
         /\ \A n \in DOMAIN WriteBO : WriteBO[n].op = "write_bo" /\ WriteBO[n].point \in Latched
         /\ \A i \in DOMAIN BiToBo : latest[i] # TRUE =>
              \E n \in DOMAIN WriteBO : WriteBO[n].point = BiToBo[i]
         /\ ReadEntries \in Seq(Command) /\ Len(ReadEntries) = Entries
         /\ \A n \in DOMAIN ReadEntries : ReadEntries[n].op = "read"
<1>1. IsFiniteSet(DOMAIN AoToAi) /\ IsFiniteSet(DOMAIN BiToBo)
  <2>1. DOMAIN AoToAi \subseteq Point /\ DOMAIN BiToBo \subseteq Point
    BY LatchedIs, PointsAssumption DEF Point, Input
  <2>2. QED
    BY <2>1, PointsAssumption, FS_Subset
<1>2. /\ WriteAllAO \in Seq(Command)
      /\ \A n \in DOMAIN WriteAllAO :
           /\ WriteAllAO[n].op = "write_ao" /\ WriteAllAO[n].point \in DOMAIN AoToAi
           /\ WriteAllAO[n].value = expected[AoToAi[WriteAllAO[n].point]]
      /\ \A a \in DOMAIN AoToAi : a \notin sent =>
           \E n \in DOMAIN WriteAllAO : WriteAllAO[n].point = a
  <2> DEFINE c(a) == [op |-> "write_ao", point |-> a, value |-> expected[AoToAi[a]]]
  <2> DEFINE Q == {b \in DOMAIN AoToAi : b \notin sent \/ latest[AoToAi[b]] # expected[AoToAi[b]]}
  <2> DEFINE S == {c(a) : a \in Q}
  <2> DEFINE g == [a \in Q |-> c(a)]
  <2>1. IsFiniteSet(Q)
    BY <1>1, FS_Subset
  <2>2. S = {g[a] : a \in Q}
    OBVIOUS
  <2>3. IsFiniteSet(S)
    <3> HIDE DEF g, S, Q
    <3>1. QED
      BY <2>1, <2>2, FiniteImage
  <2>4. \A u \in S : /\ u \in Command /\ u.op = "write_ao" /\ u.point \in DOMAIN AoToAi
                     /\ u.value = expected[AoToAi[u.point]]
    <3> SUFFICES ASSUME NEW a \in DOMAIN AoToAi PROVE c(a) \in Command
      OBVIOUS
    <3>1. expected[AoToAi[a]] \in Int
      BY PointsAssumption DEF TypeOK, Station
    <3>2. Within(AoBounds[a], expected[AoToAi[a]]) => Within(AiBounds[AoToAi[a]], expected[AoToAi[a]])
      BY DEF TypeOK, Station
    <3>3. QED
      BY <3>1, <3>2 DEF Command, WriteAo
  <2>5. \A a \in DOMAIN AoToAi : a \notin sent => c(a) \in S
    OBVIOUS
  <2>6. WriteAllAO = SetToSeq(S)
    BY DEF WriteAllAO
  <2> HIDE DEF S
  <2>7. SetToSeq(S) \in Seq(S) /\ \A x \in S : \E n \in DOMAIN SetToSeq(S) : SetToSeq(S)[n] = x
    BY <2>3, SequenceOfSet
  <2> DEFINE s == SetToSeq(S)
  <2> HIDE DEF s
  <2>8. s \in Seq(Command) /\ \A n \in DOMAIN s : s[n] \in S
    BY <2>4, <2>7 DEF s
  <2>9. ASSUME NEW a \in DOMAIN AoToAi, a \notin sent PROVE \E n \in DOMAIN s : s[n].point = a
    <3>1. PICK n \in DOMAIN s : s[n] = c(a)
      BY <2>5, <2>7, <2>9 DEF s
    <3>2. QED
      BY <3>1
  <2>10. QED
    BY <2>4, <2>6, <2>8, <2>9 DEF s
<1>3. /\ WriteBO \in Seq(Command)
      /\ \A n \in DOMAIN WriteBO : WriteBO[n].op = "write_bo" /\ WriteBO[n].point \in Latched
      /\ \A i \in DOMAIN BiToBo : latest[i] # TRUE =>
           \E n \in DOMAIN WriteBO : WriteBO[n].point = BiToBo[i]
  <2> DEFINE c(i) == [op |-> "write_bo", point |-> BiToBo[i]]
  <2> DEFINE Q == {j \in DOMAIN BiToBo : latest[j] # TRUE}
  <2> DEFINE S == {c(i) : i \in Q}
  <2> DEFINE g == [i \in Q |-> c(i)]
  <2>1. IsFiniteSet(Q)
    BY <1>1, FS_Subset
  <2>2. S = {g[i] : i \in Q}
    OBVIOUS
  <2>3. IsFiniteSet(S)
    <3> HIDE DEF g, S, Q
    <3>1. QED
      BY <2>1, <2>2, FiniteImage
  <2>4. \A u \in S : u \in Command /\ u.op = "write_bo" /\ u.point \in Latched
    <3>1. \A i \in Q : c(i) \in WriteBo
      BY DEF WriteBo, Latched
    <3>2. \A i \in Q : c(i) \in Command /\ c(i).op = "write_bo" /\ c(i).point \in Latched
      BY <3>1 DEF Command, Latched
    <3> HIDE DEF c, Q
    <3>3. QED
      BY <3>2
  <2>5. \A i \in DOMAIN BiToBo : latest[i] # TRUE => c(i) \in S
    OBVIOUS
  <2>6. WriteBO = SetToSeq(S)
    BY DEF WriteBO
  <2> HIDE DEF S
  <2>7. SetToSeq(S) \in Seq(S) /\ \A x \in S : \E n \in DOMAIN SetToSeq(S) : SetToSeq(S)[n] = x
    BY <2>3, SequenceOfSet
  <2> DEFINE s == SetToSeq(S)
  <2> HIDE DEF s
  <2>8. s \in Seq(Command) /\ \A n \in DOMAIN s : s[n] \in S
    BY <2>4, <2>7 DEF s
  <2>9. ASSUME NEW i \in DOMAIN BiToBo, latest[i] # TRUE
        PROVE  \E n \in DOMAIN s : s[n].point = BiToBo[i]
    <3>1. PICK n \in DOMAIN s : s[n] = c(i)
      BY <2>5, <2>7, <2>9 DEF s
    <3>2. QED
      BY <3>1
  <2>10. QED
    BY <2>4, <2>6, <2>8, <2>9 DEF s
<1>4. /\ ReadEntries \in Seq(Command) /\ Len(ReadEntries) = Entries
      /\ \A n \in DOMAIN ReadEntries : ReadEntries[n].op = "read"
  <2>1. [op |-> "read"] \in Command
    BY DEF Command
  <2>2. Entries \in Nat
    BY PointsAssumption
  <2>3. QED
    BY <2>1, <2>2 DEF ReadEntries
<1>5. QED
  BY <1>2, <1>3, <1>4

-----------------------------------------------------------------------------
(* Type correctness.                                                       *)

\* What an operate does: a value that is accepted is read back; a binary one
\* changes no input, since they all are TRUE.
LEMMA OperateDoes ==
  ASSUME TypeOK, ServeOperate
  PROVE  LET r == Head(reqs) IN
         /\ reqs # <<>> /\ reqs' = Tail(reqs) /\ operated' = operated \cup {r.point}
         /\ UNCHANGED <<reported, latest, sent, outOfRange, expected, scenario, notify, loop, broken>>
         /\ \/ /\ r \in WriteAo /\ r.op = "write_ao" /\ Within(AoBounds[r.point], r.value)
               /\ Answer("success") /\ refused' = refused
               /\ statuses' = [statuses EXCEPT ![r.point] = r.value]
               /\ inputs' = [inputs EXCEPT ![AoToAi[r.point]] = r.value]
               /\ changes' = IF inputs[AoToAi[r.point]] = r.value THEN changes
                             ELSE Append(changes, <<AoToAi[r.point], r.value>>)
            \/ /\ r \in WriteAo /\ r.op = "write_ao" /\ ~Within(AoBounds[r.point], r.value)
               /\ Answer("out_of_range") /\ refused' = refused \cup {r.point}
               /\ UNCHANGED <<inputs, statuses, changes>>
            \/ /\ r \in WriteBo /\ r.op = "write_bo"
               /\ Answer("success") /\ refused' = refused
               /\ statuses' = [statuses EXCEPT ![r.point] = TRUE]
               /\ UNCHANGED <<inputs, changes>>
<1> DEFINE r == Head(reqs)
<1>1. reqs # <<>> /\ r.op \in {"write_ao", "write_bo"} /\ reqs' = Tail(reqs)
  BY DEF ServeOperate
<1>2. r \in Command \cup [op : {"integrity", "confirm"}]
  BY <1>1, Queue DEF TypeOK, Connection
<1>3. /\ r.op = "write_ao" => r \in WriteAo
      /\ r.op = "write_bo" => r \in WriteBo
  BY <1>1, <1>2 DEF Command, WriteAo, WriteBo
<1> HIDE DEF r
<1>4. CASE r.op = "write_ao"
  <2>1. OperateAnalog(r.point, r.value) /\ r \in WriteAo /\ r.point \in DOMAIN AoToAi
    BY <1>3, <1>4 DEF ServeOperate, r, WriteAo
  <2>2. QED
    BY <1>1, <1>4, <2>1 DEF ServeOperate, OperateAnalog, ReadBack, stationVars, r
<1>5. CASE r.op = "write_bo"
  <2>1. OperateBinary(r.point) /\ r \in WriteBo /\ r.point \in Latched
    BY <1>3, <1>5 DEF ServeOperate, r, WriteBo
  <2>2. BoToBi[r.point] \in BinaryInput
    BY <2>1, LatchedIs
  <2>3. inputs[BoToBi[r.point]] = TRUE /\ BoToBi[r.point] \in Input
    BY <2>2, PointsAssumption DEF TypeOK, Outstation, Proper, Input
  <2>4. UNCHANGED <<inputs, changes>>
    BY <2>1, <2>3 DEF OperateBinary, ReadBack, TypeOK, Outstation
  <2>5. QED
    BY <1>1, <1>5, <2>1, <2>4 DEF ServeOperate, OperateBinary, stationVars, r
<1>6. QED
  BY <1>1, <1>4, <1>5 DEF r

\* An operate keeps the types: a value that the output accepts, its input takes.
LEMMA OperateTypes ==
  ASSUME TypeOK, ServeOperate
  PROVE  TypeOK'
<1> DEFINE r == Head(reqs)
<1>1. r \in WriteAo => /\ r.point \in AnalogOutput /\ AoToAi[r.point] \in AnalogInput /\ r.value \in Int
                       /\ Within(AoBounds[r.point], r.value)
                            => Within(AiBounds[AoToAi[r.point]], r.value)
  BY PointsAssumption DEF WriteAo
<1>2. r \in WriteBo => r.point \in BinaryOutput
  BY LatchedIs DEF WriteBo
<1>3. Station'
  BY OperateDoes DEF TypeOK, Station
<1>4. Connection'
  <2>1. reqs' \in Seq(Command \cup [op : {"integrity", "confirm"}])
    <3>1. reqs # <<>> /\ reqs' = Tail(reqs)
      BY DEF ServeOperate
    <3>2. QED
      BY <3>1, Queue DEF TypeOK, Connection
  <2>2. \E st \in {"success", "out_of_range"} : Answer(st)
    BY OperateDoes
  <2>3. \A st \in {"success", "out_of_range"} :
          [type |-> "answer", status |-> st, values |-> <<>>] \in Message
    <3>1. <<>> \in Seq(Reading)
      OBVIOUS
    <3>2. QED
      BY <3>1 DEF Message
  <2>4. wire' \in Seq(Message)
    BY <2>2, <2>3 DEF Answer, TypeOK, Connection
  <2>5. QED
    BY <2>1, <2>4 DEF Connection
<1>5. Outstation'
  <2>1. reported' = reported /\ operated' = operated \cup {r.point}
    BY OperateDoes
  <2>2. CASE /\ r \in WriteAo /\ Within(AoBounds[r.point], r.value) /\ refused' = refused
             /\ statuses' = [statuses EXCEPT ![r.point] = r.value]
             /\ inputs' = [inputs EXCEPT ![AoToAi[r.point]] = r.value]
             /\ changes' = IF inputs[AoToAi[r.point]] = r.value THEN changes
                           ELSE Append(changes, <<AoToAi[r.point], r.value>>)
    <3> DEFINE i == AoToAi[r.point]
    <3> DEFINE v == r.value
    <3>1. i \in AnalogInput /\ v \in Int /\ Within(AiBounds[i], v) /\ r.point \in AnalogOutput
          /\ Within(AoBounds[r.point], v)
      BY <1>1, <2>2
    <3>2. inputs' = [inputs EXCEPT ![i] = v] /\ statuses' = [statuses EXCEPT ![r.point] = v]
          /\ changes' = IF inputs[i] = v THEN changes ELSE Append(changes, <<i, v>>)
      BY <2>2
    <3> HIDE DEF i, v
    <3>3. v \in Value /\ Proper(i, v) /\ Proper(r.point, v) /\ i \in Input
      BY <3>1 DEF Value, Proper, Input
    <3>4. inputs' \in [Input -> Value] /\ \A p \in Input : Proper(p, inputs'[p])
      BY <3>2, <3>3 DEF TypeOK, Outstation
    <3>5. statuses' \in [AnalogOutput \cup BinaryOutput -> Value]
          /\ \A p \in AnalogOutput \cup BinaryOutput : Proper(p, statuses'[p])
      BY <3>1, <3>2, <3>3 DEF TypeOK, Outstation
    <3>6. <<i, v>> \in Change
      BY <3>1, <3>3 DEF Change, Reading, Point
    <3>7. changes' \in Seq(Change) /\ Len(changes') \in Nat /\ Len(changes') >= Len(changes)
      BY <3>2, <3>6 DEF TypeOK, Outstation
    <3>8. reported' \in 0 .. Len(changes')
      BY <2>1, <3>7 DEF TypeOK, Outstation
    <3>9. operated' \subseteq AnalogOutput \cup BinaryOutput /\ refused' \subseteq AnalogOutput
      BY <2>1, <2>2, <3>1 DEF TypeOK, Outstation
    <3>10. QED
      BY <3>4, <3>5, <3>7, <3>8, <3>9 DEF Outstation
  <2>3. CASE /\ r \in WriteAo /\ refused' = refused \cup {r.point}
             /\ UNCHANGED <<inputs, statuses, changes>>
    BY <1>1, <2>1, <2>3 DEF TypeOK, Outstation
  <2>4. CASE /\ r \in WriteBo /\ refused' = refused
             /\ statuses' = [statuses EXCEPT ![r.point] = TRUE]
             /\ UNCHANGED <<inputs, changes>>
    <3>1. r.point \in BinaryOutput /\ TRUE \in Value /\ Proper(r.point, TRUE)
      BY <1>2, <2>4 DEF Value, Proper
    <3>2. statuses' \in [AnalogOutput \cup BinaryOutput -> Value]
          /\ \A p \in AnalogOutput \cup BinaryOutput : Proper(p, statuses'[p])
      BY <2>4, <3>1 DEF TypeOK, Outstation
    <3>3. QED
      BY <2>1, <2>4, <3>1, <3>2 DEF TypeOK, Outstation
  <2>5. QED
    BY <2>2, <2>3, <2>4, OperateDoes
<1>6. QED
  BY <1>3, <1>4, <1>5 DEF TypeOK

\* The rest of what the outstation serves.
LEMMA ServeTypes ==
  ASSUME TypeOK, ServeRead \/ Report \/ ServeConfirm
  PROVE  TypeOK'
<1>1. ASSUME reqs # <<>>, reqs' = Tail(reqs)
      PROVE  reqs' \in Seq(Command \cup [op : {"integrity", "confirm"}])
  BY <1>1, Queue DEF TypeOK, Connection
<1>2. CASE ServeRead
  <2>1. reqs' \in Seq(Command \cup [op : {"integrity", "confirm"}])
    BY <1>1, <1>2 DEF ServeRead
  <2>2. PICK ty \in {"answer", "integrity"} :
          wire' = Append(wire, [type |-> ty, status |-> "success", values |-> AllValues])
    BY <1>2 DEF ServeRead
  <2>3. [type |-> ty, status |-> "success", values |-> AllValues] \in Message
    BY AllValuesComplete DEF Message
  <2>4. wire' \in Seq(Message)
    BY <2>2, <2>3 DEF TypeOK, Connection
  <2>5. UNCHANGED <<outVars, stationVars, broken>>
    BY <1>2 DEF ServeRead
  <2>6. QED
    BY <2>1, <2>4, <2>5 DEF TypeOK, Outstation, Station, Connection, outVars, stationVars
<1>3. CASE Report
  <2>1. wire' = Append(wire, [type |-> "report", status |-> "success", values |-> changes])
    BY <1>3 DEF Report
  <2>2. [type |-> "report", status |-> "success", values |-> changes] \in Message
    BY DEF Message, TypeOK, Outstation
  <2>3. wire' \in Seq(Message)
    BY <2>1, <2>2 DEF TypeOK, Connection
  <2>4. reported' \in 0 .. Len(changes)
    BY <1>3 DEF Report, TypeOK, Outstation
  <2>5. QED
    BY <1>3, <2>3, <2>4 DEF Report, TypeOK, Outstation, Station, Connection, stationVars
<1>4. CASE ServeConfirm
  <2>1. reqs' \in Seq(Command \cup [op : {"integrity", "confirm"}])
    BY <1>1, <1>4 DEF ServeConfirm
  <2>2. changes' \in Seq(Change) /\ reported' = 0 /\ Len(changes') \in Nat
    BY <1>4 DEF ServeConfirm, TypeOK, Outstation
  <2>3. QED
    BY <1>4, <2>1, <2>2 DEF ServeConfirm, TypeOK, Outstation, Station, Connection, stationVars
<1>5. QED
  BY <1>2, <1>3, <1>4

\* A message is received.
LEMMA ReceiveDoes ==
  ASSUME TypeOK, Receive
  PROVE  LET m == Head(wire) IN
         /\ wire # <<>> /\ wire' = Tail(wire) /\ m \in Message
         /\ latest' \in [Point -> Value \cup {Nothing}] /\ outOfRange' = {}
         /\ \A p \in Point : /\ ~Mentions(m.values, p) => latest'[p] = latest[p]
                             /\ \A v : Newest(m.values, p, v) => latest'[p] = v
         /\ sent' = IF m.type = "answer" /\ Item.op # "read" /\ m.status = "success"
                    THEN sent \cup {Item.point} ELSE sent
         /\ loop' = IF m.type = "answer" THEN Advanced ELSE loop
         /\ reqs' = IF m.type = "report" THEN Append(reqs, [op |-> "confirm"]) ELSE reqs
         /\ UNCHANGED <<outVars, expected, scenario, notify, broken>>
<1> DEFINE m == Head(wire)
<1> DEFINE k == [latest |-> latest, outOfRange |-> outOfRange]
<1>1. wire # <<>> /\ m \in Message
  BY Queue DEF Receive, TypeOK, Connection
<1>2. m.values \in Seq(Reading)
  <2>1. Change \subseteq Reading
    BY DEF Change
  <2>2. Seq(Change) \subseteq Seq(Reading)
    BY <2>1
  <2>3. QED
    BY <1>1, <2>2 DEF Message
<1>3. k \in Known
  BY DEF Known, TypeOK, Station
<1>4. latest' = HandledAll(k, m.values).latest /\ outOfRange' = HandledAll(k, m.values).outOfRange
  BY DEF Receive
<1>5. /\ HandledAll(k, m.values) \in Known
      /\ HandledAll(k, m.values).outOfRange = k.outOfRange
      /\ \A p \in Point : /\ ~Mentions(m.values, p) => HandledAll(k, m.values).latest[p] = k.latest[p]
                          /\ \A v : Newest(m.values, p, v) => HandledAll(k, m.values).latest[p] = v
  <2> HIDE DEF k, m
  <2>1. QED
    BY <1>2, <1>3, NewestIsKnown
<1>6. latest' \in [Point -> Value \cup {Nothing}] /\ outOfRange' = {}
      /\ \A p \in Point : /\ ~Mentions(m.values, p) => latest'[p] = latest[p]
                          /\ \A v : Newest(m.values, p, v) => latest'[p] = v
  BY <1>4, <1>5 DEF Known, TypeOK, Station
<1>7. QED
  BY <1>1, <1>6 DEF Receive


\* What the loop waits for is a command.
LEMMA ItemIsCommand ==
  ASSUME TypeOK, loop.i \in DOMAIN loop.script
  PROVE  /\ Item \in Command /\ IsCommand(Item) /\ Item.op \notin {"integrity", "confirm"}
         /\ Item.op = "write_ao" => Item \in WriteAo /\ Item.point \in DOMAIN AoToAi
         /\ Item.op = "write_bo" => Item \in WriteBo /\ Item.point \in Latched
<1>1. loop.script \in Seq(Command)
  BY DEF TypeOK, Station, Loops
<1>2. Item \in Command
  BY <1>1 DEF Item
<1>3. QED
  BY <1>2 DEF Command, WriteAo, WriteBo, IsCommand

\* The loop goes on to the next item of its script.
LEMMA AdvancedTypes ==
  ASSUME TypeOK
  PROVE  loop \in Loops /\ Advanced \in Loops
<1>1. loop \in Loops /\ loop.i \in Nat \ {0} /\ loop.i + 1 \in Nat \ {0}
  BY DEF TypeOK, Station, Loops
<1> DEFINE j == loop.i + 1
<1>2. [loop EXCEPT !.i = j, !.waits = FALSE] \in Loops
  <2> HIDE DEF j
  <2>1. j \in Nat \ {0}
    BY <1>1 DEF j
  <2>2. QED
    BY <1>1, <2>1 DEF Loops
<1>3. Advanced = [loop EXCEPT !.i = j, !.waits = FALSE]
  BY DEF Advanced
<1>4. QED
  BY <1>1, <1>2, <1>3

\* What the control station takes in keeps its types, value by value.
LEMMA ReceiveTypes ==
  ASSUME TypeOK, OneOpen, Receive
  PROVE  TypeOK'
<1> DEFINE m == Head(wire)
<1>1. wire # <<>> /\ wire' = Tail(wire) /\ m \in Message
  BY ReceiveDoes
<1>2. m.type = "answer" => loop.waits /\ loop.i \in DOMAIN loop.script
  <2>1. m = wire[1] /\ 1 \in DOMAIN wire
    BY <1>1, Queue DEF TypeOK, Connection
  <2>2. QED
    BY <2>1 DEF OneOpen
<1> HIDE DEF m
<1>3. Connection'
  <2>1. wire' \in Seq(Message)
    BY <1>1, Queue DEF TypeOK, Connection
  <2>2. reqs' = IF m.type = "report" THEN Append(reqs, [op |-> "confirm"]) ELSE reqs
    BY DEF Receive, m
  <2>3. QED
    BY <2>1, <2>2 DEF TypeOK, Connection
<1>4. sent' \subseteq DOMAIN AoToAi \cup Latched
  <2>1. sent' = IF m.type = "answer" /\ Item.op # "read" /\ m.status = "success"
                THEN sent \cup {Item.point} ELSE sent
    BY DEF Receive, m
  <2>2. m.type = "answer" /\ Item.op # "read" => Item.point \in DOMAIN AoToAi \cup Latched
    BY <1>2, ItemIsCommand DEF IsCommand
  <2>3. QED
    BY <2>1, <2>2 DEF TypeOK, Station
<1>5. loop' \in Loops
  <2>1. loop' = Advanced \/ loop' = loop
    BY DEF Receive
  <2>2. QED
    BY <2>1, AdvancedTypes
<1>6. /\ latest' \in [Point -> Value \cup {Nothing}] /\ outOfRange' = {}
      /\ UNCHANGED <<outVars, expected, scenario, notify, broken>>
  BY ReceiveDoes
<1>7. Station'
  BY <1>4, <1>5, <1>6 DEF TypeOK, Station
<1>8. Outstation'
  BY <1>6 DEF TypeOK, Outstation, outVars
<1>9. QED
  BY <1>3, <1>7, <1>8 DEF TypeOK

\* A pass begins.
LEMMA PassTypes ==
  ASSUME TypeOK, NEW at \in Passes \cup {"select", "test"}
  PROVE  /\ Pass(at) \in Loops /\ Pass(at).at = at /\ Pass(at).writer = 0 /\ ~Pass(at).waits
         /\ Pass(at).script = <<>> /\ Pass(at).i = 1
         /\ Pass(at).since <= broken
         /\ Pass(at).since = broken => ~Reconnecting
<1>1. -1 \in Int /\ broken \in Nat /\ broken \in Int /\ <<>> \in Seq(Command)
  BY DEF TypeOK, Station
<1>2. (IF Reconnecting THEN -1 ELSE broken) \in Int
  BY <1>1
<1>3. Pass(at) \in Loops
  BY <1>1, <1>2 DEF Pass, Loops
<1>4. QED
  BY <1>1, <1>3 DEF Pass

\* The steps of the control loop keep the types, the scripts of its writers too.
LEMMA LoopTypes ==
  ASSUME TypeOK, Loop
  PROVE  TypeOK'
<1>1. CASE BeginWriter
  <2>1. /\ loop' = [loop EXCEPT !.writer = @ + 1, !.i = 1, !.script = Script(Writers[loop.writer + 1])]
        /\ loop.writer < 3
        /\ UNCHANGED <<outVars, reqs, wire, latest, sent, outOfRange, expected, scenario, notify, broken>>
    BY <1>1 DEF BeginWriter, Writers
  <2>2. loop.writer + 1 \in 1 .. 3
    BY <2>1 DEF TypeOK, Station, Loops
  <2>3. Script(Writers[loop.writer + 1]) \in Seq(Command)
    BY <2>2, ScriptsOfCommands DEF Script, Writers
  <2>4. loop' \in Loops
    <3> DEFINE w == loop.writer + 1
    <3> DEFINE s == Script(Writers[w])
    <3>1. w \in 0 .. 3 /\ s \in Seq(Command) /\ loop \in Loops /\ 1 \in Nat \ {0}
      BY <2>2, <2>3 DEF TypeOK, Station
    <3>2. loop' = [loop EXCEPT !.writer = w, !.i = 1, !.script = s]
      BY <2>1
    <3> HIDE DEF w, s
    <3>3. QED
      BY <3>1, <3>2 DEF Loops
  <2>5. QED
    BY <2>1, <2>4 DEF TypeOK, Station, Outstation, Connection, outVars
<1>2. CASE Request
  <2>1. /\ loop' = [loop EXCEPT !.waits = TRUE] /\ reqs' = Append(reqs, Item)
        /\ loop.i \in DOMAIN loop.script
        /\ UNCHANGED <<outVars, wire, latest, sent, outOfRange, expected, scenario, notify, broken>>
    BY <1>2 DEF Request, TypeOK, Station, Loops
  <2>2. loop' \in Loops
    BY <2>1 DEF TypeOK, Station, Loops
  <2>3. reqs' \in Seq(Command \cup [op : {"integrity", "confirm"}])
    BY <2>1, ItemIsCommand DEF TypeOK, Connection
  <2>4. QED
    BY <2>1, <2>2, <2>3 DEF TypeOK, Station, Outstation, Connection, outVars
<1>3. CASE PassDone
  <2>1. After[loop.at] \in Passes \cup {"select", "test"}
    BY <1>3 DEF PassDone, Passes, After
  <2>2. Pass(After[loop.at]) \in Loops
    BY <2>1, PassTypes
  <2>3. loop' \in Loops
    BY <1>3, <2>2 DEF PassDone, TypeOK, Station, Loops
  <2>4. QED
    BY <1>3, <2>3 DEF PassDone, TypeOK, Station, Outstation, Connection, outVars
<1>4. CASE Timer \/ Test
  <2>1. loop' \in Loops
    BY <1>4, PassTypes DEF Timer, Test, Passes
  <2>2. QED
    BY <1>4, <2>1 DEF Timer, Test, TypeOK, Station, Outstation, Connection, outVars
<1>5. CASE Notified
  <2>1. loop' \in Loops
    BY <1>5, PassTypes DEF Notified, Passes
  <2>2. latest' \in [Point -> Value \cup {Nothing}]
    BY <1>5 DEF Notified, Unknown
  <2>3. QED
    BY <1>5, <2>1, <2>2 DEF Notified, TypeOK, Station, Outstation, Connection, outVars
<1>6. QED
  BY <1>1, <1>2, <1>3, <1>4, <1>5 DEF Loop

\* So do a new scenario, whose profile is one of the plan, and a lost connection.
LEMMA OtherTypes ==
  ASSUME TypeOK, LoadScenario \/ Break
  PROVE  TypeOK'
<1>1. CASE LoadScenario
  <2>1. /\ scenario + 1 \in 0 .. Len(Plan) /\ scenario + 1 \in DOMAIN Plan
        /\ expected' = Plan[scenario + 1] /\ scenario' = scenario + 1
    BY <1>1, PointsAssumption DEF LoadScenario, TypeOK, Station
  <2>2. expected' \in [AnalogInput -> Int]
    BY <2>1, PointsAssumption
  <2>3. \A a \in DOMAIN AoToAi : Within(AoBounds[a], expected'[AoToAi[a]])
                                   => Within(AiBounds[AoToAi[a]], expected'[AoToAi[a]])
    BY <2>1, PointsAssumption
  <2>4. QED
    BY <1>1, <2>1, <2>2, <2>3
    DEF LoadScenario, TypeOK, Station, Outstation, Connection, outVars
<1>2. CASE Break
  <2>1. loop' \in Loops
    BY <1>2, AdvancedTypes DEF Break
  <2>2. reqs' \in Seq(Command \cup [op : {"integrity", "confirm"}]) /\ wire' \in Seq(Message)
    BY <1>2 DEF Break
  <2>3. reported' \in 0 .. Len(changes) /\ broken' \in Nat
    BY <1>2 DEF Break, TypeOK, Outstation, Station
  <2>4. QED
    BY <1>2, <2>1, <2>2, <2>3 DEF Break, TypeOK, Station, Outstation, Connection
<1>3. QED
  BY <1>1, <1>2

\* The two stations start with the types they keep.
LEMMA InitTypes ==
  ASSUME Init
  PROVE  TypeOK
<1>1. Outstation
  <2>1. inputs \in [Input -> Value] /\ \A p \in Input : Proper(p, inputs[p])
    BY PointsAssumption DEF Init, InitialInputs, Input, Value, Proper
  <2>2. \A p \in AnalogOutput : AoBounds[p][1] \in Int /\ Within(AoBounds[p], AoBounds[p][1])
    BY PointsAssumption DEF Within
  <2>3. statuses \in [AnalogOutput \cup BinaryOutput -> Value]
        /\ \A p \in AnalogOutput \cup BinaryOutput : Proper(p, statuses[p])
    BY <2>2 DEF Init, InitialStatuses, Value, Proper
  <2>4. QED
    BY <2>1, <2>3 DEF Init, Outstation
<1>2. Connection
  BY DEF Init, Connection
<1>3. Station
  <2>1. loop \in Loops
    <3>1. broken = 0 /\ loop = Pass("top") /\ <<>> \in Seq(Command) /\ -1 \in Int
      BY DEF Init
    <3>2. QED
      BY <3>1 DEF Pass, Loops, Passes
  <2>2. latest \in [Point -> Value \cup {Nothing}]
    BY DEF Init, Unknown
  <2>3. \A a \in DOMAIN AoToAi : Within(AiBounds[AoToAi[a]], expected[AoToAi[a]])
    BY PointsAssumption DEF Init
  <2>4. expected \in [AnalogInput -> Int]
    BY PointsAssumption DEF Init
  <2>5. scenario \in 0 .. Len(Plan) /\ broken \in Nat
    BY PointsAssumption DEF Init
  <2>6. sent = {} /\ outOfRange = {} /\ notify = FALSE
    BY DEF Init
  <2>7. QED
    BY <2>1, <2>2, <2>3, <2>4, <2>5, <2>6 DEF Station
<1>4. QED
  BY <1>1, <1>2, <1>3 DEF TypeOK

-----------------------------------------------------------------------------
(* Only one request is open, and what is still to be reported and what is   *)
(* counted as sent agree with what the outstation has.                      *)

\* When the loop does not wait, nothing it asked for is on its way.
LEMMA NothingOpen ==
  ASSUME OneOpen, ~loop.waits
  PROVE  NoCommand /\ NoAnswer
BY DEF OneOpen, NoCommand, NoAnswer

\* And the other way round: with nothing on its way, no request is open.
LEMMA NothingOpened ==
  ASSUME NoCommand', NoAnswer', loop'.waits => loop'.at \in Passes /\ loop'.i \in DOMAIN loop'.script
  PROVE  OneOpen'
BY DEF OneOpen, NoCommand, NoAnswer

\* The command that is first in the queue is the one the loop waits for.
LEMMA HeadIsItem ==
  ASSUME TypeOK, OneOpen, reqs # <<>>, Head(reqs).op \in {"write_ao", "write_bo", "read"}
  PROVE  /\ loop.waits /\ loop.at \in Passes /\ loop.i \in DOMAIN loop.script /\ Head(reqs) = Item
         /\ NoAnswer /\ (reqs' = Tail(reqs) => NoCommand')
<1>1. Head(reqs) = reqs[1] /\ 1 \in DOMAIN reqs /\ IsCommand(Head(reqs))
  BY Queue DEF TypeOK, Connection, IsCommand
<1>2. /\ loop.waits /\ reqs[1] = Item /\ NoAnswer
      /\ \A j \in DOMAIN reqs : IsCommand(reqs[j]) => j = 1
  BY <1>1 DEF OneOpen
<1>3. ASSUME reqs' = Tail(reqs), NEW n \in DOMAIN reqs' PROVE ~IsCommand(reqs'[n])
  <2>1. n \in Nat \ {0} /\ n + 1 \in DOMAIN reqs /\ reqs'[n] = reqs[n + 1]
    BY <1>1, <1>3, Queue DEF TypeOK, Connection
  <2>2. n + 1 # 1
    BY <2>1
  <2>3. QED
    BY <1>2, <2>1, <2>2
<1>4. QED
  BY <1>1, <1>2, <1>3 DEF OneOpen, NoCommand, IsCommand

\* An answer to it, put on the connection.
LEMMA Answered ==
  ASSUME TypeOK, NoCommand', NoAnswer, NEW m \in Message, wire' = Append(wire, m),
         loop' = loop, loop.waits, loop.at \in Passes, loop.i \in DOMAIN loop.script, Answers(m)'
  PROVE  OneOpen'
<1>1. /\ DOMAIN wire' = DOMAIN wire \cup {Len(wire) + 1}
      /\ wire'[Len(wire) + 1] = m /\ \A n \in DOMAIN wire : wire'[n] = wire[n]
  BY Enqueue DEF TypeOK, Connection
<1>2. \A k \in DOMAIN wire' : wire'[k].type = "answer" => k = Len(wire) + 1
  BY <1>1 DEF NoAnswer
<1>3. ASSUME NEW k \in DOMAIN wire', wire'[k].type = "answer"
      PROVE  /\ loop'.waits /\ Answers(wire[k])'
             /\ \A j \in DOMAIN wire' : wire'[j].type = "answer" => j = k
  <2>1. k = Len(wire) + 1 /\ wire'[k] = m
    BY <1>1, <1>2, <1>3
  <2>2. Answers(wire[k])'
    BY <2>1 DEF Answers
  <2>3. QED
    BY <1>2, <2>1, <2>2
<1>4. QED
  BY <1>3 DEF OneOpen, NoCommand

\* Neither what is asked nor what is answered changes.
RequestsKept ==
  \A i \in DOMAIN reqs' : IsCommand(reqs'[i]) =>
    /\ \E j \in DOMAIN reqs : reqs'[i] = reqs[j]
    /\ \A k \in DOMAIN reqs' : IsCommand(reqs'[k]) => k = i
AnswersKept ==
  \A i \in DOMAIN wire' : wire'[i].type = "answer" =>
    /\ \E j \in DOMAIN wire : wire'[i] = wire[j]
    /\ \A k \in DOMAIN wire' : wire'[k].type = "answer" => k = i

\* A step that leaves the loop, the outputs and what is open on the wire alone leaves
\* the one open request.
LEMMA StillOpen ==
  ASSUME TypeOK, OneOpen, loop' = loop, UNCHANGED <<inputs, statuses, operated>>,
         RequestsKept, AnswersKept
  PROVE  OneOpen'
<1>2. NoAnswer => NoAnswer'
  BY DEF NoAnswer, AnswersKept
<1>3. ASSUME NEW i \in DOMAIN reqs', IsCommand(reqs'[i])
      PROVE  /\ loop'.waits /\ reqs'[i] = Item'
             /\ \A j \in DOMAIN reqs' : IsCommand(reqs'[j]) => j = i
             /\ NoAnswer'
  <2>1. PICK j \in DOMAIN reqs : reqs'[i] = reqs[j]
    BY <1>3 DEF RequestsKept
  <2>2. loop.waits /\ reqs[j] = Item /\ NoAnswer
    BY <1>3, <2>1 DEF OneOpen
  <2>3. QED
    BY <1>2, <1>3, <2>1, <2>2 DEF Item, RequestsKept
<1>4. ASSUME NEW i \in DOMAIN wire', wire'[i].type = "answer"
      PROVE  /\ loop'.waits /\ Answers(wire[i])'
             /\ \A j \in DOMAIN wire' : wire'[j].type = "answer" => j = i
  <2>1. PICK j \in DOMAIN wire : wire'[i] = wire[j]
    BY <1>4 DEF AnswersKept
  <2>2. loop.waits /\ Answers(wire[j])
    BY <1>4, <2>1 DEF OneOpen
  <2>3. Answers(wire[i])'
    <3>1. Answers(wire'[i])
      BY <2>1, <2>2
    <3>2. QED
      BY <3>1 DEF Answers, Item, Complete, Newest, Current
  <2>4. QED
    BY <1>4, <2>2, <2>3 DEF AnswersKept
<1>5. QED
  BY <1>3, <1>4 DEF OneOpen

\* An operate answers the one open request, with what it has just done.
LEMMA OperateOpen ==
  ASSUME TypeOK, OneOpen, ServeOperate
  PROVE  OneOpen' /\ Head(reqs) = Item /\ loop.waits /\ loop.at \in Passes /\ loop.i \in DOMAIN loop.script
<1>1. reqs # <<>> /\ Head(reqs).op \in {"write_ao", "write_bo"} /\ reqs' = Tail(reqs) /\ loop' = loop
  BY DEF ServeOperate, stationVars
<1>2. /\ loop.waits /\ loop.at \in Passes /\ loop.i \in DOMAIN loop.script /\ Head(reqs) = Item
      /\ NoAnswer /\ NoCommand'
  BY <1>1, HeadIsItem
<1> DEFINE r == Head(reqs)
<1>3. operated' = operated \cup {r.point}
  BY OperateDoes
<1>4. PICK st \in {"success", "out_of_range"} :
        /\ Answer(st)
        /\ \/ /\ r.op = "write_ao" /\ st = "success" /\ Within(AoBounds[r.point], r.value)
              /\ inputs'[AoToAi[r.point]] = r.value
           \/ r.op = "write_ao" /\ st = "out_of_range" /\ ~Within(AoBounds[r.point], r.value)
           \/ r.op = "write_bo" /\ st = "success"
  <2>1. r \in WriteAo => AoToAi[r.point] \in Input
    BY PointsAssumption DEF WriteAo, Input
  <2>2. DOMAIN inputs = Input
    BY DEF TypeOK, Outstation
  <2>3. QED
    BY <2>1, <2>2, OperateDoes
<1> DEFINE m == [type |-> "answer", status |-> st, values |-> <<>>]
<1>5. m \in Message /\ wire' = Append(wire, m)
  <2>1. <<>> \in Seq(Reading)
    OBVIOUS
  <2>2. QED
    BY <1>4, <2>1 DEF Message, Answer
<1>6. Item' = Item
  BY <1>1 DEF Item
<1>7. r.point \in operated'
  BY <1>3
<1>8. Answers(m)'
  BY <1>2, <1>4, <1>6, <1>7 DEF Answers
<1>9. OneOpen'
  <2> HIDE DEF m, r
  <2>1. QED
    BY <1>1, <1>2, <1>5, <1>8, Answered
<1>10. QED
  BY <1>2, <1>9

\* A request is taken from the queue that is none of the loop's.
LEMMA RestOfRequests ==
  ASSUME TypeOK, OneOpen, reqs # <<>>, reqs' = Tail(reqs)
  PROVE  RequestsKept
<1> SUFFICES ASSUME NEW i \in DOMAIN reqs', IsCommand(reqs'[i])
             PROVE  /\ \E j \in DOMAIN reqs : reqs'[i] = reqs[j]
                    /\ \A k \in DOMAIN reqs' : IsCommand(reqs'[k]) => k = i
  BY DEF RequestsKept
<1>1. /\ i \in Nat /\ i + 1 \in DOMAIN reqs /\ reqs'[i] = reqs[i + 1]
      /\ \A k \in DOMAIN reqs' : k \in Nat /\ k + 1 \in DOMAIN reqs /\ reqs'[k] = reqs[k + 1]
  BY Queue DEF TypeOK, Connection
<1>2. \A j \in DOMAIN reqs : IsCommand(reqs[j]) => j = i + 1
  BY <1>1 DEF OneOpen
<1>3. ASSUME NEW k \in DOMAIN reqs', IsCommand(reqs'[k]) PROVE k = i
  <2>1. k + 1 = i + 1 /\ k \in Nat
    BY <1>1, <1>2, <1>3
  <2>2. QED
    BY <1>1, <2>1
<1>4. QED
  BY <1>1, <1>3

\* A message is put on the connection that answers nothing.
LEMMA OneMessageMore ==
  ASSUME TypeOK, OneOpen, NEW m \in Message, m.type # "answer", wire' = Append(wire, m)
  PROVE  AnswersKept
<1> SUFFICES ASSUME NEW i \in DOMAIN wire', wire'[i].type = "answer"
             PROVE  /\ \E j \in DOMAIN wire : wire'[i] = wire[j]
                    /\ \A k \in DOMAIN wire' : wire'[k].type = "answer" => k = i
  BY DEF AnswersKept
<1>1. /\ DOMAIN wire' = DOMAIN wire \cup {Len(wire) + 1}
      /\ wire'[Len(wire) + 1] = m /\ \A n \in DOMAIN wire : wire'[n] = wire[n]
  BY Enqueue DEF TypeOK, Connection
<1>2. i \in DOMAIN wire /\ wire'[i] = wire[i]
  BY <1>1
<1>3. \A j \in DOMAIN wire : wire[j].type = "answer" => j = i
  BY <1>2 DEF OneOpen
<1>4. \A k \in DOMAIN wire' : wire'[k].type = "answer" => k \in DOMAIN wire /\ wire'[k] = wire[k]
  BY <1>1
<1>5. QED
  BY <1>2, <1>3, <1>4

\* So does a read; reports and confirmations are no answers.
LEMMA ServeOpen ==
  ASSUME TypeOK, OneOpen, ServeRead \/ Report \/ ServeConfirm
  PROVE  OneOpen'
<1>1. CASE ServeRead /\ Head(reqs).op = "read"
  <2>1. reqs # <<>> /\ reqs' = Tail(reqs) /\ loop' = loop /\ UNCHANGED <<inputs, statuses>>
    BY <1>1 DEF ServeRead, stationVars, outVars
  <2>2. /\ loop.waits /\ loop.at \in Passes /\ loop.i \in DOMAIN loop.script /\ Head(reqs) = Item
        /\ NoAnswer /\ NoCommand'
    BY <1>1, <2>1, HeadIsItem
  <2> DEFINE m == [type |-> "answer", status |-> "success", values |-> AllValues]
  <2>3. wire' = Append(wire, m)
    BY <1>1 DEF ServeRead
  <2>4. m \in Message
    BY AllValuesComplete DEF Message
  <2>5. Complete(AllValues)
    BY AllValuesComplete
  <2>6. Complete(m.values)'
    <3>1. \A p : Current(p)' = Current(p)
      BY <2>1 DEF Current
    <3>2. m'.values = AllValues
      BY <2>1 DEF AllValues
    <3> HIDE DEF m
    <3>3. QED
      BY <2>5, <3>1, <3>2 DEF Complete, Newest
  <2>7. Item'.op = "read" /\ m'.status = "success"
    BY <1>1, <2>1, <2>2 DEF Item
  <2>8. m' = m
    BY <2>1 DEF AllValues
  <2>9. Answers(m)'
    <3> HIDE DEF m
    <3>1. QED
      BY <2>6, <2>7 DEF Answers
  <2>10. QED
    <3> HIDE DEF m
    <3>1. QED
      BY <2>1, <2>2, <2>3, <2>4, <2>8, <2>9, Answered
<1>2. CASE ServeRead /\ Head(reqs).op # "read"
  <2>1. reqs # <<>> /\ reqs' = Tail(reqs) /\ loop' = loop /\ UNCHANGED <<inputs, statuses, operated>>
    BY <1>2 DEF ServeRead, stationVars, outVars
  <2> DEFINE m == [type |-> "integrity", status |-> "success", values |-> AllValues]
  <2>2. wire' = Append(wire, m)
    BY <1>2 DEF ServeRead
  <2>3. m \in Message /\ m.type # "answer"
    BY AllValuesComplete DEF Message
  <2> HIDE DEF m
  <2>4. RequestsKept
    BY <2>1, RestOfRequests
  <2>5. AnswersKept
    BY <2>2, <2>3, OneMessageMore
  <2>6. QED
    BY <2>1, <2>4, <2>5, StillOpen
<1>3. CASE Report
  <2>1. reqs' = reqs /\ loop' = loop /\ UNCHANGED <<inputs, statuses, operated>>
    BY <1>3 DEF Report, stationVars, outVars
  <2> DEFINE m == [type |-> "report", status |-> "success", values |-> changes]
  <2>2. wire' = Append(wire, m)
    BY <1>3 DEF Report
  <2>3. m \in Message /\ m.type # "answer"
    BY DEF Message, TypeOK, Outstation
  <2> HIDE DEF m
  <2>4. RequestsKept
    BY <2>1 DEF OneOpen, RequestsKept, AnswersKept
  <2>5. AnswersKept
    BY <2>2, <2>3, OneMessageMore
  <2>6. QED
    BY <2>1, <2>4, <2>5, StillOpen
<1>4. CASE ServeConfirm
  <2>1. /\ reqs # <<>> /\ reqs' = Tail(reqs) /\ wire' = wire /\ loop' = loop
        /\ UNCHANGED <<inputs, statuses, operated>>
    BY <1>4 DEF ServeConfirm, stationVars, outVars
  <2>2. RequestsKept
    BY <2>1, RestOfRequests
  <2>3. AnswersKept
    BY <2>1 DEF OneOpen, RequestsKept, AnswersKept
  <2>4. QED
    BY <2>1, <2>2, <2>3, StillOpen
<1>5. QED
  BY <1>1, <1>2, <1>3, <1>4

\* An answer that is received is the one to the open request, which is then closed.
LEMMA ReceiveOpen ==
  ASSUME TypeOK, OneOpen, Receive
  PROVE  /\ OneOpen'
         /\ Head(wire).type = "answer" =>
              /\ loop.waits /\ loop.at \in Passes /\ loop.i \in DOMAIN loop.script
              /\ Answers(Head(wire)) /\ NoAnswer'
<1> DEFINE m == Head(wire)
<1>1. /\ wire # <<>> /\ m = wire[1] /\ 1 \in DOMAIN wire /\ wire' = Tail(wire)
      /\ UNCHANGED <<inputs, statuses, operated>>
  BY Queue DEF Receive, TypeOK, Connection, outVars
<1>2. \A n \in DOMAIN wire' : n \in Nat \ {0} /\ n + 1 \in DOMAIN wire /\ wire'[n] = wire[n + 1]
  BY <1>1, Queue DEF TypeOK, Connection
<1>3. NoCommand => NoCommand'
  <2>1. reqs' = reqs \/ reqs' = Append(reqs, [op |-> "confirm"])
    BY DEF Receive
  <2>2. [op |-> "confirm"] \in Command \cup [op : {"integrity", "confirm"}]
    OBVIOUS
  <2>3. \A i \in DOMAIN reqs' : (i \in DOMAIN reqs /\ reqs'[i] = reqs[i]) \/ reqs'[i].op = "confirm"
    BY <2>1, <2>2, Enqueue DEF TypeOK, Connection
  <2>4. QED
    BY <2>3 DEF NoCommand, IsCommand
<1>4. CASE m.type = "answer"
  <2>1. /\ loop.waits /\ Answers(m)
        /\ \A j \in DOMAIN wire : wire[j].type = "answer" => j = 1
    BY <1>1, <1>4 DEF OneOpen
  <2>2. NoAnswer'
    <3>1. \A n \in DOMAIN wire' : n + 1 # 1
      BY <1>2
    <3>2. QED
      BY <1>2, <2>1, <3>1 DEF NoAnswer
  <2>3. NoCommand'
    BY <1>1, <1>3, <1>4 DEF OneOpen, NoAnswer, NoCommand
  <2>4. ~loop'.waits
    BY <1>4 DEF Receive, Advanced, TypeOK, Station, Loops
  <2>5. QED
    BY <1>4, <2>1, <2>2, <2>3, <2>4, NothingOpened DEF OneOpen
<1>5. CASE m.type # "answer"
  <2>1. loop' = loop
    BY <1>5 DEF Receive
  <2>2. RequestsKept
    <3>1. reqs' = reqs \/ reqs' = Append(reqs, [op |-> "confirm"])
      BY DEF Receive
    <3>2. [op |-> "confirm"] \in Command \cup [op : {"integrity", "confirm"}]
      OBVIOUS
    <3>3. \A i \in DOMAIN reqs' : (i \in DOMAIN reqs /\ reqs'[i] = reqs[i]) \/ reqs'[i].op = "confirm"
      BY <3>1, <3>2, Enqueue DEF TypeOK, Connection
    <3>4. \A i \in DOMAIN reqs' : IsCommand(reqs'[i]) => i \in DOMAIN reqs /\ reqs'[i] = reqs[i]
      BY <3>3 DEF IsCommand
    <3>5. QED
      BY <3>4 DEF OneOpen, RequestsKept
  <2>3. ASSUME NEW i \in DOMAIN wire', wire'[i].type = "answer"
        PROVE  /\ \E j \in DOMAIN wire : wire'[i] = wire[j]
               /\ \A k \in DOMAIN wire' : wire'[k].type = "answer" => k = i
    <3>1. \A j \in DOMAIN wire : wire[j].type = "answer" => j = i + 1
      BY <1>2, <2>3 DEF OneOpen
    <3>2. ASSUME NEW k \in DOMAIN wire', wire'[k].type = "answer" PROVE k = i
      <4>1. k + 1 = i + 1 /\ k \in Nat /\ i \in Nat
        BY <1>2, <2>3, <3>1, <3>2
      <4>2. QED
        BY <4>1
    <3>3. QED
      BY <1>2, <2>3, <3>2
  <2>4. OneOpen'
    BY <1>1, <2>1, <2>2, <2>3, StillOpen DEF AnswersKept
  <2>5. QED
    BY <1>5, <2>4
<1>6. QED
  BY <1>4, <1>5

\* The loop opens a request when the one before is closed.
LEMMA LoopOpen ==
  ASSUME TypeOK, OneOpen, Loop
  PROVE  OneOpen'
<1>1. CASE Request
  <2>1. /\ loop.at \in Passes /\ loop.i \in DOMAIN loop.script /\ ~loop.waits
        /\ reqs' = Append(reqs, Item) /\ loop' = [loop EXCEPT !.waits = TRUE] /\ wire' = wire
    BY <1>1 DEF Request, TypeOK, Station, Loops
  <2>2. NoCommand /\ NoAnswer
    BY <2>1, NothingOpen
  <2>3. Item' = Item /\ loop'.waits /\ loop'.at \in Passes /\ loop'.i \in DOMAIN loop'.script
    BY <2>1 DEF Item, TypeOK, Station, Loops
  <2>4. Item \in Command \cup [op : {"integrity", "confirm"}]
    BY <2>1, ItemIsCommand
  <2>5. \A i \in DOMAIN reqs' : IsCommand(reqs'[i]) => i = Len(reqs) + 1 /\ reqs'[i] = Item
    BY <2>1, <2>2, <2>4, Enqueue DEF NoCommand, TypeOK, Connection
  <2>6. NoAnswer'
    BY <2>1, <2>2 DEF NoAnswer
  <2>7. QED
    BY <2>3, <2>5, <2>6 DEF OneOpen, NoAnswer
<1>2. CASE BeginWriter \/ PassDone \/ Timer \/ Notified \/ Test
  <2>1. ~loop.waits
    <3>1. BeginWriter \/ PassDone => loop.i \notin DOMAIN loop.script
      BY DEF BeginWriter, PassDone, TypeOK, Station, Loops
    <3>2. Timer \/ Notified \/ Test => loop.at \notin Passes
      BY DEF Timer, Notified, Test, Passes
    <3>3. QED
      BY <1>2, <3>1, <3>2 DEF OneOpen
  <2>2. NoCommand /\ NoAnswer
    BY <2>1, NothingOpen
  <2>3. reqs' = reqs /\ wire' = wire
    BY <1>2 DEF BeginWriter, PassDone, Timer, Notified, Test
  <2>4. ~loop'.waits
    <3>1. CASE BeginWriter
      BY <2>1, <3>1 DEF BeginWriter, TypeOK, Station, Loops
    <3>2. CASE PassDone
      <4>1. After[loop.at] \in Passes \cup {"select", "test"}
        BY <3>2 DEF PassDone, Passes, After
      <4>2. Pass(After[loop.at]) \in Loops /\ ~Pass(After[loop.at]).waits
        BY <4>1, PassTypes
      <4>3. QED
        BY <3>2, <4>2 DEF PassDone, Loops
    <3>3. CASE Timer \/ Notified \/ Test
      BY <3>3, PassTypes DEF Timer, Notified, Test, Passes
    <3>4. QED
      BY <1>2, <3>1, <3>2, <3>3
  <2>5. NoCommand' /\ NoAnswer'
    BY <2>2, <2>3 DEF NoCommand, NoAnswer
  <2>6. QED
    BY <2>4, <2>5, NothingOpened
<1>3. QED
  BY <1>1, <1>2 DEF Loop

\* A new scenario opens none, and a lost connection closes what was open.
LEMMA OtherOpen ==
  ASSUME TypeOK, OneOpen, LoadScenario \/ Break
  PROVE  OneOpen'
<1>1. CASE LoadScenario
  <2>1. UNCHANGED <<reqs, wire, loop, inputs, statuses, operated>>
    BY <1>1 DEF LoadScenario, outVars
  <2>2. QED
    BY <2>1, StillOpen DEF OneOpen, RequestsKept, AnswersKept
<1>2. CASE Break
  <2>1. reqs' = <<[op |-> "integrity"]>> /\ wire' = <<>>
    BY <1>2 DEF Break
  <2>2. NoCommand' /\ NoAnswer'
    BY <2>1 DEF NoCommand, NoAnswer, IsCommand
  <2>3. ~loop'.waits
    BY <1>2 DEF Break, Advanced, TypeOK, Station, Loops
  <2>4. QED
    BY <2>2, <2>3, NothingOpened
<1>3. QED
  BY <1>1, <1>2

\* What is still to be reported ends with what the inputs are.
LEMMA ChangesSettled ==
  ASSUME TypeOK, Settled(changes), Serve
  PROVE  Settled(changes)'
<1>1. CASE ServeOperate
  <2> DEFINE r == Head(reqs)
  <2>1. CASE UNCHANGED <<inputs, changes>>
    <3>1. \A p \in Point : Mentions(changes, p) => p \in Input
      BY DEF Mentions, TypeOK, Outstation, Change, Input
    <3>2. \A p \in Point : p \in Input => Current(p)' = Current(p)
      BY <2>1 DEF Current
    <3>3. changes' = changes
      BY <2>1
    <3>4. QED
      BY <3>1, <3>2, <3>3 DEF Settled, Mentions, Newest
  <2>2. CASE /\ r \in WriteAo
             /\ inputs' = [inputs EXCEPT ![AoToAi[r.point]] = r.value]
             /\ changes' = IF inputs[AoToAi[r.point]] = r.value THEN changes
                           ELSE Append(changes, <<AoToAi[r.point], r.value>>)
             /\ Within(AoBounds[r.point], r.value)
    <3>1. AoToAi[r.point] \in AnalogInput /\ <<AoToAi[r.point], r.value>> \in Change
      BY <2>2, PointsAssumption DEF WriteAo, Input, Point, Change, Reading, Proper, Value
    <3>2. PICK i \in AnalogInput, v \in Value :
             /\ <<i, v>> \in Change /\ inputs' = [inputs EXCEPT ![i] = v]
             /\ changes' = IF inputs[i] = v THEN changes ELSE Append(changes, <<i, v>>)
      BY <2>2, <3>1 DEF Change, Reading
    <3>3. i \in Input /\ DOMAIN inputs = Input /\ changes \in Seq(Change)
          /\ \A p \in Point : Mentions(changes, p) => p \in Input
      BY DEF Mentions, TypeOK, Outstation, Change, Input
    <3>4. CASE inputs[i] = v
      <4>1. inputs' = inputs /\ changes' = changes
        BY <3>2, <3>4 DEF TypeOK, Outstation
      <4>2. QED
        BY <2>1, <4>1
    <3>5. CASE inputs[i] # v
      <4>1. changes' = Append(changes, <<i, v>>)
        BY <3>2, <3>5
      <4>2. Current(i)' = v /\ \A p \in Input : p # i => Current(p)' = Current(p)
        BY <3>2, <3>3 DEF Current
      <4>3. /\ Newest(Append(changes, <<i, v>>), i, v)
            /\ \A q, w : q # i => (Newest(Append(changes, <<i, v>>), q, w) <=> Newest(changes, q, w))
            /\ \A q : q # i => (Mentions(Append(changes, <<i, v>>), q) <=> Mentions(changes, q))
        BY <3>2, <3>3, NewestOfMore
      <4>4. ASSUME NEW p \in Point, Mentions(changes, p)' PROVE Newest(changes, p, Current(p))'
        <5>1. CASE p = i
          BY <4>1, <4>2, <4>3, <5>1 DEF Newest
        <5>2. CASE p # i
          <6>1. Mentions(changes', p)
            BY <4>4 DEF Mentions
          <6>2. Mentions(changes, p)
            BY <4>1, <4>3, <5>2, <6>1
          <6>3. Newest(changes, p, Current(p)) /\ Current(p)' = Current(p)
            BY <3>3, <4>2, <5>2, <6>2 DEF Settled
          <6>4. Newest(changes', p, Current(p))
            BY <4>1, <4>3, <5>2, <6>3
          <6>5. QED
            BY <6>3, <6>4 DEF Newest
        <5>3. QED
          BY <5>1, <5>2
      <4>5. QED
        BY <4>4 DEF Settled
    <3>6. QED
      BY <3>4, <3>5
  <2>3. QED
    BY <1>1, <2>1, <2>2, OperateDoes
<1>2. CASE ServeRead \/ Report
  <2>1. UNCHANGED <<inputs, statuses, changes>>
    BY <1>2 DEF ServeRead, Report, outVars
  <2>2. QED
    BY <2>1 DEF Settled, Mentions, Newest, Current
<1>3. CASE ServeConfirm
  <2>1. /\ changes' = SubSeq(changes, reported + 1, Len(changes)) /\ UNCHANGED <<inputs, statuses>>
        /\ changes \in Seq(Change) /\ reported \in 0 .. Len(changes)
    BY <1>3 DEF ServeConfirm, TypeOK, Outstation
  <2>2. ASSUME NEW p \in Point, Mentions(changes', p) PROVE Newest(changes', p, Current(p))
    <3>1. /\ Mentions(changes, p)
          /\ \A v : Newest(changes, p, v) => Newest(changes', p, v)
      BY <2>1, <2>2, NewestOfRest
    <3>2. QED
      BY <3>1 DEF Settled
  <2>3. \A p : Current(p)' = Current(p)
    BY <2>1 DEF Current
  <2>4. QED
    BY <2>2, <2>3 DEF Settled, Mentions, Newest
<1>4. QED
  BY <1>1, <1>2, <1>3 DEF Serve

\* Link is inductive.
LEMMA LinkStep ==
  ASSUME TypeOK, Link, [Next]_vars
  PROVE  Link'
<1>1. OneOpen'
  <2>1. CASE Serve
    BY <2>1, OperateOpen, ServeOpen DEF Serve, Link
  <2>2. CASE Receive
    BY <2>2, ReceiveOpen DEF Link
  <2>3. CASE Loop \/ LoadScenario \/ Break
    BY <2>3, LoopOpen, OtherOpen DEF Link
  <2>4. CASE UNCHANGED vars
    <3>1. UNCHANGED <<reqs, wire, loop, inputs, statuses, operated>>
      BY <2>4 DEF vars, outVars, stationVars
    <3>2. QED
      BY <3>1, StillOpen DEF OneOpen, RequestsKept, AnswersKept, Link
  <2>5. QED
    BY <2>1, <2>2, <2>3, <2>4 DEF Next
<1>2. Settled(changes)'
  <2>1. CASE Serve
    BY <2>1, ChangesSettled DEF Link
  <2>2. CASE ~Serve
    <3>1. UNCHANGED <<inputs, statuses, changes>>
      BY <2>2 DEF Next, Receive, Loop, BeginWriter, Request, PassDone, Timer, Notified, Test,
         LoadScenario, Break, vars, outVars
    <3>2. QED
      BY <3>1 DEF Link, Settled, Mentions, Newest, Current
  <2>3. QED
    BY <2>1, <2>2
<1>3. sent' \subseteq operated'
  <2>1. CASE Receive
    <3>1. operated' = operated
      BY <2>1 DEF Receive, outVars
    <3>2. Head(wire).type = "answer" /\ Item.op # "read" => Item.point \in operated
      BY <2>1, ReceiveOpen DEF Link, Answers
    <3>3. QED
      BY <2>1, <3>1, <3>2 DEF Receive, Link
  <2>2. CASE ServeOperate
    <3>1. operated \subseteq operated' /\ sent' = sent
      BY <2>2, OperateDoes
    <3>2. QED
      BY <3>1 DEF Link
  <2>3. CASE ~Receive /\ ~ServeOperate
    <3>1. operated' = operated /\ (sent' = sent \/ sent' = {})
      BY <2>3 DEF Next, Serve, ServeRead, Report, ServeConfirm, Loop, BeginWriter, Request, PassDone,
         Timer, Notified, Test, LoadScenario, Break, vars, outVars, stationVars
    <3>2. QED
      BY <3>1 DEF Link
  <2>4. QED
    BY <2>1, <2>2, <2>3
<1>4. QED
  BY <1>1, <1>2, <1>3 DEF Link

\* At first nothing is open, nothing changed and nothing sent.
LEMMA LinkInit ==
  ASSUME Init
  PROVE  Link
<1>1. NoCommand /\ NoAnswer /\ ~loop.waits
  BY DEF Init, NoCommand, NoAnswer, IsCommand, Pass
<1>2. OneOpen
  BY <1>1 DEF OneOpen, NoCommand, NoAnswer
<1>3. changes = <<>> /\ sent = {}
  BY DEF Init
<1>4. QED
  BY <1>2, <1>3 DEF Link, Settled, Mentions

\* Type correctness: the stations exchange commands, reports and values of
\* the points of the profile, every value within the bounds of its point; and one
\* request is open at a time, its answer says what the outstation has, and what
\* is still to be reported ends with the values of the inputs.
THEOREM TypeCorrect == Spec => [](TypeOK /\ Link)
<1>1. Init => TypeOK /\ Link
  BY InitTypes, LinkInit
<1>2. TypeOK /\ Link /\ [Next]_vars => (TypeOK /\ Link)'
  <2> SUFFICES ASSUME TypeOK, Link, [Next]_vars PROVE (TypeOK /\ Link)'
    OBVIOUS
  <2>1. Link'
    BY LinkStep
  <2>2. CASE Serve
    BY <2>1, <2>2, OperateTypes, ServeTypes DEF Serve
  <2>3. CASE Receive
    BY <2>1, <2>3, ReceiveTypes DEF Link
  <2>4. CASE Loop \/ LoadScenario \/ Break
    BY <2>1, <2>4, LoopTypes, OtherTypes
  <2>5. CASE UNCHANGED vars
    BY <2>1, <2>5 DEF vars, outVars, stationVars, TypeOK, Outstation, Connection, Station
  <2>6. QED
    BY <2>2, <2>3, <2>4, <2>5 DEF Next
<1>3. QED
  BY <1>1, <1>2, PTL DEF Spec

\* What the control station counts as sent the outstation has operated, so that
\* a test that passes here for its outputs passes there, unless one was refused.
THEOREM SentWasOperated == Spec => []SidesAgree
<1>1. TypeOK /\ Link => SidesAgree
  <2> SUFFICES ASSUME TypeOK, Link, NEW t \in DOMAIN Tests, StationPasses(t), Tests[t].ao \cap refused = {}
               PROVE  OutstationPasses(t)
    BY DEF SidesAgree
  <2>1. /\ Tests[t].family \in {"mode", "curve", "schedule"}
        /\ Tests[t].ai \subseteq AnalogInput /\ Tests[t].bi \subseteq BinaryInput
        /\ Tests[t].family = "curve" => Tests[t].bo = {}
    BY TestsAssumption
  <2>2. Tests[t].ao \subseteq sent /\ Tests[t].bo \subseteq sent
    BY <2>1 DEF StationPasses, RunTest, CurveTest, ScheduleTest, Sent, AoSent, BoSent
  <2>3. QED
    BY <2>1, <2>2 DEF OutstationPasses, AiPresent, BiPresent, AoWritten, BoWritten, AoAccepted, Link
<1>2. QED
  BY <1>1, TypeCorrect, PTL

-----------------------------------------------------------------------------
(* The pass a scenario is judged by.                                        *)

\* All values are asked for only when the connection is back.
LEMMA OnlyBreaksReconnect ==
  ASSUME TypeOK, OneOpen, [Next]_vars, ~Break, Reconnecting'
  PROVE  Reconnecting
<1>1. ASSUME NEW m \in Message, wire' = Append(wire, m), NEW n \in DOMAIN wire', wire'[n].type = "integrity"
      PROVE  m.type = "integrity" \/ \E k \in DOMAIN wire : wire[k].type = "integrity"
  BY <1>1, Enqueue DEF TypeOK, Connection
<1>2. ASSUME NEW r \in Command \cup [op : {"integrity", "confirm"}], r.op # "integrity",
             reqs' = Append(reqs, r), NEW n \in DOMAIN reqs', reqs'[n].op = "integrity"
      PROVE  \E k \in DOMAIN reqs : reqs[k].op = "integrity"
  BY <1>2, Enqueue DEF TypeOK, Connection
<1>3. ASSUME reqs # <<>>, reqs' = Tail(reqs), NEW n \in DOMAIN reqs', reqs'[n].op = "integrity"
      PROVE  \E k \in DOMAIN reqs : reqs[k].op = "integrity"
  BY <1>3, Queue DEF TypeOK, Connection
<1>4. ASSUME wire # <<>>, wire' = Tail(wire), NEW n \in DOMAIN wire', wire'[n].type = "integrity"
      PROVE  \E k \in DOMAIN wire : wire[k].type = "integrity"
  BY <1>4, Queue DEF TypeOK, Connection
<1>5. CASE ServeOperate
  <2>1. PICK st \in {"success", "out_of_range"} :
          wire' = Append(wire, [type |-> "answer", status |-> st, values |-> <<>>])
    BY <1>5, OperateDoes DEF Answer
  <2>2. [type |-> "answer", status |-> st, values |-> <<>>] \in Message
    <3>1. <<>> \in Seq(Reading)
      OBVIOUS
    <3>2. QED
      BY <3>1 DEF Message
  <2>3. reqs # <<>> /\ reqs' = Tail(reqs)
    BY <1>5 DEF ServeOperate
  <2>4. QED
    BY <1>1, <1>3, <2>1, <2>2, <2>3 DEF Reconnecting
<1>6. CASE ServeRead
  <2>1. reqs # <<>> /\ reqs' = Tail(reqs)
    BY <1>6 DEF ServeRead
  <2>2. CASE Head(reqs).op = "integrity"
    <3>1. Head(reqs) = reqs[1] /\ 1 \in DOMAIN reqs
      BY <2>1, Queue DEF TypeOK, Connection
    <3>2. QED
      BY <2>2, <3>1 DEF Reconnecting
  <2>3. CASE Head(reqs).op = "read"
    <3>1. wire' = Append(wire, [type |-> "answer", status |-> "success", values |-> AllValues])
      BY <1>6, <2>3 DEF ServeRead
    <3>2. [type |-> "answer", status |-> "success", values |-> AllValues] \in Message
      BY AllValuesComplete DEF Message
    <3>3. QED
      BY <1>1, <1>3, <2>1, <3>1, <3>2 DEF Reconnecting
  <2>4. QED
    BY <1>6, <2>2, <2>3 DEF ServeRead
<1>7. CASE Report
  <2>1. wire' = Append(wire, [type |-> "report", status |-> "success", values |-> changes]) /\ reqs' = reqs
    BY <1>7 DEF Report
  <2>2. [type |-> "report", status |-> "success", values |-> changes] \in Message
    BY DEF Message, TypeOK, Outstation
  <2>3. QED
    BY <1>1, <2>1, <2>2 DEF Reconnecting
<1>8. CASE ServeConfirm
  BY <1>3, <1>8 DEF ServeConfirm, Reconnecting
<1>9. CASE Receive
  <2>1. wire # <<>> /\ wire' = Tail(wire) /\ (reqs' = reqs \/ reqs' = Append(reqs, [op |-> "confirm"]))
    BY <1>9 DEF Receive
  <2>2. QED
    BY <1>2, <1>4, <2>1 DEF Reconnecting
<1>10. CASE Request
  <2>1. loop.i \in DOMAIN loop.script /\ reqs' = Append(reqs, Item) /\ wire' = wire
    BY <1>10 DEF Request, TypeOK, Station, Loops
  <2>2. QED
    BY <1>2, <2>1, ItemIsCommand DEF Reconnecting
<1>11. CASE UNCHANGED <<reqs, wire>>
  BY <1>11 DEF Reconnecting
<1>12. QED
  BY <1>5, <1>6, <1>7, <1>8, <1>9, <1>10, <1>11
  DEF Next, Serve, Loop, BeginWriter, PassDone, Timer, Notified, Test, LoadScenario, vars

\* A pass begins with nothing on its way from an older connection.
LEMMA CalmStep ==
  ASSUME TypeOK, OneOpen, Calm, [Next]_vars
  PROVE  Calm'
<1>0. loop \in Loops /\ broken \in Nat /\ loop.since \in Int
  BY DEF TypeOK, Station, Loops
<1>1. CASE Break
  <2>1. broken' = broken + 1 /\ loop'.since = loop.since
    BY <1>0, <1>1 DEF Break, Advanced, Loops
  <2>2. QED
    BY <1>0, <2>1 DEF Calm
<1>2. CASE ~Break
  <2>1. broken' = broken
    BY <1>2 DEF Next, Serve, ServeOperate, ServeRead, Report, ServeConfirm, Receive, Loop, BeginWriter,
       Request, PassDone, Timer, Notified, Test, LoadScenario, vars
  <2>2. Reconnecting' => Reconnecting
    BY <1>2, OnlyBreaksReconnect
  <2>3. \/ loop'.at = loop.at /\ loop'.since = loop.since
        \/ loop'.since <= broken /\ (loop'.since = broken => ~Reconnecting)
        \/ loop'.at = "test" /\ loop'.since = loop.since /\ loop.at = "notified"
        \/ loop'.at \notin {"notified", "test"} /\ loop'.since <= broken
    <3>1. CASE BeginWriter \/ Request
      BY <1>0, <3>1 DEF BeginWriter, Request, Loops
    <3>2. CASE PassDone
      <4>1. /\ After[loop.at] \in Passes \cup {"select", "test"}
            /\ After[loop.at] = "test" => loop.at = "notified"
        BY <3>2 DEF PassDone, Passes, After
      <4>2. /\ Pass(After[loop.at]) \in Loops /\ Pass(After[loop.at]).at = After[loop.at]
            /\ Pass(After[loop.at]).since <= broken
            /\ Pass(After[loop.at]).since = broken => ~Reconnecting
        BY <4>1, PassTypes
      <4>3. QED
        BY <3>2, <4>1, <4>2 DEF PassDone, Loops
    <3>3. CASE Timer \/ Notified \/ Test
      BY <3>3, PassTypes DEF Timer, Notified, Test, Passes
    <3>4. CASE loop' = loop \/ loop' = Advanced
      BY <1>0, <3>4 DEF Advanced, Loops
    <3>5. QED
      BY <1>2, <3>1, <3>2, <3>3, <3>4 DEF Next, Serve, ServeOperate, ServeRead, Report, ServeConfirm,
         Receive, Loop, LoadScenario, vars, stationVars
  <2>4. QED
    BY <1>0, <2>1, <2>2, <2>3 DEF Calm
<1>3. QED
  BY <1>1, <1>2

\* In a pass that is not disturbed the loop serves no read of its own making:
\* an operate belongs to one of the first two writers, a read to the last.
LEMMA WhoAsks ==
  ASSUME TypeOK, Undisturbed, ToldSo, loop.waits, loop.at \in Passes, loop.i \in DOMAIN loop.script
  PROVE  /\ loop.at = "notified" /\ loop.writer \in {1, 2, 3}
         /\ Item.op = "write_ao" <=> loop.writer = 1
         /\ Item.op = "write_bo" <=> loop.writer = 2
         /\ Item.op = "read" <=> loop.writer = 3
         /\ loop.writer = 1 => Item.point \in DOMAIN AoToAi /\ Item.value = expected[AoToAi[Item.point]]
<1>1. loop.at = "notified" /\ loop.writer \in 0 .. 3
  BY DEF Undisturbed, Passes, TypeOK, Station, Loops
<1>2. loop.writer # 0
  BY <1>1 DEF ToldSo, Begun
<1>3. CASE loop.writer = 1
  BY <1>1, <1>3, ItemIsCommand DEF ToldSo, WritingAo, Item
<1>4. CASE loop.writer = 2
  BY <1>1, <1>4 DEF ToldSo, WritingBo, Item
<1>5. CASE loop.writer = 3
  <2>1. loop.script = ReadEntries
    BY <1>1, <1>5 DEF ToldSo, ReadingBack
  <2>2. \A n \in DOMAIN ReadEntries : ReadEntries[n].op = "read"
    BY ScriptsOfCommands
  <2>3. Item.op = "read"
    BY <2>1, <2>2 DEF Item
  <2>4. QED
    BY <1>1, <1>5, <2>3
<1>6. QED
  BY <1>1, <1>2, <1>3, <1>4, <1>5

\* The outstation serves: it does what the profile says.
LEMMA OperateTold ==
  ASSUME TypeOK, Link, Undisturbed, ToldSo, ServeOperate
  PROVE  ToldSo'
<1>1. /\ Head(reqs) = Item /\ loop.waits /\ loop.at \in Passes /\ loop.i \in DOMAIN loop.script
  BY OperateOpen DEF Link
<1>2. /\ loop.at = "notified" /\ loop.writer \in {1, 2, 3}
      /\ Item.op = "write_ao" <=> loop.writer = 1
      /\ Item.op = "write_bo" <=> loop.writer = 2
      /\ Item.op = "read" <=> loop.writer = 3
      /\ loop.writer = 1 => Item.point \in DOMAIN AoToAi /\ Item.value = expected[AoToAi[Item.point]]
  BY <1>1, WhoAsks
<1>3. UNCHANGED <<latest, sent, expected, notify, loop, broken>> /\ Head(reqs).op \in {"write_ao", "write_bo"}
  BY OperateDoes DEF ServeOperate
<1>4. loop.writer \in {1, 2}
  BY <1>1, <1>2, <1>3
<1>5. ASSUME NEW a \in DOMAIN AoToAi, AoDone(a) PROVE AoDone(a)'
  <2>1. \/ inputs' = inputs
        \/ /\ Head(reqs).op = "write_ao"
           /\ inputs' = [inputs EXCEPT ![AoToAi[Head(reqs).point]] = Head(reqs).value]
    BY OperateDoes
  <2>2. CASE inputs' = inputs
    BY <1>3, <1>5, <2>2 DEF AoDone, Accepts
  <2>3. CASE /\ Head(reqs).op = "write_ao"
             /\ inputs' = [inputs EXCEPT ![AoToAi[Head(reqs).point]] = Head(reqs).value]
    <3>1. Item.value = expected[AoToAi[Item.point]]
      BY <1>1, <1>2, <2>3
    <3>2. AoToAi[a] \in Input /\ DOMAIN inputs = Input
      BY PointsAssumption DEF TypeOK, Outstation, Input
    <3>3. inputs'[AoToAi[a]] = IF AoToAi[a] = AoToAi[Item.point] THEN Item.value ELSE inputs[AoToAi[a]]
      BY <1>1, <2>3, <3>2
    <3>4. QED
      BY <1>3, <1>5, <3>1, <3>3 DEF AoDone, Accepts
  <2>4. QED
    BY <2>1, <2>2, <2>3
<1>6. \A p : Ahead(p)' <=> Ahead(p)
  BY <1>3 DEF Ahead
<1>7. CASE loop.writer = 1
  <2>1. WritingAo
    BY <1>2, <1>7 DEF ToldSo
  <2>2. WritingAo'
    BY <1>3, <1>5, <1>6, <2>1 DEF WritingAo, NoBinaryYet
  <2>3. QED
    BY <1>2, <1>3, <1>7, <2>2 DEF ToldSo, Accepts
<1>8. CASE loop.writer = 2
  <2>1. WritingBo /\ \A a \in DOMAIN AoToAi : AoDone(a)
    BY <1>2, <1>8 DEF ToldSo
  <2>2. WritingBo'
    BY <1>3, <1>6, <2>1 DEF WritingBo
  <2>3. \A a \in DOMAIN AoToAi : AoDone(a)'
    BY <1>5, <2>1
  <2>4. QED
    BY <1>2, <1>3, <1>8, <2>2, <2>3 DEF ToldSo, Accepts
<1>9. QED
  BY <1>4, <1>7, <1>8

\* What the steps of the outstation that change no value leave as it was.
LEMMA StillTold ==
  ASSUME TypeOK, ToldSo, UNCHANGED <<inputs, statuses, latest, sent, expected, loop>>,
         loop.at = "notified" /\ loop.writer = 3 => (KnowsAllSoon => KnowsAllSoon'),
         loop.at = "test" \/ loop.writer = 3 => (KnowsAll => KnowsAll')
  PROVE  ToldSo'
<1>1. \A p : (Ahead(p)' <=> Ahead(p)) /\ (AoDone(p)' <=> AoDone(p)) /\ (Accepts(p)' <=> Accepts(p))
  BY DEF Ahead, AoDone, Accepts
<1>2. (Begun => Begun') /\ (WritingAo => WritingAo') /\ (WritingBo => WritingBo') /\ (BoDone => BoDone')
  BY <1>1 DEF Begun, WritingAo, WritingBo, BoDone, NoBinaryYet
<1>3. loop.at = "notified" /\ loop.writer = 3 => (ReadingBack => ReadingBack')
  BY DEF ReadingBack
<1>4. QED
  BY <1>1, <1>2, <1>3 DEF ToldSo

\* The answer to a read, or a report, is put on the connection: it says what
\* the outstation has.
LEMMA OneMoreSettled ==
  ASSUME TypeOK, NEW m \in Message, wire' = Append(wire, m), UNCHANGED <<inputs, statuses, latest>>,
         Settled(m.values), m.type = "answer" => NoAnswer
  PROVE  /\ KnowsAll => KnowsAll'
         /\ KnowsAllSoon => KnowsAllSoon'
<1>1. /\ DOMAIN wire' = DOMAIN wire \cup {Len(wire) + 1} /\ wire'[Len(wire) + 1] = m
      /\ \A n \in DOMAIN wire : wire'[n] = wire[n] /\ n < Len(wire) + 1
      /\ wire \in Seq(Message) /\ Len(wire) \in Nat /\ \A n \in DOMAIN wire : n \in Nat
  BY Enqueue DEF TypeOK, Connection
<1>2. \A p : Current(p)' = Current(p)
  BY DEF Current
<1>3. \A s : Settled(s) => \A p \in Point : Mentions(s, p) => Newest(s, p, Current(p)')
  BY <1>2 DEF Settled
<1>4. ASSUME NEW n \in DOMAIN wire', n = Len(wire) + 1 \/ Settled(wire[n].values)
      PROVE  Settled(wire[n].values)'
  <2>1. Settled(wire'[n].values)
    BY <1>1, <1>4
  <2>2. QED
    BY <1>2, <2>1 DEF Settled, Mentions, Newest
<1>5. ASSUME KnowsAll PROVE KnowsAll'
  <2>1. \A p \in Point : latest'[p] = Current(p)'
    BY <1>2, <1>5 DEF KnowsAll
  <2>2. \A n \in DOMAIN wire' : Settled(wire[n].values)'
    BY <1>1, <1>4, <1>5 DEF KnowsAll
  <2>3. QED
    BY <2>1, <2>2 DEF KnowsAll
<1>6. ASSUME KnowsAllSoon, NEW k \in DOMAIN wire', wire'[k].type = "answer", NEW j \in DOMAIN wire', j >= k
      PROVE  Settled(wire[j].values)'
  <2>1. CASE j = Len(wire) + 1
    BY <1>4, <2>1
  <2>2. CASE j # Len(wire) + 1
    <3>1. j \in DOMAIN wire /\ k \in DOMAIN wire /\ wire[k].type = "answer"
      BY <1>1, <1>6, <2>2
    <3>2. QED
      BY <1>4, <1>6, <3>1 DEF KnowsAllSoon
  <2>3. QED
    BY <2>1, <2>2
<1>7. QED
  BY <1>5, <1>6 DEF KnowsAllSoon

\* A read of the pass is answered with all there is; reports add nothing untrue.
LEMMA ServeTold ==
  ASSUME TypeOK, Link, Calm, Undisturbed, ToldSo, ServeRead \/ Report \/ ServeConfirm
  PROVE  ToldSo'
<1>1. UNCHANGED <<inputs, statuses, latest, sent, expected, loop>>
  BY DEF ServeRead, Report, ServeConfirm, outVars, stationVars
<1>2. CASE ServeRead
  <2>1. reqs # <<>> /\ Head(reqs) = reqs[1] /\ 1 \in DOMAIN reqs
    BY <1>2, Queue DEF ServeRead, TypeOK, Connection
  <2>2. Head(reqs).op = "read"
    <3>1. ~Reconnecting
      BY DEF Undisturbed, Calm
    <3>2. QED
      BY <1>2, <2>1, <3>1 DEF ServeRead, Reconnecting
  <2>3. NoAnswer
    BY <2>1, <2>2, HeadIsItem DEF Link
  <2> DEFINE m == [type |-> "answer", status |-> "success", values |-> AllValues]
  <2>4. wire' = Append(wire, m) /\ m \in Message /\ m.values = AllValues
    BY <1>2, <2>2, AllValuesComplete DEF ServeRead, Message
  <2>5. Settled(m.values)
    BY <2>4, AllValuesComplete DEF Complete, Settled
  <2> HIDE DEF m
  <2>6. (KnowsAll => KnowsAll') /\ (KnowsAllSoon => KnowsAllSoon')
    BY <1>1, <2>3, <2>4, <2>5, OneMoreSettled
  <2>7. QED
    BY <1>1, <2>6, StillTold
<1>3. CASE Report
  <2> DEFINE m == [type |-> "report", status |-> "success", values |-> changes]
  <2>1. wire' = Append(wire, m) /\ m \in Message /\ m.type # "answer"
    BY <1>3 DEF Report, Message, TypeOK, Outstation
  <2>2. Settled(m.values)
    BY DEF Link
  <2> HIDE DEF m
  <2>3. (KnowsAll => KnowsAll') /\ (KnowsAllSoon => KnowsAllSoon')
    BY <1>1, <2>1, <2>2, OneMoreSettled
  <2>4. QED
    BY <1>1, <2>3, StillTold
<1>4. CASE ServeConfirm
  <2>1. wire' = wire
    BY <1>4 DEF ServeConfirm
  <2>2. (KnowsAll => KnowsAll') /\ (KnowsAllSoon => KnowsAllSoon')
    <3>1. \A p : Current(p)' = Current(p)
      BY <1>1 DEF Current
    <3>2. \A k \in DOMAIN wire : Settled(wire[k].values)' <=> Settled(wire[k].values)
      BY <1>1, <2>1 DEF Settled, Mentions, Newest, Current
    <3>3. QED
      BY <1>1, <2>1, <3>1, <3>2 DEF KnowsAll, KnowsAllSoon
  <2>3. QED
    BY <1>1, <2>2, StillTold
<1>5. QED
  BY <1>2, <1>3, <1>4

\* A message is received that says what the outstation has, as do all that follow.
LEMMA OneMessageRead ==
  ASSUME TypeOK, Receive
  PROVE  /\ /\ \A p \in Point : latest[p] = Current(p) \/ Mentions(Head(wire).values, p)
            /\ \A k \in DOMAIN wire : Settled(wire[k].values)
            => KnowsAll'
         /\ KnowsAllSoon => KnowsAllSoon'
<1>1. /\ wire # <<>> /\ Head(wire) = wire[1] /\ 1 \in DOMAIN wire
      /\ UNCHANGED <<inputs, statuses>>
      /\ \A n \in DOMAIN wire' : n \in Nat \ {0} /\ n + 1 \in DOMAIN wire /\ wire'[n] = wire[n + 1]
  BY Queue DEF Receive, TypeOK, Connection, outVars
<1>2. \A p : Current(p)' = Current(p)
  BY <1>1 DEF Current
<1>3. ASSUME NEW n \in DOMAIN wire', Settled(wire[n + 1].values) PROVE Settled(wire[n].values)'
  <2>1. Settled(wire'[n].values)
    BY <1>1, <1>3
  <2>2. QED
    BY <1>2, <2>1 DEF Settled, Mentions, Newest
<1>4. ASSUME \A p \in Point : latest[p] = Current(p) \/ Mentions(Head(wire).values, p),
             \A k \in DOMAIN wire : Settled(wire[k].values)
      PROVE  KnowsAll'
  <2>1. Settled(Head(wire).values)
    BY <1>1, <1>4
  <2>2. ASSUME NEW p \in Point PROVE latest'[p] = Current(p)
    <3>1. CASE Mentions(Head(wire).values, p)
      BY <2>1, <3>1, ReceiveDoes DEF Settled
    <3>2. CASE ~Mentions(Head(wire).values, p)
      BY <1>4, <3>2, ReceiveDoes
    <3>3. QED
      BY <3>1, <3>2
  <2>3. \A n \in DOMAIN wire' : Settled(wire[n].values)'
    BY <1>1, <1>3, <1>4
  <2>4. QED
    BY <1>2, <2>2, <2>3 DEF KnowsAll
<1>5. ASSUME KnowsAllSoon, NEW k \in DOMAIN wire', wire'[k].type = "answer", NEW j \in DOMAIN wire', j >= k
      PROVE  Settled(wire[j].values)'
  <2>1. wire[k + 1].type = "answer" /\ j + 1 >= k + 1
    BY <1>1, <1>5
  <2>2. QED
    BY <1>1, <1>3, <1>5, <2>1 DEF KnowsAllSoon
<1>6. QED
  BY <1>4, <1>5 DEF KnowsAllSoon

\* A report comes in.
LEMMA ReportTold ==
  ASSUME TypeOK, Link, Calm, Undisturbed, ToldSo, Receive, Head(wire).type # "answer"
  PROVE  ToldSo'
<1>1. UNCHANGED <<inputs, statuses, sent, expected, loop>>
  BY DEF Receive, outVars
<1>2. Head(wire) = wire[1] /\ 1 \in DOMAIN wire /\ Head(wire) \in Message
  BY Queue, ReceiveDoes DEF TypeOK, Connection
<1>3. Head(wire).values \in Seq(Change)
  <2>1. ~Reconnecting
    BY DEF Undisturbed, Calm
  <2>2. Head(wire).type # "integrity"
    BY <1>2, <2>1 DEF Reconnecting
  <2>3. QED
    BY <1>2, <2>2 DEF Message
<1>4. NoBinaryYet => NoBinaryYet'
  <2>1. \A b \in BinaryInput : b \in Point /\ ~Mentions(Head(wire).values, b)
    BY <1>3, PointsAssumption DEF Point, Input, Mentions, Change
  <2>2. QED
    BY <2>1, ReceiveDoes DEF NoBinaryYet
<1>5. \A p : (Ahead(p)' <=> Ahead(p)) /\ (AoDone(p)' <=> AoDone(p)) /\ (Accepts(p)' <=> Accepts(p))
  BY <1>1 DEF Ahead, AoDone, Accepts
<1>6. /\ (Begun => Begun') /\ (WritingAo => WritingAo')
      /\ (WritingBo => WritingBo') /\ (BoDone => BoDone')
  BY <1>1, <1>4, <1>5 DEF Begun, WritingAo, WritingBo, BoDone
<1>7. (KnowsAll => KnowsAll') /\ (KnowsAllSoon => KnowsAllSoon')
  BY OneMessageRead DEF KnowsAll
<1>8. ReadingBack => ReadingBack'
  BY <1>1, <1>7 DEF ReadingBack
<1>9. QED
  BY <1>1, <1>5, <1>6, <1>7, <1>8 DEF ToldSo

\* The answer the loop waits for comes in.
LEMMA AnswerTold ==
  ASSUME TypeOK, Link, Calm, Undisturbed, ToldSo, Receive, Head(wire).type = "answer"
  PROVE  ToldSo'
<1> DEFINE m == Head(wire)
<1>1. /\ loop.waits /\ loop.at \in Passes /\ loop.i \in DOMAIN loop.script /\ Answers(m)
  BY ReceiveOpen DEF Link
<1>2. /\ loop.at = "notified" /\ loop.writer \in {1, 2, 3}
      /\ Item.op = "write_ao" <=> loop.writer = 1
      /\ Item.op = "write_bo" <=> loop.writer = 2
      /\ Item.op = "read" <=> loop.writer = 3
      /\ loop.writer = 1 => Item.point \in DOMAIN AoToAi /\ Item.value = expected[AoToAi[Item.point]]
  BY <1>1, WhoAsks
<1>3. /\ UNCHANGED <<inputs, statuses, expected>>
      /\ sent' = IF Item.op # "read" /\ m.status = "success" THEN sent \cup {Item.point} ELSE sent
      /\ m = wire[1] /\ 1 \in DOMAIN wire /\ \A k \in DOMAIN wire : k \in Nat /\ k >= 1
  <2>1. wire # <<>>
    BY DEF Receive
  <2>2. m = wire[1] /\ 1 \in DOMAIN wire /\ \A k \in DOMAIN wire : k \in Nat \ {0}
    BY <2>1, Queue DEF TypeOK, Connection
  <2>3. QED
    BY <2>2 DEF Receive, outVars
<1>4. /\ loop'.at = loop.at /\ loop'.writer = loop.writer /\ loop'.script = loop.script
      /\ loop'.i = loop.i + 1 /\ loop.i \in Nat \ {0}
  BY DEF Receive, Advanced, TypeOK, Station, Loops
<1>5. \A n \in DOMAIN loop.script : n \in Nat
  BY DEF TypeOK, Station, Loops
<1>6. \A p : Ahead(p) => Ahead(p)' \/ p = Item.point
  <2> SUFFICES ASSUME NEW p, NEW n \in DOMAIN loop.script, n >= loop.i, loop.script[n].point = p
               PROVE  Ahead(p)' \/ p = Item.point
    BY DEF Ahead
  <2>1. n = loop.i \/ n >= loop.i + 1
    BY <1>4, <1>5
  <2>2. QED
    BY <1>4, <2>1 DEF Ahead, Item
<1> HIDE DEF m
<1>7. \A a : AoDone(a) => AoDone(a)'
  BY <1>3 DEF AoDone, Accepts
<1>8. CASE loop.writer = 1
  <2>1. WritingAo /\ \A a \in sent \cap DOMAIN AoToAi : Accepts(a)
    BY <1>2, <1>8 DEF ToldSo
  <2>2. /\ m.values = <<>>
        /\ m.status = "success" => /\ Within(AoBounds[Item.point], Item.value)
                                   /\ inputs[AoToAi[Item.point]] = Item.value
        /\ m.status # "success" => ~Within(AoBounds[Item.point], Item.value)
    BY <1>1, <1>2, <1>8 DEF Answers
  <2>3. NoBinaryYet'
    <3>1. \A b \in BinaryInput : b \in Point /\ ~Mentions(m.values, b)
      BY <2>2 DEF Point, Input, Mentions
    <3>2. QED
      BY <2>1, <3>1, ReceiveDoes DEF NoBinaryYet, WritingAo, m
  <2>4. PICK q \in DOMAIN AoToAi : q = Item.point
    BY <1>2, <1>8
  <2>5. Item.value = expected[AoToAi[q]] /\ AoDone(q)' /\ (q \in sent' /\ q \notin sent => Accepts(q))
    BY <1>2, <1>3, <1>8, <2>2, <2>4 DEF AoDone, Accepts
  <2>6. \A a \in DOMAIN AoToAi : Ahead(a)' \/ AoDone(a)'
    BY <1>6, <1>7, <2>1, <2>4, <2>5 DEF WritingAo
  <2>7. WritingAo'
    BY <1>3, <1>4, <2>1, <2>3, <2>6 DEF WritingAo
  <2>8. \A a \in sent' \cap DOMAIN AoToAi : Accepts(a)'
    BY <1>3, <2>1, <2>4, <2>5 DEF Accepts
  <2>9. QED
    BY <1>2, <1>4, <1>8, <2>7, <2>8 DEF ToldSo
<1>9. \A a \in sent \cap DOMAIN AoToAi : Accepts(a)'
  BY <1>3 DEF ToldSo, Accepts
<1>10. CASE loop.writer = 2
  <2>1. WritingBo /\ \A a \in DOMAIN AoToAi : AoDone(a)
    BY <1>2, <1>10 DEF ToldSo
  <2>2. PICK q \in Latched : q = Item.point
    BY <1>1, <1>2, <1>10, ItemIsCommand
  <2>3. sent' = sent \cup {q}
    BY <1>1, <1>2, <1>3, <1>10, <2>2 DEF Answers
  <2>4. q \notin DOMAIN AoToAi
    BY LatchedIs, PointsAssumption
  <2>5. \A b \in Latched : Ahead(b)' \/ b \in sent'
    BY <1>6, <2>1, <2>2, <2>3 DEF WritingBo
  <2>6. WritingBo'
    BY <1>4, <2>1, <2>5 DEF WritingBo
  <2>7. (\A a \in DOMAIN AoToAi : AoDone(a)') /\ \A a \in sent' \cap DOMAIN AoToAi : Accepts(a)'
    BY <1>7, <1>9, <2>1, <2>3, <2>4
  <2>8. QED
    BY <1>2, <1>4, <1>10, <2>6, <2>7 DEF ToldSo
<1>11. CASE loop.writer = 3
  <2>1. ReadingBack /\ BoDone /\ \A a \in DOMAIN AoToAi : AoDone(a)
    BY <1>2, <1>11 DEF ToldSo
  <2>2. sent' = sent /\ Complete(m.values)
    BY <1>1, <1>2, <1>3, <1>11 DEF Answers
  <2>3. \A p \in Point : Mentions(m.values, p)
    BY <2>2 DEF Complete, Newest, Mentions
  <2>4. \A k \in DOMAIN wire : Settled(wire[k].values)
    <3>1. m.type = "answer"
      BY DEF m
    <3>2. QED
      BY <1>3, <2>1, <3>1 DEF ReadingBack, KnowsAllSoon, KnowsAll
  <2>5. KnowsAll'
    BY <2>3, <2>4, OneMessageRead DEF m
  <2>6. ReadingBack'
    BY <1>4, <2>1, <2>5 DEF ReadingBack
  <2>7. BoDone' /\ (\A a \in DOMAIN AoToAi : AoDone(a)') /\ \A a \in sent' \cap DOMAIN AoToAi : Accepts(a)'
    BY <1>7, <1>9, <2>1, <2>2 DEF BoDone
  <2>8. QED
    BY <1>2, <1>4, <1>11, <2>6, <2>7 DEF ToldSo
<1>12. QED
  BY <1>2, <1>8, <1>10, <1>11

\* The loop goes on with the pass.
LEMMA LoopTold ==
  ASSUME TypeOK, Link, Calm, Undisturbed, ToldSo, BeginWriter \/ Request
  PROVE  ToldSo'
<1>1. UNCHANGED <<inputs, statuses, wire, latest, sent, expected>> /\ loop.at = "notified"
  BY DEF BeginWriter, Request, outVars, Undisturbed, Passes
<1>2. /\ \A p : Current(p)' = Current(p)
      /\ \A p : (AoDone(p)' <=> AoDone(p)) /\ (Accepts(p)' <=> Accepts(p))
      /\ (BoDone' <=> BoDone) /\ (NoBinaryYet' <=> NoBinaryYet)
  BY <1>1 DEF Current, AoDone, Accepts, BoDone, NoBinaryYet
<1>3. loop \in Loops /\ \A n \in DOMAIN loop.script : n \in 1 .. Len(loop.script)
  BY DEF TypeOK, Station, Loops
<1>4. CASE Request
  <2>1. /\ loop'.at = loop.at /\ loop'.writer = loop.writer /\ loop'.script = loop.script
        /\ loop'.i = loop.i
    BY <1>3, <1>4 DEF Request, Loops
  <2>2. \A p : Ahead(p)' <=> Ahead(p)
    BY <2>1 DEF Ahead
  <2>3. /\ (Begun => Begun') /\ (WritingAo => WritingAo') /\ (WritingBo => WritingBo')
    BY <1>1, <1>2, <2>1, <2>2 DEF Begun, WritingAo, WritingBo
  <2>4. \A k \in DOMAIN wire : Settled(wire[k].values)' <=> Settled(wire[k].values)
    BY <1>1 DEF Settled, Mentions, Newest, Current
  <2>5. ReadingBack => ReadingBack'
    BY <1>1, <1>2, <2>1, <2>4 DEF ReadingBack, KnowsAll, KnowsAllSoon
  <2>6. QED
    BY <1>1, <1>2, <2>1, <2>3, <2>5 DEF ToldSo
<1>5. CASE BeginWriter
  <2>1. /\ loop.i > Len(loop.script) /\ loop.writer \in {0, 1, 2}
        /\ loop'.at = "notified" /\ loop'.writer = loop.writer + 1 /\ loop'.i = 1
        /\ loop'.script = Script(Writers[loop.writer + 1])
    BY <1>1, <1>3, <1>5 DEF BeginWriter, Loops, Writers
  <2>2. \A p : ~Ahead(p)
    BY <1>3, <2>1 DEF Ahead, Loops
  <2>3. \A p, n : n \in DOMAIN loop'.script /\ n >= 1 /\ loop'.script[n].point = p => Ahead(p)'
    BY <2>1 DEF Ahead
  <2>4. CASE loop.writer = 0
    <3>1. loop'.script = WriteAllAO /\ loop'.writer = 1
      BY <2>1, <2>4 DEF Script, Writers
    <3>2. sent = {} /\ NoBinaryYet
      BY <1>1, <2>4 DEF ToldSo, Begun
    <3>3. /\ WriteAllAO \in Seq(Command)
          /\ \A n \in DOMAIN WriteAllAO :
               /\ WriteAllAO[n].op = "write_ao" /\ WriteAllAO[n].point \in DOMAIN AoToAi
               /\ WriteAllAO[n].value = expected[AoToAi[WriteAllAO[n].point]]
          /\ \A a \in DOMAIN AoToAi : \E n \in DOMAIN WriteAllAO : WriteAllAO[n].point = a
      BY <3>2, ScriptsOfCommands
    <3>4. \A n \in DOMAIN WriteAllAO : n >= 1
      BY <3>3
    <3>5. \A a \in DOMAIN AoToAi : Ahead(a)'
      BY <2>3, <3>1, <3>3, <3>4
    <3>6. WritingAo'
      BY <1>1, <1>2, <3>1, <3>2, <3>3, <3>5 DEF WritingAo
    <3>7. QED
      BY <1>1, <2>1, <3>1, <3>2, <3>6 DEF ToldSo
  <2>5. CASE loop.writer = 1
    <3>1. loop'.script = WriteBO /\ loop'.writer = 2
      BY <2>1, <2>5 DEF Script, Writers
    <3>2. WritingAo /\ \A a \in sent \cap DOMAIN AoToAi : Accepts(a)
      BY <1>1, <2>5 DEF ToldSo
    <3>3. \A a \in DOMAIN AoToAi : AoDone(a)
      BY <2>2, <3>2 DEF WritingAo
    <3>4. \A i \in DOMAIN BiToBo : latest[i] # TRUE
      <4>1. Nothing # TRUE
        BY PointsAssumption
      <4>2. QED
        BY <3>2, <4>1, LatchedIs DEF WritingAo, NoBinaryYet
    <3>5. /\ WriteBO \in Seq(Command) /\ \A n \in DOMAIN WriteBO : WriteBO[n].op = "write_bo"
          /\ \A b \in Latched : \E n \in DOMAIN WriteBO : WriteBO[n].point = b
      <4>1. \A i \in DOMAIN BiToBo : \E n \in DOMAIN WriteBO : WriteBO[n].point = BiToBo[i]
        BY <3>4, ScriptsOfCommands
      <4>2. \A b \in Latched : \E n \in DOMAIN WriteBO : WriteBO[n].point = b
        BY <4>1 DEF Latched
      <4>3. QED
        BY <4>2, ScriptsOfCommands
    <3>6. \A n \in DOMAIN WriteBO : n >= 1
      BY <3>5
    <3>7. \A b \in Latched : Ahead(b)'
      BY <2>3, <3>1, <3>5, <3>6
    <3>8. WritingBo'
      BY <3>1, <3>5, <3>7 DEF WritingBo
    <3>9. QED
      BY <1>1, <1>2, <2>1, <3>1, <3>2, <3>3, <3>8 DEF ToldSo
  <2>6. CASE loop.writer = 2
    <3>1. loop'.script = ReadEntries /\ loop'.writer = 3
      BY <2>1, <2>6 DEF Script, Writers
    <3>2. /\ WritingBo /\ \A a \in sent \cap DOMAIN AoToAi : Accepts(a)
          /\ \A a \in DOMAIN AoToAi : AoDone(a)
      BY <1>1, <2>6 DEF ToldSo
    <3>3. BoDone
      BY <2>2, <3>2 DEF WritingBo, BoDone
    <3>4. NoAnswer
      <4>1. loop.i \notin DOMAIN loop.script
        BY <1>3, <2>1 DEF Loops
      <4>2. ~loop.waits
        BY <4>1 DEF Link, OneOpen
      <4>3. QED
        BY <4>2, NothingOpen DEF Link
    <3>5. ReadingBack'
      BY <1>1, <2>1, <3>1, <3>4 DEF ReadingBack, KnowsAllSoon, NoAnswer, ReadEntries
    <3>6. QED
      BY <1>1, <1>2, <2>1, <3>1, <3>2, <3>3, <3>5 DEF ToldSo
  <2>7. QED
    BY <2>1, <2>4, <2>5, <2>6
<1>6. QED
  BY <1>4, <1>5

\* The pass is over, or another begins.
LEMMA PassTold ==
  ASSUME TypeOK, Link, Calm, Undisturbed => ToldSo, PassDone \/ Timer \/ Notified \/ Test, Undisturbed'
  PROVE  ToldSo'
<1>1. CASE Timer \/ Test
  BY <1>1, PassTypes DEF Timer, Test, Passes, Undisturbed
<1>2. CASE Notified
  <2>1. /\ loop'.at = "notified" /\ loop'.writer = 0 /\ loop'.script = <<>>
        /\ sent' = {} /\ latest' = Unknown
    BY <1>2, PassTypes DEF Notified, Passes
  <2>2. NoBinaryYet'
    BY <2>1, PointsAssumption DEF NoBinaryYet, Unknown, Point, Input
  <2>3. QED
    BY <2>1, <2>2 DEF ToldSo, Begun
<1>3. CASE PassDone
  <2>1. After[loop.at] \in Passes \cup {"select", "test"} /\ loop.at \in Passes /\ loop \in Loops
    BY <1>3 DEF PassDone, Passes, After, TypeOK, Station
  <2>2. /\ Pass(After[loop.at]) \in Loops /\ Pass(After[loop.at]).at = After[loop.at]
        /\ Pass(After[loop.at]).writer = 0
    BY <2>1, PassTypes
  <2>3. loop'.at = After[loop.at] /\ loop'.writer = 0 /\ (After[loop.at] = "test" => loop'.since = loop.since)
    BY <1>3, <2>2 DEF PassDone, Loops
  <2>4. After[loop.at] = "test" /\ loop.at = "notified"
    BY <2>1, <2>3 DEF Undisturbed, Passes, After
  <2>5. /\ UNCHANGED <<inputs, statuses, wire, latest, sent, expected, notify, broken>>
        /\ loop.writer = 3 /\ loop.i > Len(loop.script)
    BY <1>3 DEF PassDone, outVars, Writers
  <2>6. Undisturbed
    BY <2>3, <2>4, <2>5 DEF Undisturbed
  <2>7. ToldSo /\ ReadingBack
    BY <2>4, <2>5, <2>6 DEF ToldSo
  <2>8. Entries > 0 => KnowsAll
    BY <2>5, <2>7, ScriptsOfCommands DEF ReadingBack
  <2>9. \A k \in DOMAIN wire : Settled(wire[k].values)' <=> Settled(wire[k].values)
    BY <2>5 DEF Settled, Mentions, Newest, Current
  <2>10. Entries > 0 => KnowsAll'
    BY <2>5, <2>8, <2>9 DEF KnowsAll, Current
  <2>11. /\ \A a \in DOMAIN AoToAi : AoDone(a)'
         /\ BoDone' /\ \A a \in sent' \cap DOMAIN AoToAi : Accepts(a)'
    BY <2>5, <2>7 DEF ToldSo, AoDone, Accepts, BoDone
  <2>12. QED
    BY <2>3, <2>4, <2>10, <2>11 DEF ToldSo
<1>4. QED
  BY <1>1, <1>2, <1>3

\* Each step of either station keeps what the pass has come to.
LEMMA PassStep ==
  ASSUME TypeOK, Link, PassInv, [Next]_vars
  PROVE  PassInv'
<1>1. Calm'
  BY CalmStep DEF PassInv, Link
<1>2. ASSUME Undisturbed' PROVE ToldSo'
  <2>1. CASE Serve \/ Receive \/ BeginWriter \/ Request
    <3>1. Undisturbed
      <4>1. notify' = notify /\ broken' = broken /\ loop'.at = loop.at /\ loop'.since = loop.since
        BY <2>1 DEF Serve, ServeOperate, ServeRead, Report, ServeConfirm, Receive, BeginWriter, Request,
           Advanced, TypeOK, Station, Loops, stationVars
      <4>2. QED
        BY <1>2, <4>1 DEF Undisturbed
    <3>2. ToldSo /\ Calm
      BY <3>1 DEF PassInv
    <3>3. QED
      BY <2>1, <3>1, <3>2, OperateTold, ServeTold, ReportTold, AnswerTold, LoopTold DEF Serve
  <2>2. CASE PassDone \/ Timer \/ Notified \/ Test
    BY <1>2, <2>2, PassTold DEF PassInv
  <2>3. CASE LoadScenario
    BY <1>2, <2>3 DEF LoadScenario, Undisturbed
  <2>4. CASE Break
    <3>1. broken' = broken + 1 /\ loop'.since = loop.since /\ loop.since <= broken
      BY <2>4 DEF Break, Advanced, TypeOK, Station, Loops, PassInv, Calm
    <3>2. loop'.since # broken'
      BY <3>1 DEF TypeOK, Station, Loops
    <3>3. QED
      BY <1>2, <3>2 DEF Undisturbed
  <2>5. CASE UNCHANGED vars
    <3>1. UNCHANGED <<inputs, statuses, wire, latest, sent, expected, notify, loop, broken>>
      BY <2>5 DEF vars, outVars, stationVars
    <3>2. Undisturbed /\ ToldSo
      BY <1>2, <3>1 DEF Undisturbed, PassInv
    <3>3. \A k \in DOMAIN wire : Settled(wire[k].values)' <=> Settled(wire[k].values)
      BY <3>1 DEF Settled, Mentions, Newest, Current
    <3>4. (KnowsAll => KnowsAll') /\ (KnowsAllSoon => KnowsAllSoon')
      BY <3>1, <3>3 DEF KnowsAll, KnowsAllSoon, Current
    <3>5. QED
      BY <3>1, <3>2, <3>4, StillTold
  <2>6. QED
    BY <2>1, <2>2, <2>3, <2>4, <2>5 DEF Next, Loop
<1>3. QED
  BY <1>1, <1>2 DEF PassInv

\* When the tests judge a scenario, the loop has written all that the profile
\* asks for, and has been told of it.
THEOREM PassFinishes == Spec => []PassInv
<1>1. Init => PassInv
  <2> SUFFICES ASSUME Init PROVE PassInv
    OBVIOUS
  <2>1. loop = Pass("top") /\ "top" \in Passes /\ TypeOK
    BY InitTypes DEF Init, Passes
  <2>2. loop.at = "top" /\ loop.since <= broken
    BY <2>1, PassTypes
  <2>3. QED
    BY <2>2 DEF PassInv, Calm, Undisturbed
<1>2. TypeOK /\ Link /\ PassInv /\ [Next]_vars => PassInv'
  BY PassStep
<1>3. QED
  BY <1>1, <1>2, TypeCorrect, PTL DEF Spec

\* What the tests find at the end of the pass.
LEMMA JudgedByThePass ==
  ASSUME TypeOK, PassInv, Judging
  PROVE  /\ \A a \in DOMAIN AoToAi : AoDone(a)
         /\ \A a \in sent \cap DOMAIN AoToAi : Accepts(a)
         /\ BoDone
         /\ Entries > 0 => \A p \in Point : latest[p] = Current(p)
BY DEF Judging, PassInv, Undisturbed, ToldSo, KnowsAll

\* When a scenario is judged, the outputs are what its profile says, and the
\* control station knows.
THEOREM ProfileIsFollowed == Spec => []OutputsFollowProfile
<1>1. TypeOK /\ PassInv => OutputsFollowProfile
  <2> SUFFICES ASSUME TypeOK, PassInv, Judging, NEW a \in DOMAIN AoToAi,
                      Within(AoBounds[a], expected[AoToAi[a]])
               PROVE  /\ inputs[AoToAi[a]] = expected[AoToAi[a]]
                      /\ Entries > 0 => latest[AoToAi[a]] = expected[AoToAi[a]]
    BY DEF OutputsFollowProfile
  <2>1. AoToAi[a] \in Input /\ AoToAi[a] \in Point
    BY PointsAssumption DEF Input, Point
  <2>2. QED
    BY <2>1, JudgedByThePass DEF AoDone, Accepts, Current
<1>2. QED
  BY <1>1, TypeCorrect, PassFinishes, PTL

\* A verdict depends on the profile of the scenario alone, not on what happened
\* before: the outputs of the test can be read back and their values are
\* accepted.
THEOREM VerdictOfProfile == Spec => []VerdictIsOfTheProfile
<1>1. TypeOK /\ PassInv => VerdictIsOfTheProfile
  <2> SUFFICES ASSUME TypeOK, PassInv, Judging, Entries > 0, NEW t \in DOMAIN Tests
               PROVE  StationPasses(t) <=>
                        /\ \A a \in Tests[t].ao : a \in DOMAIN AoToAi /\ Accepts(a)
                        /\ Tests[t].bo \subseteq Latched
    BY DEF VerdictIsOfTheProfile, Accepts
  <2>1. /\ Tests[t].family \in {"mode", "curve", "schedule"}
        /\ Tests[t].ai \subseteq AnalogInput /\ Tests[t].bi \subseteq BinaryInput
        /\ Tests[t].ao \subseteq AnalogOutput /\ Tests[t].bo \subseteq BinaryOutput
        /\ Tests[t].family = "curve" => Tests[t].bo = {}
    BY TestsAssumption
  <2>2. /\ \A a \in DOMAIN AoToAi : AoDone(a)
        /\ \A a \in sent \cap DOMAIN AoToAi : Accepts(a)
        /\ Latched \subseteq sent
        /\ \A p \in Point : latest[p] = Current(p)
    BY JudgedByThePass DEF BoDone
  <2>3. /\ sent \subseteq DOMAIN AoToAi \cup Latched /\ outOfRange = {}
        /\ DOMAIN AoToAi \subseteq AnalogOutput /\ Latched \subseteq BinaryOutput
        /\ AnalogOutput \cap BinaryOutput = {}
    BY LatchedIs, PointsAssumption DEF TypeOK, Station
  <2>4. Received(t)
    <3>1. \A p \in Point : latest[p] # Nothing
      BY <2>2, CurrentIsProper
    <3>2. Tests[t].ai \subseteq Point /\ Tests[t].bi \subseteq Point
      BY <2>1 DEF Point, Input
    <3>3. QED
      BY <3>1, <3>2 DEF Received, AiReceived, BiReceived
  <2>5. Sent(t) <=> /\ \A a \in Tests[t].ao : a \in DOMAIN AoToAi /\ Accepts(a)
                    /\ Tests[t].bo \subseteq Latched
    BY <2>1, <2>2, <2>3 DEF Sent, AoSent, BoSent, AoDone
  <2>6. StationPasses(t) <=> Sent(t)
    <3>1. CASE Tests[t].family = "mode"
      BY <2>3, <2>4, <3>1 DEF StationPasses, RunTest, AiInRange, AoInRange
    <3>2. CASE Tests[t].family = "curve"
      BY <2>1, <2>4, <3>2 DEF StationPasses, CurveTest, Received, Sent
    <3>3. CASE Tests[t].family = "schedule"
      BY <2>4, <3>3 DEF StationPasses, ScheduleTest
    <3>4. QED
      BY <2>1, <3>1, <3>2, <3>3
  <2>7. QED
    BY <2>5, <2>6
<1>2. QED
  BY <1>1, TypeCorrect, PassFinishes, PTL
=============================================================================
