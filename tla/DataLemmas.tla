------------------------------ MODULE DataLemmas ------------------------------
(***************************************************************************)
(* Facts about numbers, sets of numbers and sequences that the proofs of   *)
(* several components need.  The induction theorems of the library take a  *)
(* predicate; stated of a set, induction can be used with any predicate    *)
(* that separates a set of numbers.                                        *)
(***************************************************************************)
EXTENDS Integers, Sequences, FiniteSets, SequencesExt, FiniteSetTheorems,
        SequenceTheorems, WellFoundedInduction, TLAPS

\* A set that has 0 and, with a number, the next one, has all natural numbers.
LEMMA SetInduction ==
  ASSUME NEW T, 0 \in T, \A n \in Nat : n \in T => n + 1 \in T
  PROVE  \A n \in Nat : n \in T
<1>1. SUFFICES ASSUME Nat \ T # {} PROVE FALSE
  OBVIOUS
<1> DEFINE R == OpToRel(<, Nat)
<1>2. IsWellFoundedOn(R, Nat)
  BY NatLessThanWellFounded
<1>3. \A a, b \in Nat : a < b => <<a, b>> \in R
  BY DEF OpToRel
<1> HIDE DEF R
<1>4. PICK m \in Nat \ T : \A y \in Nat \ T : <<y, m>> \notin R
  BY <1>1, <1>2, WFMin
<1>5. m # 0
  OBVIOUS
<1>6. m - 1 \in Nat /\ m - 1 < m /\ (m - 1) + 1 = m
  BY <1>5
<1>7. m - 1 \in T
  BY <1>3, <1>4, <1>6
<1>8. QED
  BY <1>6, <1>7

\* A set of numbers that are bounded has a largest one.
LEMMA LargestExists ==
  ASSUME NEW S, S \subseteq Nat, S # {}, NEW b \in Nat, \A x \in S : x <= b
  PROVE  \E m \in S : \A x \in S : x <= m
<1> DEFINE T == {n \in Nat : \A U \in SUBSET Nat :
                   U # {} /\ (\A x \in U : x <= n) => \E m \in U : \A x \in U : x <= m}
<1>1. 0 \in T
  <2>1. ASSUME NEW U \in SUBSET Nat, U # {}, \A x \in U : x <= 0
        PROVE  \E m \in U : \A x \in U : x <= m
    <3>1. PICK m \in U : TRUE
      BY <2>1
    <3>2. \A x \in U : x = 0
      BY <2>1
    <3>3. QED
      BY <3>1, <3>2
  <2>2. QED
    BY <2>1
<1>2. ASSUME NEW n \in Nat, n \in T PROVE n + 1 \in T
  <2>1. ASSUME NEW U \in SUBSET Nat, U # {}, \A x \in U : x <= n + 1
        PROVE  \E m \in U : \A x \in U : x <= m
    <3>1. CASE n + 1 \in U
      BY <2>1, <3>1
    <3>2. CASE n + 1 \notin U
      <4>1. \A x \in U : x <= n
        BY <2>1, <3>2
      <4>2. QED
        BY <1>2, <2>1, <4>1
    <3>3. QED
      BY <3>1, <3>2
  <2>2. QED
    BY <2>1
<1> HIDE DEF T
<1>3. \A n \in Nat : n \in T
  BY <1>1, <1>2, SetInduction
<1>4. QED
  BY <1>3 DEF T

\* A sequence without repetitions has as many elements as it is long.
LEMMA CountOfDistinct ==
  ASSUME NEW S, NEW s \in Seq(S), \A i, j \in DOMAIN s : s[i] = s[j] => i = j
  PROVE  Cardinality(ToSet(s)) = Len(s)
<1>1. Len(s) \in Nat /\ DOMAIN s = 1 .. Len(s)
  OBVIOUS
<1>2. s \in Bijection(1 .. Len(s), ToSet(s))
  <2>1. s \in [1 .. Len(s) -> ToSet(s)]
    BY <1>1 DEF ToSet
  <2>2. QED
    BY <1>1, <2>1 DEF Bijection, Injection, Surjection, IsInjective, ToSet
<1>3. QED
  BY <1>1, <1>2, FS_CountingElements DEF ExistsBijection

\* Three elements, the first or the last of them put to the other two.
LEMMA ThreeElements ==
  ASSUME NEW a, NEW b, NEW c
  PROVE  <<a>> \o <<b, c>> = <<a, b, c>> /\ <<a, b>> \o <<c>> = <<a, b, c>>
<1> DEFINE first == <<a>> \o <<b, c>>
<1> DEFINE last == <<a, b>> \o <<c>>
<1> DEFINE three == <<a, b, c>>
<1>1. first \in Seq({a, b, c}) /\ last \in Seq({a, b, c}) /\ three \in Seq({a, b, c})
  OBVIOUS
<1>2. Len(first) = 3 /\ first[1] = a /\ first[2] = b /\ first[3] = c
  OBVIOUS
<1>3. Len(last) = 3 /\ last[1] = a /\ last[2] = b /\ last[3] = c
  OBVIOUS
<1>4. Len(three) = 3 /\ three[1] = a /\ three[2] = b /\ three[3] = c
  OBVIOUS
<1> HIDE DEF first, last, three
<1>5. first = three
  BY <1>1, <1>2, <1>4, SeqEqual
<1>6. last = three
  BY <1>1, <1>3, <1>4, SeqEqual
<1>7. QED
  BY <1>5, <1>6 DEF first, last, three

\* The largest of some numbers is that one of them that no other exceeds.
LEMMA MaxOf ==
  ASSUME NEW s, s \subseteq Nat, NEW m \in s, \A x \in s : x <= m
  PROVE  Max(s) = m
<1>1. m \in s /\ \A y \in s : m >= y
  OBVIOUS
<1>2. Max(s) \in s /\ \A y \in s : Max(s) >= y
  BY <1>1 DEF Max
<1>3. Max(s) \in Nat /\ m \in Nat /\ m <= Max(s) /\ Max(s) <= m
  BY <1>1, <1>2
<1>4. QED
  BY <1>3

\* Some positions of a sequence have a last one.
LEMMA MaxIn ==
  ASSUME NEW n \in Nat, NEW s \in SUBSET (1 .. n), s # {}
  PROVE  Max(s) \in s
<1>1. \E m \in s : \A x \in s : x <= m
  <2>1. s \subseteq Nat /\ \A x \in s : x <= n
    OBVIOUS
  <2>2. QED
    BY <2>1, LargestExists
<1>2. PICK m \in s : \A x \in s : x <= m
  BY <1>1
<1>3. Max(s) = m
  <2>1. s \subseteq Nat
    OBVIOUS
  <2>2. QED
    BY <1>2, <2>1, MaxOf
<1>4. QED
  BY <1>3

\* f folds F over the positions of each set of them, from the lowest on: this is
\* what the folds of sequences are defined by.
Folds(f, F, base, n) ==
  \A s \in SUBSET (1 .. n) :
    f[s] = IF s = {} THEN base ELSE F[<<f[s \ {Max(s)}], Max(s)>>]

\* There is such an f.
LEMMA FoldExists ==
  ASSUME NEW K, NEW base \in K, NEW N \in Nat, NEW F \in [K \X (1 .. N) -> K]
  PROVE  \E f \in [SUBSET (1 .. N) -> K] : Folds(f, F, base, N)
<1> DEFINE P(n) == \E f \in [SUBSET (1 .. n) -> K] : Folds(f, F, base, n)
<1> DEFINE T == {n \in Nat : n <= N => P(n)}
<1>1. 0 \in T
  <2> DEFINE f == [s \in SUBSET (1 .. 0) |-> base]
  <2>1. SUBSET (1 .. 0) = {{}}
    BY SMT
  <2>2. f \in [SUBSET (1 .. 0) -> K]
    OBVIOUS
  <2>3. \A s \in SUBSET (1 .. 0) : f[s] = base /\ s = {}
    BY <2>1
  <2> HIDE DEF f
  <2>4. P(0)
    BY <2>2, <2>3 DEF Folds
  <2>5. QED
    BY <2>4
<1>2. ASSUME NEW n \in Nat, n \in T PROVE n + 1 \in T
  <2> SUFFICES ASSUME n + 1 <= N PROVE P(n + 1)
    <3> HIDE DEF P
    <3>1. QED
      OBVIOUS
  <2>1. P(n)
    <3> HIDE DEF P
    <3>1. QED
      BY <1>2
  <2>2. PICK f \in [SUBSET (1 .. n) -> K] : Folds(f, F, base, n)
    BY <2>1
  <2> DEFINE g == [s \in SUBSET (1 .. n + 1) |->
                     IF n + 1 \in s THEN F[<<f[s \ {n + 1}], n + 1>>] ELSE f[s]]
  <2>3. \A s \in SUBSET (1 .. n + 1) : s \ {n + 1} \in SUBSET (1 .. n)
    OBVIOUS
  <2>4. \A s \in SUBSET (1 .. n + 1) : n + 1 \notin s => s \in SUBSET (1 .. n)
    OBVIOUS
  <2>5. g \in [SUBSET (1 .. n + 1) -> K]
    <3>1. ASSUME NEW s \in SUBSET (1 .. n + 1) PROVE g[s] \in K
      <4>1. CASE n + 1 \in s
        <5>1. <<f[s \ {n + 1}], n + 1>> \in K \X (1 .. N)
          BY <2>3
        <5>2. QED
          BY <4>1, <5>1
      <4>2. CASE n + 1 \notin s
        BY <2>4, <4>2
      <4>3. QED
        BY <4>1, <4>2
    <3>2. QED
      BY <3>1
  <2>6. ASSUME NEW s \in SUBSET (1 .. n) PROVE g[s] = f[s]
    <3>1. s \in SUBSET (1 .. n + 1) /\ n + 1 \notin s
      OBVIOUS
    <3>2. QED
      BY <3>1
  <2>7. ASSUME NEW s \in SUBSET (1 .. n + 1)
        PROVE  g[s] = IF s = {} THEN base ELSE F[<<g[s \ {Max(s)}], Max(s)>>]
    <3>1. CASE n + 1 \in s
      <4>1. Max(s) = n + 1
        <5>1. s \subseteq Nat /\ \A x \in s : x <= n + 1
          OBVIOUS
        <5>2. QED
          BY <3>1, <5>1, MaxOf
      <4>2. g[s \ {n + 1}] = f[s \ {n + 1}]
        BY <2>3, <2>6
      <4>3. g[s] = F[<<f[s \ {n + 1}], n + 1>>]
        BY <3>1
      <4> HIDE DEF g
      <4>4. QED
        BY <3>1, <4>1, <4>2, <4>3
    <3>2. CASE n + 1 \notin s
      <4>1. s \in SUBSET (1 .. n) /\ s \ {Max(s)} \in SUBSET (1 .. n)
        BY <2>4, <3>2
      <4> HIDE DEF g
      <4>2. g[s] = f[s] /\ g[s \ {Max(s)}] = f[s \ {Max(s)}]
        BY <2>6, <4>1
      <4>3. QED
        BY <2>2, <4>1, <4>2 DEF Folds
    <3>3. QED
      BY <3>1, <3>2
  <2> HIDE DEF g
  <2>8. QED
    BY <2>5, <2>7 DEF Folds
<1>3. N \in T
  <2> HIDE DEF T
  <2>1. QED
    BY <1>1, <1>2, SetInduction
<1>4. P(N)
  <2> HIDE DEF P
  <2>1. QED
    BY <1>3
<1>5. QED
  BY <1>4

\* A finite set put into a sequence: every element is there, and nothing else.
LEMMA SequenceOfSet ==
  ASSUME NEW S, IsFiniteSet(S)
  PROVE  /\ SetToSeq(S) \in Seq(S)
         /\ \A x \in S : \E n \in DOMAIN SetToSeq(S) : SetToSeq(S)[n] = x
<1>1. Cardinality(S) \in Nat /\ ExistsBijection(1 .. Cardinality(S), S)
  BY FS_CardinalityType
<1> DEFINE C == Cardinality(S)
<1>2. PICK f : f \in Bijection(1 .. C, S)
  BY <1>1 DEF ExistsBijection
<1>3. f \in [1 .. C -> S] /\ IsInjective(f)
  BY <1>2 DEF Bijection, Injection, IsInjective
<1> DEFINE s == SetToSeq(S)
<1>4. s \in [1 .. C -> S] /\ IsInjective(s)
  BY <1>3 DEF SetToSeq
<1> HIDE DEF s, C
<1>5. s \in Seq(S) /\ DOMAIN s = 1 .. C
  BY <1>1, <1>4 DEF C
<1>6. s \in Surjection(1 .. C, S)
  <2>1. IsFiniteSet(1 .. C) /\ Cardinality(1 .. C) = C
    BY <1>1, FS_Interval DEF C
  <2>2. s \in Injection(1 .. C, S)
    BY <1>4 DEF Injection, IsInjective
  <2>3. QED
    BY <2>1, <2>2, FS_Injection DEF C
<1>7. QED
  BY <1>5, <1>6 DEF Surjection, s

\* What a function makes of a finite set is finite.
LEMMA FiniteImage ==
  ASSUME NEW S, IsFiniteSet(S), NEW f
  PROVE  IsFiniteSet({f[x] : x \in S})
<1> DEFINE g == [x \in S |-> f[x]]
<1>1. g \in Surjection(S, {f[x] : x \in S})
  BY DEF Surjection
<1>2. QED
  BY <1>1, FS_Surjection

\* What is first in a queue, and what is left of it.
LEMMA Queue ==
  ASSUME NEW S, NEW s \in Seq(S), s # <<>>
  PROVE  /\ Head(s) \in S /\ Head(s) = s[1] /\ 1 \in DOMAIN s /\ Tail(s) \in Seq(S)
         /\ \A n \in DOMAIN Tail(s) : n \in Nat \ {0} /\ n + 1 \in DOMAIN s /\ Tail(s)[n] = s[n + 1]
         /\ \A n \in DOMAIN s : n \in Nat \ {0} /\ (n # 1 => n - 1 \in DOMAIN Tail(s))
<1>1. /\ Len(s) \in Nat \ {0} /\ DOMAIN s = 1 .. Len(s) /\ DOMAIN Tail(s) = 1 .. Len(s) - 1
      /\ Head(s) = s[1] /\ Head(s) \in S /\ Tail(s) \in Seq(S)
      /\ \A k \in 1 .. Len(s) - 1 : Tail(s)[k] = s[k + 1]
  OBVIOUS
<1>2. QED
  BY <1>1

\* What is put at the end of one.
LEMMA Enqueue ==
  ASSUME NEW S, NEW s \in Seq(S), NEW x \in S
  PROVE  /\ Append(s, x) \in Seq(S)
         /\ DOMAIN Append(s, x) = DOMAIN s \cup {Len(s) + 1} /\ Len(s) + 1 \notin DOMAIN s
         /\ Append(s, x)[Len(s) + 1] = x /\ Len(s) + 1 \in Nat \ {0}
         /\ \A n \in DOMAIN s : Append(s, x)[n] = s[n] /\ n < Len(s) + 1
<1>1. /\ Len(s) \in Nat /\ DOMAIN s = 1 .. Len(s) /\ Append(s, x) \in Seq(S)
      /\ DOMAIN Append(s, x) = 1 .. Len(s) + 1
      /\ Append(s, x)[Len(s) + 1] = x /\ \A n \in 1 .. Len(s) : Append(s, x)[n] = s[n]
  OBVIOUS
<1>2. QED
  BY <1>1

\* Two sequences put together: the one, then the other.
LEMMA ConcatParts ==
  ASSUME NEW S, NEW s \in Seq(S), NEW t \in Seq(S)
  PROVE  /\ s \o t \in Seq(S) /\ Len(s) \in Nat /\ Len(t) \in Nat
         /\ Len(s \o t) = Len(s) + Len(t) /\ DOMAIN (s \o t) = 1 .. Len(s) + Len(t)
         /\ \A i \in 1 .. Len(s) : (s \o t)[i] = s[i]
         /\ \A i \in 1 .. Len(t) : (s \o t)[Len(s) + i] = t[i]
<1>1. s \o t \in Seq(S) /\ Len(s \o t) = Len(s) + Len(t)
  OBVIOUS
<1>2. Len(s) \in Nat /\ Len(t) \in Nat
  OBVIOUS
<1>3. DOMAIN (s \o t) = 1 .. Len(s) + Len(t)
  OBVIOUS
<1>4. \A i \in 1 .. Len(s) : (s \o t)[i] = s[i]
  OBVIOUS
<1>5. \A i \in 1 .. Len(t) : (s \o t)[Len(s) + i] = t[i]
  OBVIOUS
<1>6. QED
  BY <1>1, <1>2, <1>3, <1>4, <1>5

\* Sequences put one after the other: each is appended to what there is so far.
GrowsBy(g, ss, N) ==
  /\ g[1] = ss[1]
  /\ \A n \in 1 .. N - 1 : g[n + 1] = g[n] \o ss[n + 1]

\* A flattened sequence is built part by part.
LEMMA FlattenByParts ==
  ASSUME NEW S, NEW N \in Nat, N >= 1, NEW ss \in [1 .. N -> Seq(S)]
  PROVE  \E g \in [1 .. N -> Seq(S)] : GrowsBy(g, ss, N) /\ FlattenSeq(ss) = g[N]
<1> DEFINE Parts(f, n) == f = [i \in 1 .. n |-> IF i = 1 THEN ss[i] ELSE f[i - 1] \o ss[i]]
           T == {n \in Nat : n <= N => \E f \in [1 .. n -> Seq(S)] : Parts(f, n)}
<1>1. 0 \in T
  <2> DEFINE f == [i \in 1 .. 0 |-> <<>>]
  <2>1. 1 .. 0 = {}
    OBVIOUS
  <2>2. f \in [1 .. 0 -> Seq(S)]
    BY <2>1
  <2>3. Parts(f, 0)
    BY <2>1
  <2> HIDE DEF f, Parts
  <2>4. QED
    BY <2>2, <2>3
<1>2. ASSUME NEW n \in Nat, n \in T PROVE n + 1 \in T
  <2> SUFFICES ASSUME n + 1 <= N PROVE \E f \in [1 .. n + 1 -> Seq(S)] : Parts(f, n + 1)
    <3> HIDE DEF Parts
    <3>1. QED
      OBVIOUS
  <2>1. PICK f \in [1 .. n -> Seq(S)] : Parts(f, n)
    <3> HIDE DEF Parts
    <3>1. QED
      BY <1>2
  <2> DEFINE g == [i \in 1 .. n + 1 |-> IF i <= n THEN f[i] ELSE IF i = 1 THEN ss[i] ELSE f[n] \o ss[i]]
  <2>2. n + 1 \in 1 .. N
    OBVIOUS
  <2>3. n >= 1 => f[n] \o ss[n + 1] \in Seq(S)
    BY <2>2
  <2>4. g \in [1 .. n + 1 -> Seq(S)]
    BY <2>2, <2>3
  <2>5. \A i \in 1 .. n : f[i] = IF i = 1 THEN ss[i] ELSE f[i - 1] \o ss[i]
    BY <2>1
  <2>6. ASSUME NEW i \in 1 .. n + 1 PROVE g[i] = IF i = 1 THEN ss[i] ELSE g[i - 1] \o ss[i]
    <3>1. CASE i <= n
      <4>1. i \in 1 .. n /\ g[i] = f[i]
        BY <3>1
      <4>2. i # 1 => g[i - 1] = f[i - 1]
        BY <3>1
      <4> HIDE DEF g
      <4>3. QED
        BY <2>5, <4>1, <4>2
    <3>2. CASE i = n + 1
      BY <3>2
    <3>3. QED
      BY <3>1, <3>2
  <2>7. Parts(g, n + 1)
    <3>1. g = [i \in 1 .. n + 1 |-> g[i]]
      OBVIOUS
    <3> HIDE DEF g
    <3>2. QED
      BY <2>6, <3>1
  <2> HIDE DEF g, Parts
  <2>8. QED
    BY <2>4, <2>7
<1> HIDE DEF T
<1>3. N \in T
  BY <1>1, <1>2, SetInduction
<1>4. \E f \in [1 .. N -> Seq(S)] : Parts(f, N)
  <2> HIDE DEF Parts
  <2>1. QED
    BY <1>3 DEF T
<1> DEFINE it == CHOOSE f : Parts(f, N)
<1>5. Parts(it, N)
  <2> HIDE DEF Parts
  <2>1. QED
    BY <1>4
<1>6. it \in [1 .. N -> Seq(S)]
  <2> DEFINE U == {n \in Nat : n + 1 <= N => it[n + 1] \in Seq(S)}
  <2> HIDE DEF it
  <2>1. \A i \in 1 .. N : it[i] = IF i = 1 THEN ss[i] ELSE it[i - 1] \o ss[i]
    BY <1>5
  <2>2. 0 \in U
    BY <2>1
  <2>3. ASSUME NEW n \in Nat, n \in U PROVE n + 1 \in U
    <3> SUFFICES ASSUME n + 2 <= N PROVE it[n + 2] \in Seq(S)
      OBVIOUS
    <3>1. it[n + 1] \in Seq(S) /\ n + 2 \in 1 .. N /\ ss[n + 2] \in Seq(S)
      BY <2>3
    <3>2. it[n + 2] = it[n + 1] \o ss[n + 2]
      <4>1. n + 2 # 1 /\ (n + 2) - 1 = n + 1
        OBVIOUS
      <4>2. it[n + 2] = IF n + 2 = 1 THEN ss[n + 2] ELSE it[(n + 2) - 1] \o ss[n + 2]
        BY <2>1, <3>1
      <4>3. QED
        BY <4>1, <4>2
    <3>3. QED
      BY <3>1, <3>2
  <2> HIDE DEF U
  <2>4. \A n \in Nat : n \in U
    BY <2>2, <2>3, SetInduction
  <2>5. \A i \in 1 .. N : it[i] \in Seq(S)
    <3>1. ASSUME NEW i \in 1 .. N PROVE it[i] \in Seq(S)
      <4>1. i - 1 \in Nat /\ (i - 1) + 1 = i /\ i <= N
        OBVIOUS
      <4>2. i - 1 \in U
        BY <2>4, <4>1
      <4>3. (i - 1) + 1 <= N => it[(i - 1) + 1] \in Seq(S)
        BY <4>2 DEF U
      <4>4. QED
        BY <4>1, <4>3
    <3>2. QED
      BY <3>1
  <2>6. QED
    BY <1>5, <2>5
<1>7. Len(ss) = N
  OBVIOUS
<1>8. FlattenSeq(ss) = it[N]
  <2>1. Len(ss) # 0
    BY <1>7
  <2>2. QED
    BY <1>7, <2>1 DEF FlattenSeq
<1> HIDE DEF it
<1>9. it[1] = ss[1] /\ \A n \in 1 .. N - 1 : it[n + 1] = it[n] \o ss[n + 1]
  <2>1. \A i \in 1 .. N : it[i] = IF i = 1 THEN ss[i] ELSE it[i - 1] \o ss[i]
    BY <1>5
  <2>2. ASSUME NEW n \in 1 .. N - 1 PROVE it[n + 1] = it[n] \o ss[n + 1]
    <3>1. n + 1 \in 1 .. N /\ n + 1 # 1 /\ (n + 1) - 1 = n
      OBVIOUS
    <3>2. it[n + 1] = IF n + 1 = 1 THEN ss[n + 1] ELSE it[(n + 1) - 1] \o ss[n + 1]
      BY <2>1, <3>1
    <3>3. QED
      BY <3>1, <3>2
  <2>3. 1 \in 1 .. N
    OBVIOUS
  <2>4. QED
    BY <2>1, <2>2, <2>3
<1>10. QED
  BY <1>6, <1>8, <1>9 DEF GrowsBy

-----------------------------------------------------------------------------
(* The least of some numbers, and the first element of a sequence that is in *)
(* a set, also of one that is flattened.                                   *)

\* Some numbers have a least one.
LEMMA MinIn ==
  ASSUME NEW s, s \subseteq Nat, s # {}
  PROVE  Min(s) \in s /\ \A x \in s : Min(s) <= x
<1>1. \E m \in s : \A x \in s : m <= x
  <2> DEFINE T == {n \in Nat : (\E x \in s : x <= n) => \E m \in s : \A x \in s : m <= x}
  <2>1. 0 \in T
    BY SMT
  <2>2. ASSUME NEW n \in Nat, n \in T PROVE n + 1 \in T
    <3>1. SUFFICES ASSUME NEW x \in s, x <= n + 1, \A y \in s : ~(y <= n)
                   PROVE  \E m \in s : \A y \in s : m <= y
      BY <2>2
    <3>2. \A y \in s : x <= y
      BY <3>1
    <3>3. QED
      BY <3>2
  <2> HIDE DEF T
  <2>3. \A n \in Nat : n \in T
    BY <2>1, <2>2, SetInduction
  <2>4. PICK n \in s : TRUE
    OBVIOUS
  <2>5. QED
    BY <2>3, <2>4 DEF T
<1>2. QED
  BY <1>1 DEF Min

\* The least number of a set.
LEMMA MinOf ==
  ASSUME NEW s, s \subseteq Nat, NEW m \in s, \A x \in s : m <= x
  PROVE  Min(s) = m
<1>1. Min(s) \in s /\ \A x \in s : Min(s) <= x
  BY MinIn
<1>2. Min(s) \in Nat /\ m \in Nat /\ m <= Min(s) /\ Min(s) <= m
  BY <1>1
<1>3. QED
  BY <1>2

\* The positions of a sequence that hold an element of T, and the first such element.
Hits(s, T) == {k \in 1 .. Len(s) : s[k] \in T}
FirstIn(s, T) == s[Min(Hits(s, T))]

\* The first element of a sequence that is in T comes before all others.
LEMMA FirstHit ==
  ASSUME NEW S, NEW s \in Seq(S), NEW T, Hits(s, T) # {}
  PROVE  /\ Min(Hits(s, T)) \in 1 .. Len(s) /\ FirstIn(s, T) \in T
         /\ \A x \in Hits(s, T) : Min(Hits(s, T)) <= x
<1>1. Hits(s, T) \subseteq Nat
  BY DEF Hits
<1>2. Min(Hits(s, T)) \in Hits(s, T) /\ \A x \in Hits(s, T) : Min(Hits(s, T)) <= x
  BY <1>1, MinIn
<1>3. QED
  BY <1>2 DEF Hits, FirstIn

\* An element in T that comes before all others is the first.
LEMMA FirstIs ==
  ASSUME NEW S, NEW s \in Seq(S), NEW T, NEW k \in 1 .. Len(s), s[k] \in T,
         \A j \in 1 .. Len(s) : s[j] \in T => k <= j
  PROVE  Hits(s, T) # {} /\ Min(Hits(s, T)) = k /\ FirstIn(s, T) = s[k]
<1>1. Hits(s, T) \subseteq Nat /\ k \in Hits(s, T) /\ \A x \in Hits(s, T) : k <= x
  BY DEF Hits
<1>2. Min(Hits(s, T)) = k
  BY <1>1, MinOf
<1>3. QED
  BY <1>1, <1>2 DEF FirstIn

\* The first of two sequences put together is that of the first one, or that of
\* the second when the first has none.
LEMMA FirstOfConcat ==
  ASSUME NEW S, NEW u \in Seq(S), NEW v \in Seq(S), NEW T
  PROVE  /\ Hits(u, T) # {} => Hits(u \o v, T) # {} /\ FirstIn(u \o v, T) = FirstIn(u, T)
         /\ Hits(u, T) = {} /\ Hits(v, T) # {} =>
              Hits(u \o v, T) # {} /\ FirstIn(u \o v, T) = FirstIn(v, T)
         /\ Hits(u, T) = {} /\ Hits(v, T) = {} => Hits(u \o v, T) = {}
<1> DEFINE w == u \o v
<1>1. /\ w \in Seq(S) /\ Len(u) \in Nat /\ Len(v) \in Nat /\ Len(w) = Len(u) + Len(v)
      /\ \A i \in 1 .. Len(u) : w[i] = u[i]
      /\ \A i \in 1 .. Len(v) : w[Len(u) + i] = v[i]
  BY ConcatParts
<1> HIDE DEF w
<1>2. \A i \in 1 .. Len(w) : i \in 1 .. Len(u) \/ (i - Len(u) \in 1 .. Len(v) /\ w[i] = v[i - Len(u)])
  <2>1. TAKE i \in 1 .. Len(w)
  <2>2. CASE i <= Len(u)
    BY <1>1, <2>2
  <2>3. CASE i > Len(u)
    <3>1. i - Len(u) \in 1 .. Len(v) /\ Len(u) + (i - Len(u)) = i
      BY <1>1, <2>3
    <3>2. QED
      BY <1>1, <3>1
  <2>4. QED
    BY <1>1, <2>2, <2>3
<1>3. ASSUME Hits(u, T) # {} PROVE Hits(w, T) # {} /\ FirstIn(w, T) = FirstIn(u, T)
  <2> DEFINE k == Min(Hits(u, T))
  <2>1. k \in 1 .. Len(u) /\ u[k] \in T /\ \A x \in Hits(u, T) : k <= x
    BY <1>3, FirstHit DEF FirstIn
  <2>2. FirstIn(u, T) = u[k]
    BY DEF FirstIn
  <2> HIDE DEF k
  <2>3. k \in 1 .. Len(w) /\ w[k] = u[k]
    BY <1>1, <2>1
  <2>4. \A j \in 1 .. Len(w) : w[j] \in T => k <= j
    <3>1. ASSUME NEW j \in 1 .. Len(w), w[j] \in T PROVE k <= j
      <4>1. CASE j \in 1 .. Len(u)
        BY <1>1, <2>1, <3>1, <4>1 DEF Hits
      <4>2. CASE j \notin 1 .. Len(u)
        BY <1>1, <2>1, <4>2
      <4>3. QED
        BY <4>1, <4>2
    <3>2. QED
      BY <3>1
  <2>5. QED
    BY <1>1, <2>1, <2>2, <2>3, <2>4, FirstIs
<1>4. ASSUME Hits(u, T) = {}, Hits(v, T) # {}
      PROVE  Hits(w, T) # {} /\ FirstIn(w, T) = FirstIn(v, T)
  <2> DEFINE k == Min(Hits(v, T))
  <2>1. k \in 1 .. Len(v) /\ v[k] \in T /\ \A x \in Hits(v, T) : k <= x
    BY <1>4, FirstHit DEF FirstIn
  <2>2. FirstIn(v, T) = v[k]
    BY DEF FirstIn
  <2> HIDE DEF k
  <2> DEFINE m == Len(u) + k
  <2>3. m \in 1 .. Len(w) /\ w[m] = v[k]
    BY <1>1, <2>1
  <2>4. \A j \in 1 .. Len(w) : w[j] \in T => m <= j
    <3>1. ASSUME NEW j \in 1 .. Len(w), w[j] \in T PROVE m <= j
      <4>1. j \notin 1 .. Len(u)
        BY <1>1, <1>4, <3>1 DEF Hits
      <4>2. j - Len(u) \in 1 .. Len(v) /\ v[j - Len(u)] \in T
        BY <1>2, <3>1, <4>1
      <4>3. k <= j - Len(u)
        BY <2>1, <4>2 DEF Hits
      <4>4. QED
        BY <1>1, <2>1, <4>3
    <3>2. QED
      BY <3>1
  <2> HIDE DEF m
  <2>5. Hits(w, T) # {} /\ FirstIn(w, T) = w[m]
    <3>1. w[m] \in T /\ w \in Seq(S) /\ m \in 1 .. Len(w)
      BY <1>1, <2>1, <2>3
    <3>2. QED
      BY <2>4, <3>1, FirstIs
  <2>6. QED
    BY <2>2, <2>3, <2>5
<1>5. ASSUME Hits(u, T) = {}, Hits(v, T) = {} PROVE Hits(w, T) = {}
  <2>1. ASSUME NEW j \in 1 .. Len(w), w[j] \in T PROVE FALSE
    BY <1>1, <1>2, <1>5, <2>1 DEF Hits
  <2>2. QED
    BY <2>1 DEF Hits
<1>6. QED
  BY <1>3, <1>4, <1>5 DEF w

\* The first element of T in sequences put one after the other is the first one
\* of the first sequence that has any.
Having(ss, T) == {n \in 1 .. Len(ss) : Hits(ss[n], T) # {}}

\* The first of a flattened sequence is that of its first part that has one.
LEMMA FirstOfFlat ==
  ASSUME NEW S, NEW ss \in Seq(Seq(S)), NEW T
  PROVE  /\ FlattenSeq(ss) \in Seq(S)
         /\ Hits(FlattenSeq(ss), T) = {} <=> Having(ss, T) = {}
         /\ Having(ss, T) # {} => FirstIn(FlattenSeq(ss), T) = FirstIn(ss[Min(Having(ss, T))], T)
<1> DEFINE N == Len(ss)
<1>1. N \in Nat /\ ss \in [1 .. N -> Seq(S)]
  OBVIOUS
<1>2. CASE N = 0
  <2>1. FlattenSeq(ss) = ss
    BY <1>2 DEF FlattenSeq
  <2>2. ss \in Seq(S)
    BY <1>1, <1>2
  <2>3. Hits(ss, T) = {} /\ Having(ss, T) = {}
    BY <1>2 DEF Hits, Having
  <2>4. QED
    BY <2>1, <2>2, <2>3
<1>3. CASE N >= 1
  <2>1. PICK g \in [1 .. N -> Seq(S)] : GrowsBy(g, ss, N) /\ FlattenSeq(ss) = g[N]
    BY <1>1, <1>3, FlattenByParts
  <2> DEFINE H(n) == {m \in 1 .. n : Hits(ss[m], T) # {}}
             P(n) == /\ Hits(g[n], T) = {} <=> H(n) = {}
                     /\ H(n) # {} => FirstIn(g[n], T) = FirstIn(ss[Min(H(n))], T)
             U == {n \in Nat : n + 1 <= N => P(n + 1)}
  <2> HIDE DEF N
  <2>2. 0 \in U
    <3>1. H(1) = IF Hits(ss[1], T) # {} THEN {1} ELSE {}
      <4>1. 1 .. 1 = {1}
        OBVIOUS
      <4>2. QED
        BY <4>1
    <3>2. Min({1}) = 1
      BY MinOf
    <3>3. g[1] = ss[1]
      BY <2>1 DEF GrowsBy
    <3> HIDE DEF H
    <3>4. P(1)
      BY <3>1, <3>2, <3>3
    <3>5. QED
      BY <3>4
  <2>3. ASSUME NEW n \in Nat, n \in U PROVE n + 1 \in U
    <3>1. SUFFICES ASSUME n + 2 <= N PROVE P(n + 2)
      <4>1. (n + 1) + 1 = n + 2
        OBVIOUS
      <4> HIDE DEF P
      <4>2. QED
        BY <4>1
    <3> DEFINE a == g[n + 1]
               b == ss[n + 2]
    <3>2. P(n + 1)
      <4> HIDE DEF P
      <4>1. QED
        BY <1>1, <2>3, <3>1
    <3>3. g[n + 2] = a \o b /\ a \in Seq(S) /\ b \in Seq(S)
      <4>1. n + 1 \in 1 .. N - 1 /\ n + 1 \in 1 .. N /\ n + 2 \in 1 .. N /\ (n + 1) + 1 = n + 2
        BY <1>1, <3>1
      <4>2. QED
        BY <1>1, <2>1, <4>1 DEF GrowsBy
    <3>4. H(n + 2) = IF Hits(b, T) # {} THEN H(n + 1) \cup {n + 2} ELSE H(n + 1)
      <4>1. 1 .. n + 2 = (1 .. n + 1) \cup {n + 2}
        OBVIOUS
      <4>2. QED
        BY <4>1
    <3>5. /\ Hits(a, T) # {} => Hits(a \o b, T) # {} /\ FirstIn(a \o b, T) = FirstIn(a, T)
          /\ Hits(a, T) = {} /\ Hits(b, T) # {} =>
               Hits(a \o b, T) # {} /\ FirstIn(a \o b, T) = FirstIn(b, T)
          /\ Hits(a, T) = {} /\ Hits(b, T) = {} => Hits(a \o b, T) = {}
      BY <3>3, FirstOfConcat
    <3>6. CASE H(n + 1) # {}
      <4>1. H(n + 1) \subseteq Nat /\ H(n + 2) \subseteq Nat /\ \A x \in H(n + 1) : x <= n + 1
        OBVIOUS
      <4> DEFINE m == Min(H(n + 1))
      <4> HIDE DEF H
      <4>2. m \in H(n + 1) /\ \A x \in H(n + 1) : m <= x
        BY <3>6, <4>1, MinIn
      <4>3. m \in H(n + 2) /\ \A x \in H(n + 2) : m <= x
        <5> HIDE DEF m, b
        <5>1. m \in Nat /\ m <= n + 2
          BY <4>1, <4>2
        <5>2. QED
          BY <3>4, <4>2, <5>1
      <4>4. Min(H(n + 2)) = m
        <5> HIDE DEF m
        <5>1. QED
          BY <4>1, <4>3, MinOf
      <4>5. Hits(a, T) # {} /\ FirstIn(a, T) = FirstIn(ss[m], T)
        BY <3>2, <3>6 DEF m
      <4> HIDE DEF a, b, m
      <4>6. QED
        BY <3>3, <3>5, <4>3, <4>4, <4>5
    <3>7. CASE H(n + 1) = {}
      <4>1. Hits(a, T) = {}
        BY <3>2, <3>7
      <4>2. Min({n + 2}) = n + 2
        <5> DEFINE z == n + 2
        <5>1. {z} \subseteq Nat /\ z \in {z} /\ \A x \in {z} : z <= x
          OBVIOUS
        <5> HIDE DEF z
        <5>2. Min({z}) = z
          BY <5>1 DEF Min
        <5>3. QED
          BY <5>2 DEF z
      <4>3. CASE Hits(b, T) # {}
        <5>1. H(n + 2) = {n + 2}
          <6> HIDE DEF H
          <6>1. QED
            BY <3>4, <3>7, <4>3
        <5> HIDE DEF H, a
        <5>2. QED
          BY <3>3, <3>5, <4>1, <4>2, <4>3, <5>1
      <4>4. CASE Hits(b, T) = {}
        <5>1. H(n + 2) = {}
          <6> HIDE DEF H
          <6>1. QED
            BY <3>4, <3>7, <4>4
        <5> HIDE DEF H, a, b
        <5>2. QED
          BY <3>3, <3>5, <4>1, <4>4, <5>1
      <4>5. QED
        BY <4>3, <4>4
    <3>8. QED
      BY <3>6, <3>7
  <2>4. \A n \in Nat : n \in U
    <3> HIDE DEF U
    <3>1. QED
      BY <2>2, <2>3, SetInduction
  <2>5. N - 1 \in Nat /\ (N - 1) + 1 = N /\ N <= N
    BY <1>1, <1>3
  <2>6. P(N)
    <3> HIDE DEF P
    <3>1. N - 1 \in U
      BY <2>4, <2>5
    <3>2. (N - 1) + 1 <= N => P((N - 1) + 1)
      BY <3>1
    <3>3. QED
      BY <2>5, <3>2
  <2>7. H(N) = Having(ss, T)
    BY DEF Having, N
  <2>8. N \in 1 .. N
    BY <1>1, <1>3
  <2> HIDE DEF H
  <2>9. QED
    BY <2>1, <2>6, <2>7, <2>8
<1>4. QED
  BY <1>1, <1>2, <1>3

\* What is in a flattened sequence is in one of its parts.
LEMMA RangeOfFlat ==
  ASSUME NEW S, NEW ss \in Seq(Seq(S)), NEW x
  PROVE  x \in ToSet(FlattenSeq(ss)) <=> \E n \in 1 .. Len(ss) : x \in ToSet(ss[n])
<1>1. FlattenSeq(ss) \in Seq(S) /\ (Hits(FlattenSeq(ss), {x}) = {} <=> Having(ss, {x}) = {})
  BY FirstOfFlat
<1>2. \A s \in Seq(S) : x \in ToSet(s) <=> Hits(s, {x}) # {}
  BY DEF ToSet, Hits
<1>3. \A n \in 1 .. Len(ss) : ss[n] \in Seq(S)
  OBVIOUS
<1>4. QED
  BY <1>1, <1>2, <1>3 DEF Having

\* A fold over the places of a sequence, taken one place after the other, and
\* as it is defined: over sets of places.
Stepwise(g, it, base, N, F) ==
  /\ g[0] = base /\ g[N] = it[1 .. N]
  /\ \A n \in 0 .. N - 1 : g[n + 1] = F[<<g[n], n + 1>>]
Iterates(it, K, base, N, F) ==
  /\ it[{}] = base
  /\ \A t \in SUBSET (1 .. N) :
       t # {} /\ it[t \ {Max(t)}] \in K => it[t] = F[<<it[t \ {Max(t)}], Max(t)>>]
\* What is defined over sets comes about place by place.
LEMMA FoldStepwise ==
  ASSUME NEW K, NEW base \in K, NEW N \in Nat, NEW F \in [K \X (1 .. N) -> K], NEW it,
         Iterates(it, K, base, N, F)
  PROVE  \E g \in [0 .. N -> K] : Stepwise(g, it, base, N, F)
<1> DEFINE g == [n \in 0 .. N |-> it[1 .. n]]
<1>0. /\ it[{}] = base
      /\ \A t \in SUBSET (1 .. N) :
           t # {} /\ it[t \ {Max(t)}] \in K => it[t] = F[<<it[t \ {Max(t)}], Max(t)>>]
  BY DEF Iterates
<1>1. g[0] = base
  <2>1. 1 .. 0 = {} /\ 0 \in 0 .. N
    OBVIOUS
  <2>2. QED
    BY <1>0, <2>1
<1>2. ASSUME NEW n \in 0 .. N - 1, g[n] \in K
      PROVE  g[n + 1] = F[<<g[n], n + 1>>] /\ g[n + 1] \in K
  <2>1. n \in Nat /\ n + 1 \in Nat /\ n + 1 <= N /\ n \in 0 .. N /\ n + 1 \in 0 .. N /\ n + 1 \in 1 .. N
    OBVIOUS
  <2>2. 1 .. n + 1 \in SUBSET (1 .. N) /\ n + 1 \in 1 .. n + 1
    BY <2>1
  <2>3. Max(1 .. n + 1) = n + 1
    <3>1. 1 .. n + 1 \subseteq Nat /\ \A x \in 1 .. n + 1 : x <= n + 1
      BY <2>1
    <3>2. QED
      BY <2>2, <3>1, MaxOf
  <2>4. (1 .. n + 1) \ {n + 1} = 1 .. n
    BY <2>1
  <2>5. g[n + 1] = it[1 .. n + 1] /\ g[n] = it[1 .. n]
    BY <2>1
  <2> HIDE DEF g
  <2>6. it[1 .. n + 1] = F[<<it[1 .. n], n + 1>>]
    BY <1>0, <1>2, <2>2, <2>3, <2>4, <2>5
  <2>7. F[<<g[n], n + 1>>] \in K
    BY <1>2, <2>1
  <2>8. QED
    BY <2>5, <2>6, <2>7
<1> DEFINE T == {n \in Nat : n <= N => g[n] \in K}
<1>3. \A n \in Nat : n \in T
  <2>1. 0 \in T
    BY <1>1
  <2>2. ASSUME NEW n \in Nat, n \in T PROVE n + 1 \in T
    <3>1. CASE n + 1 <= N
      <4>1. n \in 0 .. N - 1 /\ g[n] \in K
        <5> HIDE DEF g
        <5>1. QED
          BY <2>2, <3>1
      <4>2. g[n + 1] \in K
        <5> HIDE DEF g
        <5>1. QED
          BY <1>2, <4>1
      <4> HIDE DEF g
      <4>3. QED
        BY <4>2
    <3>2. CASE ~(n + 1 <= N)
      <4> HIDE DEF g
      <4>1. QED
        BY <3>2
    <3>3. QED
      BY <3>1, <3>2
  <2> HIDE DEF T
  <2>3. QED
    BY <2>1, <2>2, SetInduction
<1>4. \A n \in 0 .. N : g[n] \in K
  <2> HIDE DEF g
  <2>1. QED
    BY <1>3
<1>5. g \in [0 .. N -> K] /\ g[N] = it[1 .. N]
  <2>1. N \in 0 .. N
    OBVIOUS
  <2>2. \A n \in 0 .. N : it[1 .. n] \in K
    BY <1>4
  <2>3. QED
    BY <2>1, <2>2
<1>6. \A n \in 0 .. N - 1 : g[n + 1] = F[<<g[n], n + 1>>]
  <2>1. \A n \in 0 .. N - 1 : n \in 0 .. N
    OBVIOUS
  <2> HIDE DEF g
  <2>2. QED
    BY <1>2, <1>4, <2>1
<1> HIDE DEF g
<1>7. Stepwise(g, it, base, N, F)
  BY <1>1, <1>5, <1>6 DEF Stepwise
<1>8. QED
  BY <1>5, <1>7

\* The elements of a sequence that are in T.
Inside(s, T) == [k \in DOMAIN s |-> IF s[k] \in T THEN <<s[k]>> ELSE <<>>]
\* They are the elements the sequence shares with T.
LEMMA InsideIs ==
  ASSUME NEW S, NEW s \in Seq(S), NEW T
  PROVE  /\ FlattenSeq(Inside(s, T)) \in Seq(S)
         /\ ToSet(FlattenSeq(Inside(s, T))) = ToSet(s) \cap T
<1> DEFINE ss == Inside(s, T)
<1>1. DOMAIN s = 1 .. Len(s) /\ Len(s) \in Nat /\ \A k \in DOMAIN s : s[k] \in S
  OBVIOUS
<1>2. ss \in Seq(Seq(S)) /\ Len(ss) = Len(s) /\ DOMAIN ss = DOMAIN s
      /\ \A k \in DOMAIN s : ss[k] = IF s[k] \in T THEN <<s[k]>> ELSE <<>>
  <2>1. \A k \in DOMAIN s : (IF s[k] \in T THEN <<s[k]>> ELSE <<>>) \in Seq(S)
    BY <1>1
  <2>2. QED
    BY <1>1, <2>1 DEF Inside
<1> HIDE DEF ss
<1>3. \A x : x \in ToSet(FlattenSeq(ss)) <=> \E n \in 1 .. Len(ss) : x \in ToSet(ss[n])
  BY <1>2, RangeOfFlat
<1>4. \A x : \A n \in DOMAIN s : x \in ToSet(ss[n]) <=> x = s[n] /\ s[n] \in T
  <2> SUFFICES ASSUME NEW x, NEW n \in DOMAIN s PROVE x \in ToSet(ss[n]) <=> x = s[n] /\ s[n] \in T
    OBVIOUS
  <2>1. CASE s[n] \in T
    <3>1. ss[n] = <<s[n]>> /\ \A a : x \in ToSet(<<a>>) <=> x = a
      BY <1>2, <2>1 DEF ToSet
    <3>2. QED
      BY <2>1, <3>1
  <2>2. CASE s[n] \notin T
    BY <1>2, <2>2 DEF ToSet
  <2>3. QED
    BY <2>1, <2>2
<1>5. FlattenSeq(ss) \in Seq(S)
  BY <1>2, FirstOfFlat
<1>6. \A x : x \in ToSet(FlattenSeq(ss)) <=> x \in ToSet(s) /\ x \in T
  <2>1. \A x : x \in ToSet(s) <=> \E n \in DOMAIN s : x = s[n]
    BY DEF ToSet
  <2>2. QED
    <3>1. \A x : x \in ToSet(FlattenSeq(ss)) <=> \E n \in DOMAIN s : x \in ToSet(ss[n])
      BY <1>1, <1>2, <1>3
    <3>2. ASSUME NEW x PROVE x \in ToSet(FlattenSeq(ss)) <=> x \in ToSet(s) /\ x \in T
      <4>1. x \in ToSet(FlattenSeq(ss)) <=> \E n \in DOMAIN s : x = s[n] /\ s[n] \in T
        BY <1>4, <3>1
      <4>2. x \in ToSet(s) <=> \E n \in DOMAIN s : x = s[n]
        BY <2>1
      <4>3. QED
        BY <4>1, <4>2
    <3>3. QED
      BY <3>2
<1>7. ToSet(FlattenSeq(ss)) = ToSet(s) \cap T
  BY <1>6
<1>8. QED
  BY <1>5, <1>7 DEF ss

\* A fold of steps within K ends in K.
LEMMA FoldWithin ==
  ASSUME NEW K, NEW start \in K, NEW N \in Nat, NEW F \in [K \X (1 .. N) -> K], NEW it,
         Iterates(it, K, start, N, F)
  PROVE  it[1 .. N] \in K
<1>1. PICK g \in [0 .. N -> K] : Stepwise(g, it, start, N, F)
  BY FoldStepwise
<1>2. N \in 0 .. N
  OBVIOUS
<1>3. QED
  BY <1>1, <1>2 DEF Stepwise

\* The last element that passes a test is an element.
LEMMA LastPlace ==
  ASSUME NEW S, NEW s \in Seq(S), NEW I \in SUBSET (1 .. Len(s))
  PROVE  /\ I # {} => Max(I) \in I /\ Max(I) \in 1 .. Len(s) /\ s[Max(I)] \in S
         /\ (IF I # {} THEN Max(I) ELSE 0) \in {0} \cup 1 .. Len(s)
<1>1. Len(s) \in Nat /\ \A k \in 1 .. Len(s) : s[k] \in S
  OBVIOUS
<1>2. I # {} => Max(I) \in I
  BY <1>1, MaxIn
<1>3. I # {} => Max(I) \in 1 .. Len(s)
  BY <1>2
<1>4. QED
  BY <1>1, <1>2, <1>3

\* A part of a sequence.
LEMMA PartIs ==
  ASSUME NEW S, NEW s \in Seq(S), NEW m \in Int, NEW n \in Int, 1 <= m, n <= Len(s), m <= n + 1
  PROVE  SubSeq(s, m, n) \in Seq(S) /\ Len(SubSeq(s, m, n)) = n - m + 1
<1>1. \A i \in m .. n : s[i] \in S
  OBVIOUS
<1>2. QED
  BY <1>1, SubSeqProperties

\* A header, followed by more.
LEMMA Followed ==
  ASSUME NEW S, NEW s \in Seq(S), NEW t \in Seq(S), NEW h \in Nat, Len(s) >= h
  PROVE  s \o t \in Seq(S) /\ Len(s \o t) >= h
<1>1. s \o t \in Seq(S) /\ Len(s) \in Nat /\ Len(t) \in Nat /\ Len(s \o t) = Len(s) + Len(t)
  BY ConcatParts
<1>2. QED
  BY <1>1
=============================================================================
