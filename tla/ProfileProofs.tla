---------------------------- MODULE ProfileProofs ----------------------------
(***************************************************************************)
(* Proofs about profiles: those of ProfilePipeline, from the workbook to   *)
(* the scenario, for any width of the transmitted integers, any workbooks, *)
(* bundled profile and selections of scenarios; and those of ProfileStore, *)
(* on disk, for any clients, names, contents and versions.                 *)
(***************************************************************************)
EXTENDS ProfileStore, ProfilePipeline, DataLemmas

-----------------------------------------------------------------------------
(* Rounding: from 32 bits to an engineering value and back.                *)

\* Division by a positive number.
LEMMA Quotient ==
  ASSUME NEW n \in Nat, NEW d \in Nat, d > 0
  PROVE  /\ n \div d \in Nat /\ n % d \in Nat
         /\ n = (n \div d) * d + (n % d) /\ n % d < d
  OBVIOUS

\* A multiple of d leaves no remainder.
LEMMA ExactQuotient ==
  ASSUME NEW r \in Nat, NEW d \in Nat, d > 0
  PROVE  (r * d) \div d = r /\ (r * d) % d = 0
<1> DEFINE n == r * d
           q == n \div d
           s == n % d
<1>1. n \in Nat
  OBVIOUS
<1>2. q \in Nat /\ s \in Nat /\ n = q * d + s /\ s < d
  BY <1>1, Quotient
<1> HIDE DEF q, s
<1>3. r * d = q * d + s
  BY <1>2
<1>4. ~(q < r)
  <2>1. SUFFICES ASSUME q < r PROVE FALSE
    OBVIOUS
  <2>2. q + 1 <= r
    BY <1>2, <2>1
  <2>3. (q + 1) * d <= r * d
    BY <1>2, <2>2
  <2>4. (q + 1) * d = q * d + d
    BY <1>2
  <2>5. QED
    BY <1>2, <1>3, <2>3, <2>4
<1>5. ~(r < q)
  <2>1. SUFFICES ASSUME r < q PROVE FALSE
    OBVIOUS
  <2>2. r + 1 <= q
    BY <1>2, <2>1
  <2>3. (r + 1) * d <= q * d
    BY <1>2, <2>2
  <2>4. (r + 1) * d = r * d + d
    BY <1>2
  <2>5. QED
    BY <1>2, <1>3, <2>3, <2>4
<1>6. q = r
  BY <1>2, <1>4, <1>5
<1>7. s = 0
  BY <1>2, <1>3, <1>6
<1>8. QED
  BY <1>6, <1>7 DEF q, s

\* What is divided by a positive number is rounded between whole bounds.
Rounded(x, d) == (x \div d) + (IF 2 * (x % d) >= d THEN 1 ELSE 0)

\* Rounding a multiple of d gives the factor.
LEMMA RoundedExactly ==
  ASSUME NEW r \in Nat, NEW d \in Nat, d > 0
  PROVE  Rounded(r * d, d) = r
<1>1. (r * d) \div d = r /\ (r * d) % d = 0
  BY ExactQuotient
<1>2. QED
  BY <1>1 DEF Rounded

\* Rounding does not pass a multiple of d.
LEMMA RoundedBelow ==
  ASSUME NEW x \in Nat, NEW d \in Nat, d > 0, NEW k \in Nat, x <= k * d
  PROVE  Rounded(x, d) \in 0 .. k
<1> DEFINE q == x \div d
           s == x % d
<1>1. q \in Nat /\ s \in Nat /\ x = q * d + s /\ s < d
  BY Quotient
<1>2. Rounded(x, d) = q + (IF 2 * s >= d THEN 1 ELSE 0)
  BY DEF Rounded
<1> HIDE DEF q, s
<1>3. q <= k
  <2>1. SUFFICES ASSUME k + 1 <= q PROVE FALSE
    BY <1>1
  <2>2. (k + 1) * d <= q * d
    BY <1>1, <2>1
  <2>3. (k + 1) * d = k * d + d
    OBVIOUS
  <2>4. QED
    BY <1>1, <2>2, <2>3
<1>4. CASE q = k
  <2>1. s = 0
    BY <1>1, <1>4
  <2>2. QED
    BY <1>2, <1>4, <2>1
<1>5. CASE q # k
  BY <1>1, <1>2, <1>3, <1>5
<1>6. QED
  BY <1>4, <1>5

\* Whatever the signs, a division of integer_types.rs rounds a quotient of
\* natural numbers, to the nearest, and gives it a sign.
LEMMA RoundDivIs ==
  ASSUME NEW n \in Int, NEW m \in Int, m # 0
  PROVE  \E x \in Nat, d \in Nat : 
           /\ d > 0
           /\ \/ m > 0 /\ d = m /\ n >= 0 /\ x = n /\ RoundDiv(n, m) = Rounded(x, d)
              \/ m > 0 /\ d = m /\ n < 0 /\ x = -n /\ RoundDiv(n, m) = -Rounded(x, d)
              \/ m < 0 /\ d = -m /\ n <= 0 /\ x = -n /\ RoundDiv(n, m) = Rounded(x, d)
              \/ m < 0 /\ d = -m /\ n > 0 /\ x = n /\ RoundDiv(n, m) = -Rounded(x, d)
<1>1. CASE m > 0 /\ n >= 0
  BY <1>1 DEF RoundDiv, Rounded
<1>2. CASE m > 0 /\ n < 0
  <2>1. -n \in Nat /\ m \in Nat
    BY <1>2
  <2>2. RoundDiv(n, m) = -Rounded(-n, m)
    BY <1>2 DEF RoundDiv, Rounded
  <2>3. QED
    BY <1>2, <2>1, <2>2
<1>3. CASE m < 0 /\ n <= 0
  <2>1. -n \in Nat /\ -m \in Nat
    BY <1>3
  <2>2. RoundDiv(n, m) = Rounded(-n, -m)
    BY <1>3 DEF RoundDiv, Rounded
  <2>3. QED
    BY <1>3, <2>1, <2>2
<1>4. CASE m < 0 /\ n > 0
  BY <1>4 DEF RoundDiv, Rounded
<1>5. QED
  BY <1>1, <1>2, <1>3, <1>4

\* A value that is transmitted and read again is the same: from engineering
\* units back to the integer nothing is lost.
LEMMA RoundTrip ==
  ASSUME NEW r \in I32, NEW m \in Int, m # 0, NEW off \in Int
  PROVE  TryFromEngineering(FromTransmitted(r, m, off), m, off) = r
<1>1. r \in Int /\ MinI32 \in Int /\ MaxI32 \in Int /\ MinI32 <= r /\ r <= MaxI32
  BY WidthAssumption DEF I32
<1>2. FromTransmitted(r, m, off) - off = r * m /\ r * m \in Int
  BY <1>1 DEF FromTransmitted
<1> DEFINE n == r * m
<1>3. ~QuotientBelow(n, m, MinI32) /\ ~QuotientAbove(n, m, MaxI32)
  <2>1. CASE m > 0
    <3>1. MinI32 * m <= r * m /\ r * m <= MaxI32 * m
      BY <1>1, <2>1
    <3>2. QED
      BY <1>1, <1>2, <2>1, <3>1 DEF QuotientBelow, QuotientAbove
  <2>2. CASE m < 0
    <3>1. r * m <= MinI32 * m /\ MaxI32 * m <= r * m
      BY <1>1, <2>2
    <3>2. QED
      BY <1>1, <1>2, <2>2, <3>1 DEF QuotientBelow, QuotientAbove
  <2>3. QED
    BY <2>1, <2>2
<1>4. RoundDiv(n, m) = r
  <2>1. PICK x \in Nat, d \in Nat :
          /\ d > 0
          /\ \/ m > 0 /\ d = m /\ n >= 0 /\ x = n /\ RoundDiv(n, m) = Rounded(x, d)
             \/ m > 0 /\ d = m /\ n < 0 /\ x = -n /\ RoundDiv(n, m) = -Rounded(x, d)
             \/ m < 0 /\ d = -m /\ n <= 0 /\ x = -n /\ RoundDiv(n, m) = Rounded(x, d)
             \/ m < 0 /\ d = -m /\ n > 0 /\ x = n /\ RoundDiv(n, m) = -Rounded(x, d)
    BY <1>2, RoundDivIs
  <2>2. CASE r >= 0
    <3>1. r \in Nat /\ x = r * d
      <4>1. m > 0 => n >= 0
        BY <1>1, <2>2
      <4>2. m < 0 => n <= 0
        BY <1>1, <2>2
      <4>3. m < 0 => -n = r * (-m)
        BY <1>1
      <4>4. QED
        BY <1>1, <2>1, <2>2, <4>1, <4>2, <4>3
    <3>2. Rounded(x, d) = r
      BY <2>1, <3>1, RoundedExactly
    <3>3. (m > 0 => n >= 0) /\ (m < 0 => n <= 0)
      BY <1>1, <2>2
    <3>4. QED
      BY <1>1, <1>2, <2>1, <3>2, <3>3
  <2>3. CASE r < 0
    <3>1. (m > 0 => n < 0) /\ (m < 0 => n > 0)
      BY <1>1, <2>3
    <3>2. -r \in Nat /\ x = (-r) * d
      <4>1. m > 0 => -n = (-r) * m
        BY <1>1
      <4>2. m < 0 => n = (-r) * (-m)
        BY <1>1
      <4>3. QED
        BY <1>1, <1>2, <2>1, <2>3, <3>1, <4>1, <4>2
    <3>3. Rounded(x, d) = -r
      BY <2>1, <3>2, RoundedExactly
    <3>4. QED
      BY <1>1, <1>2, <2>1, <3>1, <3>3
  <2>4. QED
    BY <1>1, <2>2, <2>3
<1>5. QED
  BY <1>2, <1>3, <1>4 DEF TryFromEngineering, OutOfI32

\* What is not refused fits: the range is tested on the exact quotient, and
\* rounding does not leave it.
LEMMA RoundedFits ==
  ASSUME NEW v \in Int, NEW m \in Int, NEW off \in Int
  PROVE  TryFromEngineering(v, m, off) \in I32 \cup {Refused}
<1>1. SUFFICES ASSUME m # 0, ~OutOfI32(v, m, off) PROVE RoundDiv(v - off, m) \in I32
  BY DEF TryFromEngineering
<1> DEFINE n == v - off
<1>2. n \in Int /\ MinI32 \in Int /\ MaxI32 \in Int /\ MinI32 < 0 /\ MaxI32 > 0
  BY WidthAssumption
<1>3. ~QuotientBelow(n, m, MinI32) /\ ~QuotientAbove(n, m, MaxI32)
  BY <1>1 DEF OutOfI32
<1> SUFFICES RoundDiv(n, m) \in I32
  OBVIOUS
<1> HIDE DEF n
<1>4. PICK x \in Nat, d \in Nat :
        /\ d > 0
        /\ \/ m > 0 /\ d = m /\ n >= 0 /\ x = n /\ RoundDiv(n, m) = Rounded(x, d)
           \/ m > 0 /\ d = m /\ n < 0 /\ x = -n /\ RoundDiv(n, m) = -Rounded(x, d)
           \/ m < 0 /\ d = -m /\ n <= 0 /\ x = -n /\ RoundDiv(n, m) = Rounded(x, d)
           \/ m < 0 /\ d = -m /\ n > 0 /\ x = n /\ RoundDiv(n, m) = -Rounded(x, d)
  BY <1>1, <1>2, RoundDivIs
<1>5. CASE RoundDiv(n, m) = Rounded(x, d) /\ ((m > 0 /\ d = m /\ x = n) \/ (m < 0 /\ d = -m /\ x = -n))
  <2>1. CASE m > 0 /\ x = n
    <3>1. x <= MaxI32 * d
      BY <1>2, <1>3, <1>4, <2>1 DEF QuotientAbove
    <3>2. MaxI32 \in Nat
      BY <1>2
    <3>3. Rounded(x, d) \in 0 .. MaxI32
      BY <1>4, <3>1, <3>2, RoundedBelow
    <3>4. QED
      BY <1>2, <1>5, <3>3 DEF I32
  <2>2. CASE m < 0 /\ x = -n
    <3>1. x <= MaxI32 * d
      <4>1. n >= MaxI32 * m
        BY <1>2, <1>3, <2>2 DEF QuotientAbove
      <4>2. d = -m /\ MaxI32 * d = -(MaxI32 * m)
        BY <1>2, <1>4, <2>2
      <4>3. QED
        BY <1>2, <2>2, <4>1, <4>2
    <3>2. MaxI32 \in Nat
      BY <1>2
    <3>3. Rounded(x, d) \in 0 .. MaxI32
      BY <1>4, <3>1, <3>2, RoundedBelow
    <3>4. QED
      BY <1>2, <1>5, <3>3 DEF I32
  <2>3. QED
    BY <1>5, <2>1, <2>2
<1>6. CASE RoundDiv(n, m) = -Rounded(x, d) /\ ((m > 0 /\ d = m /\ x = -n) \/ (m < 0 /\ d = -m /\ x = n))
  <2>1. -MinI32 \in Nat
    BY <1>2
  <2>2. x <= (-MinI32) * d
    <3>1. CASE m > 0
      <4>1. n >= MinI32 * m
        BY <1>2, <1>3, <3>1 DEF QuotientBelow
      <4>2. (-MinI32) * m = -(MinI32 * m)
        BY <1>2
      <4>3. QED
        BY <1>2, <1>6, <3>1, <4>1, <4>2
    <3>2. CASE m < 0
      <4>1. n <= MinI32 * m
        BY <1>2, <1>3, <3>2 DEF QuotientBelow
      <4>2. (-MinI32) * (-m) = MinI32 * m
        BY <1>2
      <4>3. QED
        BY <1>2, <1>6, <3>2, <4>1, <4>2
    <3>3. QED
      BY <1>1, <3>1, <3>2
  <2>3. Rounded(x, d) \in 0 .. -MinI32
    BY <1>4, <2>1, <2>2, RoundedBelow
  <2>4. QED
    BY <1>2, <1>6, <2>3 DEF I32
<1>7. QED
  BY <1>4, <1>5, <1>6

-----------------------------------------------------------------------------
(* Finding a point by its index: the first of all records of all kinds.    *)

\* Sequences of points: the first one with an index.
WithIndex(i) == {a \in AiPoints : a.index = i}

\* A search of a record for an index finds the first of the record's hits.
LEMMA SelectIs ==
  ASSUME NEW s \in Seq(AiPoints), NEW i
  PROVE  /\ SelectInSeq(s, LAMBDA a : a.index = i) =
              IF HasIndex(s, i) THEN Min(Hits(s, WithIndex(i))) ELSE 0
         /\ HasIndex(s, i) <=> Hits(s, WithIndex(i)) # {}
<1>1. Hits(s, WithIndex(i)) = {k \in 1 .. Len(s) : s[k].index = i}
  <2>1. \A k \in 1 .. Len(s) : s[k] \in AiPoints
    OBVIOUS
  <2>2. QED
    BY <2>1 DEF Hits, WithIndex
<1>2. HasIndex(s, i) <=> {k \in 1 .. Len(s) : s[k].index = i} # {}
  BY DEF HasIndex, Indices
<1>3. QED
  BY <1>1, <1>2 DEF SelectInSeq

\* The kinds of inputs and outputs.
LEMMA KindsAre ==
  /\ Len(AiKinds) = 8 /\ DOMAIN AiKinds = 1 .. 8
  /\ ToSet(AiKinds) = {"base", "meter", "der", "inverter", "battery", "curve", "schedule_bc", "schedule"}
  /\ Len(AoKinds) = 4 /\ DOMAIN AoKinds = 1 .. 4 /\ ToSet(AoKinds) = {"base", "meter", "inverter", "battery"}
  /\ Len(BiKinds) = 5 /\ DOMAIN BiKinds = 1 .. 5
  /\ ToSet(BiKinds) = {"base", "meter", "der", "inverter", "battery"}
<1>1. Len(AiKinds) = 8 /\ DOMAIN AiKinds = 1 .. 8
  BY DEF AiKinds
<1>2. Len(AoKinds) = 4 /\ DOMAIN AoKinds = 1 .. 4 /\ Len(BiKinds) = 5 /\ DOMAIN BiKinds = 1 .. 5
  BY DEF AoKinds, BiKinds
<1>3. ToSet(AiKinds) = {"base", "meter", "der", "inverter", "battery", "curve", "schedule_bc", "schedule"}
  BY DEF AiKinds, ToSet
<1>4. ToSet(AoKinds) = {"base", "meter", "inverter", "battery"}
  BY DEF AoKinds, ToSet
<1>5. ToSet(BiKinds) = {"base", "meter", "der", "inverter", "battery"}
  BY DEF BiKinds, ToSet
<1>6. QED
  BY <1>1, <1>2, <1>3, <1>4, <1>5

Has(ai, i) == \E kd \in ToSet(AiKinds) : \E r \in DOMAIN ai[kd] : HasIndex(ai[kd][r], i)

\* All points of some records: those of each record of each kind.
LEMMA FlatRange ==
  ASSUME NEW S, NEW kinds, NEW n \in Nat, Len(kinds) = n, DOMAIN kinds = 1 .. n,
         NEW records \in [ToSet(kinds) -> Seq(Seq(S))]
  PROVE  /\ Flat(records, kinds) \in Seq(S)
         /\ \A x : x \in ToSet(Flat(records, kinds)) <=>
              \E kd \in ToSet(kinds) : \E r \in DOMAIN records[kd] : x \in ToSet(records[kd][r])
<1> DEFINE parts == [k \in DOMAIN kinds |-> FlattenSeq(records[kinds[k]])]
<1>1. \A k \in 1 .. n : kinds[k] \in ToSet(kinds) /\ records[kinds[k]] \in Seq(Seq(S))
  BY DEF ToSet
<1>2. \A k \in 1 .. n : FlattenSeq(records[kinds[k]]) \in Seq(S)
  BY <1>1, FirstOfFlat
<1>3. parts \in Seq(Seq(S)) /\ Len(parts) = n /\ \A k \in 1 .. n : parts[k] = FlattenSeq(records[kinds[k]])
  BY <1>2
<1>4. Flat(records, kinds) = FlattenSeq(parts)
  BY DEF Flat
<1> HIDE DEF parts
<1>5. FlattenSeq(parts) \in Seq(S)
  BY <1>3, FirstOfFlat
<1>6. ASSUME NEW x
      PROVE x \in ToSet(Flat(records, kinds)) <=>
              \E kd \in ToSet(kinds) : \E r \in DOMAIN records[kd] : x \in ToSet(records[kd][r])
  <2>1. x \in ToSet(FlattenSeq(parts)) <=> \E k \in 1 .. n : x \in ToSet(parts[k])
    BY <1>3, RangeOfFlat
  <2>2. \A k \in 1 .. n : x \in ToSet(parts[k]) <=>
                          \E r \in 1 .. Len(records[kinds[k]]) : x \in ToSet(records[kinds[k]][r])
    BY <1>1, <1>3, RangeOfFlat
  <2>3. \A kd \in ToSet(kinds) : DOMAIN records[kd] = 1 .. Len(records[kd])
    OBVIOUS
  <2>4. ToSet(kinds) = {kinds[k] : k \in 1 .. n}
    BY DEF ToSet
  <2>5. \A kd \in ToSet(kinds) : \E k \in 1 .. n : kd = kinds[k]
    BY <2>4
  <2>6. \A k \in 1 .. n : x \in ToSet(parts[k]) <=>
                          \E r \in DOMAIN records[kinds[k]] : x \in ToSet(records[kinds[k]][r])
    <3>1. TAKE k \in 1 .. n
    <3>2. DOMAIN records[kinds[k]] = 1 .. Len(records[kinds[k]])
      BY <1>1, <2>3
    <3>3. QED
      BY <2>2, <3>2
  <2>7. QED
    BY <1>1, <1>4, <2>1, <2>5, <2>6
<1>7. QED
  BY <1>4, <1>5, <1>6

\* Point i is the first of all points that has index i.
IsPlace(ai, at) ==
  at[1] \in ToSet(AiKinds) /\ at[2] \in DOMAIN ai[at[1]] /\ at[3] \in DOMAIN ai[at[1]][at[2]]

AiRecords == Records(AiKinds, AiPoints)

\* FindAi leads to the first of all inputs with the index, as iterating over
\* all inputs does (get_ai_mut and ai_iter of pics_profile.rs).
LEMMA FindsFirst ==
  ASSUME NEW ai \in AiRecords, NEW i,
         Has(ai, i)
  PROVE  /\ IsPlace(ai, FindAi(ai, i))
         /\ ai[FindAi(ai, i)[1]][FindAi(ai, i)[2]][FindAi(ai, i)[3]].index = i
         /\ Hits(Flat(ai, AiKinds), WithIndex(i)) # {}
         /\ FirstIn(Flat(ai, AiKinds), WithIndex(i)) =
              ai[FindAi(ai, i)[1]][FindAi(ai, i)[2]][FindAi(ai, i)[3]]
<1> DEFINE T == WithIndex(i)
           holds(kd) == \E r \in DOMAIN ai[kd] : HasIndex(ai[kd][r], i)
           K == {k \in 1 .. Len(AiKinds) : holds(AiKinds[k])}
           kind == AiKinds[Min(K)]
           R == {r \in 1 .. Len(ai[kind]) : HasIndex(ai[kind][r], i)}
           rec == Min(R)
           pos == Min(Hits(ai[kind][rec], T))
<1>1. /\ Len(AiKinds) = 8 /\ DOMAIN AiKinds = 1 .. 8 /\ ai \in [ToSet(AiKinds) -> Seq(Seq(AiPoints))]
      /\ \A kd \in ToSet(AiKinds) : ai[kd] \in Seq(Seq(AiPoints)) /\ DOMAIN ai[kd] = 1 .. Len(ai[kd])
      /\ \A k \in 1 .. 8 : AiKinds[k] \in ToSet(AiKinds)
  BY KindsAre DEF AiRecords, Records, ToSet
<1>2. K # {} /\ K \subseteq 1 .. 8
  BY <1>1 DEF Has, ToSet
<1>3. Min(K) \in K
  <2>1. K \subseteq Nat
    OBVIOUS
  <2> HIDE DEF K
  <2>2. QED
    BY <1>2, <2>1, MinIn
<1>4. kind \in ToSet(AiKinds) /\ holds(kind)
  BY <1>1, <1>3
<1>5. R # {} /\ R \subseteq Nat
  <2> HIDE DEF kind
  <2>1. R \subseteq Nat
    OBVIOUS
  <2>2. QED
    BY <1>1, <1>4, <2>1
<1>6. rec \in R
  BY <1>5, MinIn
<1>7. rec \in 1 .. Len(ai[kind]) /\ HasIndex(ai[kind][rec], i) /\ ai[kind][rec] \in Seq(AiPoints)
  <2> HIDE DEF kind, rec
  <2>1. QED
    BY <1>1, <1>4, <1>6
<1>8. SelectInSeq(ai[kind][rec], LAMBDA a : a.index = i) = pos /\ Hits(ai[kind][rec], T) # {}
  BY <1>7, SelectIs
<1>9. pos \in DOMAIN ai[kind][rec] /\ FirstIn(ai[kind][rec], T) = ai[kind][rec][pos]
      /\ ai[kind][rec][pos].index = i
  <2> HIDE DEF kind, rec, T
  <2>1. pos \in 1 .. Len(ai[kind][rec]) /\ FirstIn(ai[kind][rec], T) \in T
    BY <1>7, <1>8, FirstHit
  <2>2. FirstIn(ai[kind][rec], T) = ai[kind][rec][pos]
    BY DEF FirstIn
  <2>3. QED
    BY <1>7, <2>1, <2>2 DEF T, WithIndex
<1>10. FindAi(ai, i) = <<kind, rec, pos>>
  <2>1. SelectInSeq(AiKinds, LAMBDA kd : \E r \in DOMAIN ai[kd] : HasIndex(ai[kd][r], i)) = Min(K)
    BY <1>2 DEF SelectInSeq
  <2>2. SelectInSeq(ai[kind], LAMBDA r : HasIndex(r, i)) = rec
    BY <1>5 DEF SelectInSeq
  <2> HIDE DEF K, R, rec, pos
  <2>3. QED
    BY <1>8, <2>1, <2>2 DEF FindAi
<1>11. FirstIn(FlattenSeq(ai[kind]), T) = ai[kind][rec][pos] /\ Hits(FlattenSeq(ai[kind]), T) # {}
  <2>1. Having(ai[kind], T) = R
    <3>1. \A r \in 1 .. Len(ai[kind]) : HasIndex(ai[kind][r], i) <=> Hits(ai[kind][r], T) # {}
      <4> HIDE DEF kind
      <4>1. \A r \in 1 .. Len(ai[kind]) : ai[kind][r] \in Seq(AiPoints)
        BY <1>1, <1>4
      <4>2. QED
        BY <4>1, SelectIs
    <3>2. QED
      BY <3>1 DEF Having
  <2>2. Having(ai[kind], T) # {} /\ Min(Having(ai[kind], T)) = rec
    BY <1>5, <2>1
  <2> HIDE DEF R, rec, pos, T, K, kind
  <2>3. FirstIn(FlattenSeq(ai[kind]), T) = FirstIn(ai[kind][rec], T) /\ Hits(FlattenSeq(ai[kind]), T) # {}
    BY <1>1, <1>4, <2>2, FirstOfFlat
  <2>4. QED
    BY <1>9, <2>3
<1> DEFINE parts == [k \in DOMAIN AiKinds |-> FlattenSeq(ai[AiKinds[k]])]
<1>12. parts \in Seq(Seq(AiPoints)) /\ Len(parts) = 8 /\ \A k \in 1 .. 8 : parts[k] = FlattenSeq(ai[AiKinds[k]])
  <2>1. \A k \in 1 .. 8 : FlattenSeq(ai[AiKinds[k]]) \in Seq(AiPoints)
    BY <1>1, FirstOfFlat
  <2>2. QED
    BY <1>1, <2>1
<1>13. Flat(ai, AiKinds) = FlattenSeq(parts)
  BY DEF Flat
<1>14. Having(parts, T) = K
  <2>1. ASSUME NEW k \in 1 .. 8 PROVE Hits(parts[k], T) # {} <=> holds(AiKinds[k])
    <3> DEFINE kd == AiKinds[k]
    <3>1. ai[kd] \in Seq(Seq(AiPoints)) /\ DOMAIN ai[kd] = 1 .. Len(ai[kd])
      BY <1>1
    <3>2. Hits(FlattenSeq(ai[kd]), T) = {} <=> Having(ai[kd], T) = {}
      BY <3>1, FirstOfFlat
    <3>3. \A r \in 1 .. Len(ai[kd]) : HasIndex(ai[kd][r], i) <=> Hits(ai[kd][r], T) # {}
      <4>1. \A r \in 1 .. Len(ai[kd]) : ai[kd][r] \in Seq(AiPoints)
        BY <3>1
      <4>2. QED
        BY <4>1, SelectIs
    <3> HIDE DEF parts, T
    <3>4. QED
      BY <1>12, <3>1, <3>2, <3>3 DEF Having
  <2> HIDE DEF parts, holds
  <2>2. QED
    BY <1>1, <1>12, <2>1 DEF Having
<1> HIDE DEF parts, T, R, rec, pos, K, kind, holds
<1>15. Having(parts, T) # {} /\ parts[Min(Having(parts, T))] = FlattenSeq(ai[kind])
  BY <1>1, <1>2, <1>3, <1>12, <1>14 DEF kind
<1>16. FirstIn(Flat(ai, AiKinds), T) = ai[kind][rec][pos] /\ Hits(Flat(ai, AiKinds), T) # {}
  BY <1>11, <1>12, <1>13, <1>15, FirstOfFlat
<1>17. QED
  BY <1>1, <1>4, <1>7, <1>9, <1>10, <1>16 DEF IsPlace, T

\* What ai_iter goes through are the inputs of the records of all kinds.
LEMMA AllInputs ==
  ASSUME NEW ai \in AiRecords
  PROVE  /\ Flat(ai, AiKinds) \in Seq(AiPoints)
         /\ \A x : x \in ToSet(Flat(ai, AiKinds)) <=>
              \E kd \in ToSet(AiKinds) : \E r \in DOMAIN ai[kd] : x \in ToSet(ai[kd][r])
<1> DEFINE n == Len(AiKinds)
<1>1. /\ n \in Nat /\ DOMAIN AiKinds = 1 .. n /\ ai \in [ToSet(AiKinds) -> Seq(Seq(AiPoints))]
  BY KindsAre DEF AiRecords, Records
<1> HIDE DEF n
<1>2. QED
  BY <1>1, FlatRange DEF n

\* An index that no record has is not among all inputs.
LEMMA FindsNone ==
  ASSUME NEW ai \in AiRecords, NEW i, ~Has(ai, i)
  PROVE  ~HasIndex(Flat(ai, AiKinds), i)
<1>2. ASSUME NEW x \in ToSet(Flat(ai, AiKinds)), x.index = i PROVE FALSE
  <2>1. PICK kd \in ToSet(AiKinds) : \E r \in DOMAIN ai[kd] : x \in ToSet(ai[kd][r])
    BY <1>2, AllInputs
  <2>2. QED
    BY <1>2, <2>1 DEF Has, HasIndex, Indices, ToSet
<1>3. QED
  BY <1>2 DEF HasIndex, Indices, ToSet

\* A profile that the validation accepts.
Sound(p) == p \in Profiles /\ ProfileValid(p)

RoomFor(rs) == IF Len(rs) + 1 > MaxEntries THEN MaxEntries ELSE Len(rs) + 1

\* The value a selector is judged by is that of the point the index leads to.
LEMMA SelectorReads ==
  ASSUME NEW p, p.ai \in AiRecords, NEW s, NEW kd
  PROVE  SelectorValid(p, s, kd) <=>
           (Has(p.ai, s) => Truncated(AiPoint(p, s).value) <= RoomFor(p.ai[kd]))
<1> DEFINE all == AllAi(p)
           k == SelectInSeq(all, LAMBDA a : a.index = s)
<1>1. all = Flat(p.ai, AiKinds) /\ all \in Seq(AiPoints)
  BY AllInputs DEF AllAi
<1>2. k = IF HasIndex(all, s) THEN Min(Hits(all, WithIndex(s))) ELSE 0
  BY <1>1, SelectIs
<1>3. HasIndex(all, s) <=> Hits(all, WithIndex(s)) # {}
  BY <1>1, SelectIs
<1>4. SelectorValid(p, s, kd) <=> (k = 0 \/ Truncated(all[k].value) <= RoomFor(p.ai[kd]))
  BY DEF SelectorValid, RoomFor
<1> HIDE DEF all, k
<1>5. CASE Has(p.ai, s)
  <2>1. Hits(all, WithIndex(s)) # {} /\ FirstIn(all, WithIndex(s)) = AiPoint(p, s)
    BY <1>1, <1>5, FindsFirst DEF AiPoint
  <2>2. Min(Hits(all, WithIndex(s))) \in 1 .. Len(all)
    BY <1>1, <2>1, FirstHit
  <2>3. k # 0 /\ all[k] = AiPoint(p, s)
    BY <1>2, <1>3, <2>1, <2>2 DEF FirstIn
  <2>4. QED
    BY <1>4, <1>5, <2>3
<1>6. CASE ~Has(p.ai, s)
  <2>1. k = 0
    BY <1>1, <1>2, <1>6, FindsNone
  <2>2. QED
    BY <1>4, <1>6, <2>1
<1>7. QED
  BY <1>5, <1>6

\* Records with the same indexes in the same places.
Aligned(x, y) ==
  \A kd \in ToSet(AiKinds) :
    /\ DOMAIN x[kd] = DOMAIN y[kd]
    /\ \A r \in DOMAIN y[kd] :
         /\ DOMAIN x[kd][r] = DOMAIN y[kd][r]
         /\ \A k \in DOMAIN y[kd][r] : x[kd][r][k].index = y[kd][r][k].index

\* In records that have the same indexes at the same places a search ends at
\* the same place.
LEMMA SamePlaces ==
  ASSUME NEW x \in AiRecords, NEW y \in AiRecords, Aligned(x, y), NEW i
  PROVE  /\ Has(x, i) <=> Has(y, i)
         /\ Has(y, i) => FindAi(x, i) = FindAi(y, i)
<1>1. \A kd \in ToSet(AiKinds) : \A r \in DOMAIN y[kd] : HasIndex(x[kd][r], i) <=> HasIndex(y[kd][r], i)
  BY DEF Aligned, HasIndex, Indices
<1>2. Has(x, i) <=> Has(y, i)
  BY <1>1 DEF Has, Aligned
<1>3. ASSUME Has(y, i) PROVE FindAi(x, i) = FindAi(y, i)
  <2> DEFINE K == {k \in 1 .. Len(AiKinds) : \E r \in DOMAIN y[AiKinds[k]] : HasIndex(y[AiKinds[k]][r], i)}
             kind == AiKinds[Min(K)]
             R == {r \in 1 .. Len(y[kind]) : HasIndex(y[kind][r], i)}
             rec == Min(R)
             P == {k \in 1 .. Len(y[kind][rec]) : y[kind][rec][k].index = i}
  <2>1. Len(AiKinds) = 8 /\ (\A k \in 1 .. 8 : AiKinds[k] \in ToSet(AiKinds)) /\ ToSet(AiKinds) = {AiKinds[k] : k \in 1 .. 8}
    BY KindsAre DEF ToSet
  <2>2. K # {} /\ K \subseteq Nat
    <3>1. K \subseteq Nat
      OBVIOUS
    <3>2. PICK kd \in ToSet(AiKinds) : \E r \in DOMAIN y[kd] : HasIndex(y[kd][r], i)
      BY <1>3 DEF Has
    <3>3. PICK k \in 1 .. 8 : kd = AiKinds[k]
      BY <2>1
    <3>4. k \in K
      BY <2>1, <3>2, <3>3
    <3>5. QED
      BY <3>1, <3>4
  <2>3. Min(K) \in K
    <3> HIDE DEF K
    <3>1. QED
      BY <2>2, MinIn
  <2>4. kind \in ToSet(AiKinds) /\ \E r \in DOMAIN y[kind] : HasIndex(y[kind][r], i)
    BY <2>1, <2>3
  <2>5. K = {k \in 1 .. Len(AiKinds) : \E r \in DOMAIN x[AiKinds[k]] : HasIndex(x[AiKinds[k]][r], i)}
    BY <1>1, <2>1 DEF Aligned
  <2> HIDE DEF kind
  <2>6. /\ y[kind] \in Seq(Seq(AiPoints)) /\ x[kind] \in Seq(Seq(AiPoints))
        /\ DOMAIN x[kind] = DOMAIN y[kind] /\ Len(x[kind]) = Len(y[kind]) /\ DOMAIN y[kind] = 1 .. Len(y[kind])
    <3>1. y[kind] \in Seq(Seq(AiPoints)) /\ x[kind] \in Seq(Seq(AiPoints)) /\ DOMAIN x[kind] = DOMAIN y[kind]
      BY <2>4 DEF Aligned, AiRecords, Records
    <3>2. QED
      BY <3>1
  <2>7. R = {r \in 1 .. Len(x[kind]) : HasIndex(x[kind][r], i)}
    BY <1>1, <2>4, <2>6
  <2>8. R # {} /\ R \subseteq Nat
    BY <2>4, <2>6
  <2>9. rec \in R
    <3> HIDE DEF R
    <3>1. QED
      BY <2>8, MinIn
  <2> HIDE DEF rec
  <2>10. rec \in DOMAIN y[kind] /\ y[kind][rec] \in Seq(AiPoints) /\ x[kind][rec] \in Seq(AiPoints)
    BY <2>6, <2>9
  <2>11. P = {k \in 1 .. Len(x[kind][rec]) : x[kind][rec][k].index = i}
    <3>1. DOMAIN x[kind][rec] = DOMAIN y[kind][rec]
          /\ \A k \in DOMAIN y[kind][rec] : x[kind][rec][k].index = y[kind][rec][k].index
      BY <2>4, <2>10 DEF Aligned
    <3>2. Len(x[kind][rec]) = Len(y[kind][rec]) /\ DOMAIN y[kind][rec] = 1 .. Len(y[kind][rec])
      BY <2>10, <3>1
    <3>3. QED
      BY <3>1, <3>2
  <2>12. /\ SelectInSeq(AiKinds, LAMBDA kd : \E r \in DOMAIN x[kd] : HasIndex(x[kd][r], i)) = Min(K)
         /\ SelectInSeq(AiKinds, LAMBDA kd : \E r \in DOMAIN y[kd] : HasIndex(y[kd][r], i)) = Min(K)
    BY <2>2, <2>5 DEF SelectInSeq
  <2>13. /\ SelectInSeq(x[kind], LAMBDA r : HasIndex(r, i)) = rec
         /\ SelectInSeq(y[kind], LAMBDA r : HasIndex(r, i)) = rec
    BY <2>7, <2>8 DEF SelectInSeq, rec
  <2>14. SelectInSeq(x[kind][rec], LAMBDA a : a.index = i) = SelectInSeq(y[kind][rec], LAMBDA a : a.index = i)
    BY <2>11 DEF SelectInSeq
  <2> HIDE DEF K, R, P
  <2>15. FindAi(x, i) = <<kind, rec, SelectInSeq(x[kind][rec], LAMBDA a : a.index = i)>>
    BY <2>12, <2>13 DEF FindAi, kind
  <2>16. FindAi(y, i) = <<kind, rec, SelectInSeq(y[kind][rec], LAMBDA a : a.index = i)>>
    BY <2>12, <2>13 DEF FindAi, kind
  <2>17. QED
    BY <2>14, <2>15, <2>16
<1>4. QED
  BY <1>2, <1>3

-----------------------------------------------------------------------------
(* What the loader makes.                                                  *)

\* What is left of a profile after room was made for curves has been validated.
LEMMA RoomedIs ==
  ASSUME NEW p, NEW made, Roomed(p, made) # Panic
  PROVE  Roomed(p, made).profile = Refused \/ ProfileValid(Roomed(p, made).profile)
  BY DEF Roomed, Validated

\* So has a profile with synthesized curves and schedules, unless nothing was
\* synthesized.
LEMMA SynthesizeIs ==
  ASSUME NEW p, NEW name, ProfileValid(p), Synthesize(p, name) # Panic
  PROVE  Synthesize(p, name).profile = Refused \/ ProfileValid(Synthesize(p, name).profile)
<1>1. CASE name \notin RideThroughNames
  BY <1>1 DEF Synthesize
<1>2. CASE name \in RideThroughNames
  <2>1. PICK made : Synthesize(p, name) = Roomed(p, made)
    BY <1>2 DEF Synthesize
  <2>2. QED
    BY <2>1, RoomedIs
<1>3. QED
  BY <1>1, <1>2

\* What the loader makes of a workbook is refused, unwinds or is valid.
LEMMA LoadedIsValid ==
  ASSUME NEW wb
  PROVE  Load(wb) \in {Refused, Panic} \/ ProfileValid(Load(wb))
<1>1. ASSUME NEW second, NEW name, NEW err
      PROVE  Completed(second, name, err) \in {Refused, Panic} \/ ProfileValid(Completed(second, name, err))
  BY SynthesizeIs DEF Completed, Concluded
<1>2. ASSUME NEW first, NEW outputs, NEW name, NEW err
      PROVE  \/ Rewritten(first, outputs, name, err) \in {Refused, Panic}
             \/ ProfileValid(Rewritten(first, outputs, name, err))
  BY <1>1 DEF Rewritten
<1>3. ASSUME NEW first, NEW name, NEW err
      PROVE  Sorted(first, name, err) \in {Refused, Panic} \/ ProfileValid(Sorted(first, name, err))
  BY <1>2 DEF Sorted
<1>4. ASSUME NEW key, NEW bo, NEW bi, NEW ao, NEW ai, NEW name
      PROVE  \/ Filed(key, bo, bi, ao, ai, name) \in {Refused, Panic}
             \/ ProfileValid(Filed(key, bo, bi, ao, ai, name))
  BY <1>3 DEF Filed
<1>5. ASSUME NEW key, NEW bo, NEW bi, NEW ao, NEW ai, NEW name
      PROVE  \/ Reclassify(key, bo, bi, ao, ai, name) \in {Refused, Panic}
             \/ ProfileValid(Reclassify(key, bo, bi, ao, ai, name))
  BY <1>4 DEF Reclassify
<1>6. QED
  BY <1>5 DEF Load

-----------------------------------------------------------------------------
(* No row is lost: grouping, the sheets and the steps after the sorting.   *)

\* group_by_index_gap takes one point after the other.
Putting(gs, p) ==
  IF gs = <<>> \/ p.index > Last(Last(gs)).index + 1 THEN Append(gs, <<p>>)
  ELSE [gs EXCEPT ![Len(gs)] = Append(@, p)]
Covers(gs, x) == \E g \in ToSet(gs) : x \in ToSet(g)

\* The groups still have what they had, and have the point.
LEMMA PuttingKeeps ==
  ASSUME NEW S, NEW gs \in Seq(Seq(S)), NEW p \in S
  PROVE  /\ Putting(gs, p) \in Seq(Seq(S))
         /\ Covers(Putting(gs, p), p)
         /\ \A x : Covers(gs, x) => Covers(Putting(gs, p), x)
<1>1. CASE gs = <<>> \/ p.index > Last(Last(gs)).index + 1
  <2>1. <<p>> \in Seq(S) /\ <<p>>[1] = p /\ 1 \in DOMAIN <<p>>
    OBVIOUS
  <2>2. Putting(gs, p) = Append(gs, <<p>>)
    BY <1>1 DEF Putting
  <2>3. /\ Append(gs, <<p>>) \in Seq(Seq(S))
        /\ DOMAIN Append(gs, <<p>>) = DOMAIN gs \cup {Len(gs) + 1}
        /\ Append(gs, <<p>>)[Len(gs) + 1] = <<p>>
        /\ \A n \in DOMAIN gs : Append(gs, <<p>>)[n] = gs[n]
    BY <2>1, Enqueue
  <2>4. p \in ToSet(<<p>>)
    BY <2>1 DEF ToSet
  <2>5. <<p>> \in ToSet(Append(gs, <<p>>))
    BY <2>3 DEF ToSet
  <2>6. \A g \in ToSet(gs) : g \in ToSet(Append(gs, <<p>>))
    BY <2>3 DEF ToSet
  <2>7. QED
    BY <2>2, <2>3, <2>4, <2>5, <2>6 DEF Covers
<1>2. CASE ~(gs = <<>> \/ p.index > Last(Last(gs)).index + 1)
  <2> DEFINE n == Len(gs)
             new == Append(gs[n], p)
             all == [gs EXCEPT ![n] = new]
  <2>1. n \in DOMAIN gs /\ DOMAIN gs = 1 .. n /\ gs[n] \in Seq(S)
    BY <1>2
  <2>2. /\ new \in Seq(S) /\ DOMAIN new = DOMAIN gs[n] \cup {Len(gs[n]) + 1}
        /\ new[Len(gs[n]) + 1] = p /\ \A k \in DOMAIN gs[n] : new[k] = gs[n][k]
    BY <2>1, Enqueue
  <2> HIDE DEF new
  <2>3. Putting(gs, p) = all
    BY <1>2 DEF Putting, new
  <2>4. all \in Seq(Seq(S)) /\ DOMAIN all = DOMAIN gs /\ all[n] = new
        /\ \A k \in DOMAIN gs : k # n => all[k] = gs[k]
    BY <2>1, <2>2
  <2> HIDE DEF all, n
  <2>5. p \in ToSet(new) /\ new \in ToSet(all)
    BY <2>1, <2>2, <2>4 DEF ToSet
  <2>6. ToSet(gs[n]) \subseteq ToSet(new)
    BY <2>2 DEF ToSet
  <2>7. \A g \in ToSet(gs) : g = gs[n] \/ g \in ToSet(all)
    BY <2>4 DEF ToSet
  <2>8. QED
    BY <2>3, <2>4, <2>5, <2>6, <2>7 DEF Covers
<1>3. QED
  BY <1>1, <1>2

\* No point is lost on the way into groups.
LEMMA InstancesCover ==
  ASSUME NEW S, NEW ps \in Seq(S)
  PROVE  /\ Instances(ps) \in Seq(Seq(S))
         /\ \A x \in ToSet(ps) : Covers(Instances(ps), x)
<1> DEFINE N == Len(ps)
           K == Seq(Seq(S))
           F == [a \in K \X (1 .. N) |-> Putting(a[1], ps[a[2]])]
           Eq(f) == f = [t \in SUBSET (DOMAIN ps) |->
                           IF t = {} THEN <<>> ELSE LET x == Max(t) IN Putting(f[t \ {x}], ps[x])]
           it == CHOOSE f : Eq(f)
<1>1. N \in Nat /\ DOMAIN ps = 1 .. N /\ <<>> \in K /\ \A n \in 1 .. N : ps[n] \in S
  OBVIOUS
<1>2. Instances(ps) = it[DOMAIN ps]
  BY DEF Instances, FoldLeft, MapThenFoldSet, Putting
<1> HIDE DEF it, N
<1>3. F \in [K \X (1 .. N) -> K] /\ \A a \in K, n \in 1 .. N : F[<<a, n>>] = Putting(a, ps[n])
  <2>1. \A a \in K \X (1 .. N) : Putting(a[1], ps[a[2]]) \in K
    BY <1>1, PuttingKeeps
  <2>2. QED
    BY <2>1
<1> HIDE DEF F, K
<1>4. \E f : Eq(f)
  <2>1. PICK f \in [SUBSET (1 .. N) -> K] : Folds(f, F, <<>>, N)
    BY <1>1, <1>3, FoldExists
  <2>2. ASSUME NEW t \in SUBSET (1 .. N), t # {}
        PROVE  f[t] = Putting(f[t \ {Max(t)}], ps[Max(t)])
    <3>1. Max(t) \in 1 .. N
      BY <1>1, <2>2, MaxIn
    <3>2. f[t \ {Max(t)}] \in K
      OBVIOUS
    <3>3. f[t] = F[<<f[t \ {Max(t)}], Max(t)>>]
      BY <2>1, <2>2 DEF Folds
    <3>4. QED
      BY <1>3, <3>1, <3>2, <3>3
  <2>3. f[{}] = <<>>
    BY <2>1 DEF Folds
  <2>4. \A t \in SUBSET (1 .. N) : f[t] = IF t = {} THEN <<>> ELSE Putting(f[t \ {Max(t)}], ps[Max(t)])
    BY <2>2, <2>3
  <2>5. Eq(f)
    BY <1>1, <2>4
  <2> HIDE DEF Eq
  <2>6. QED
    BY <2>5
<1>5. Eq(it)
  <2> HIDE DEF Eq
  <2>1. QED
    BY <1>4 DEF it
<1>6. \A t \in SUBSET (1 .. N) : it[t] = IF t = {} THEN <<>> ELSE Putting(it[t \ {Max(t)}], ps[Max(t)])
  <2>1. it = [t \in SUBSET (1 .. N) |-> IF t = {} THEN <<>> ELSE Putting(it[t \ {Max(t)}], ps[Max(t)])]
    BY <1>1, <1>5
  <2>2. QED
    BY <2>1
<1> HIDE DEF Eq
<1>7. ASSUME NEW t \in SUBSET (1 .. N), t # {}, it[t \ {Max(t)}] \in K
      PROVE  it[t] = F[<<it[t \ {Max(t)}], Max(t)>>]
  <2>1. Max(t) \in 1 .. N
    BY <1>1, <1>7, MaxIn
  <2>2. it[t] = Putting(it[t \ {Max(t)}], ps[Max(t)])
    BY <1>6, <1>7
  <2>3. QED
    BY <1>3, <1>7, <2>1, <2>2
<1>8. it[{}] = <<>>
  BY <1>6
<1>9. PICK g \in [0 .. N -> K] : Stepwise(g, it, <<>>, N, F)
  <2>1. Iterates(it, K, <<>>, N, F)
    BY <1>7, <1>8 DEF Iterates
  <2>2. QED
    BY <1>1, <1>3, <2>1, FoldStepwise
<1>10. ASSUME NEW n \in Nat, n + 1 <= N
       PROVE  /\ g[n] \in K /\ g[n + 1] = Putting(g[n], ps[n + 1]) /\ ps[n + 1] \in S /\ n + 1 \in 1 .. N
  <2>1. n \in 0 .. N - 1 /\ n \in 0 .. N /\ n + 1 \in 1 .. N
    BY <1>1, <1>10
  <2>2. QED
    BY <1>1, <1>3, <1>9, <2>1 DEF Stepwise
<1> DEFINE T == {n \in Nat : n <= N => \A k \in 1 .. n : Covers(g[n], ps[k])}
<1>11. \A n \in Nat : n \in T
  <2>1. 0 \in T
    OBVIOUS
  <2>2. ASSUME NEW n \in Nat, n \in T PROVE n + 1 \in T
    <3> SUFFICES ASSUME n + 1 <= N, NEW k \in 1 .. n + 1 PROVE Covers(g[n + 1], ps[k])
      OBVIOUS
    <3>1. /\ Covers(Putting(g[n], ps[n + 1]), ps[n + 1])
          /\ \A x : Covers(g[n], x) => Covers(Putting(g[n], ps[n + 1]), x)
      BY <1>10, PuttingKeeps DEF K
    <3>2. k = n + 1 \/ k \in 1 .. n
      OBVIOUS
    <3>3. k \in 1 .. n => Covers(g[n], ps[k])
      <4>1. n <= N
        BY <1>1
      <4>2. QED
        BY <2>2, <4>1
    <3>4. QED
      BY <1>10, <3>1, <3>2, <3>3
  <2> HIDE DEF T
  <2>3. QED
    BY <2>1, <2>2, SetInduction
<1>12. \A k \in 1 .. N : Covers(g[N], ps[k])
  <2>1. N \in T /\ N <= N
    BY <1>1, <1>11
  <2>2. QED
    BY <2>1
<1>13. Instances(ps) = g[N] /\ g[N] \in K
  <2>1. N \in 0 .. N
    BY <1>1
  <2>2. QED
    BY <1>1, <1>2, <1>9, <2>1 DEF Stepwise
<1>14. QED
  BY <1>1, <1>12, <1>13 DEF ToSet, K

BaseKinds == {"base", "meter", "der", "inverter", "battery"}

\* An index is that of an equipment of the list, or a base point's.
LEMMA EquipmentIs ==
  ASSUME NEW key, NEW i, NEW K, "base" \in K, NEW kinds \in Seq(K)
  PROVE  EquipmentOf(key, i, kinds) \in K
<1> DEFINE hits == {n \in 1 .. Len(kinds) : i >= key[kinds[n]]}
           k == IF hits # {} THEN Min(hits) ELSE 0
<1>1. Len(kinds) \in Nat /\ \A n \in 1 .. Len(kinds) : kinds[n] \in K
  OBVIOUS
<1>2. EquipmentOf(key, i, kinds) = IF i >= key.experimental \/ k = 0 THEN "base" ELSE kinds[k]
  BY DEF EquipmentOf, SelectInSeq
<1>3. hits \subseteq Nat /\ hits \subseteq 1 .. Len(kinds)
  BY <1>1
<1> HIDE DEF hits
<1>4. k = 0 \/ k \in 1 .. Len(kinds)
  <2>1. hits # {} => Min(hits) \in hits
    BY <1>3, MinIn
  <2>2. QED
    BY <1>3, <2>1
<1> HIDE DEF k
<1>5. QED
  BY <1>1, <1>2, <1>4

\* Every index has a kind.
LEMMA KindOfIs ==
  ASSUME NEW key, NEW i
  PROVE  /\ AiKindOf(key, i) \in BaseKinds \cup EntryKinds
         /\ BiKindOf(key, i) \in BaseKinds /\ AoKindOf(key, i) \in ToSet(AoKinds)
<1>1. "base" \in BaseKinds /\ <<"battery", "inverter", "der", "meter">> \in Seq(BaseKinds)
  BY DEF BaseKinds
<1>2. BiKindOf(key, i) \in BaseKinds
  BY <1>1, EquipmentIs DEF BiKindOf
<1>3. "base" \in ToSet(AoKinds) /\ <<"battery", "inverter", "meter">> \in Seq(ToSet(AoKinds))
  BY KindsAre
<1>4. AoKindOf(key, i) \in ToSet(AoKinds)
  BY <1>3, EquipmentIs DEF AoKindOf
<1>5. EntryKinds = {"curve", "schedule_bc", "schedule"}
  BY DEF EntryKinds, SelectorOf
<1>6. QED
  BY <1>1, <1>2, <1>4, <1>5 DEF AiKindOf

\* The rows that are read, and the points of a kind.
LEMMA RowsAre ==
  ASSUME NEW S, NEW rows \in Seq(S)
  PROVE  DataRows(rows) \in Seq(S) /\ \A k \in DOMAIN DataRows(rows) : DataRows(rows)[k].index # None
<1> DEFINE T == {r \in S : r.index \notin {None, MaxIndex}}
<1>1. DataRows(rows) = FlattenSeq(Inside(rows, T))
  <2>1. \A k \in DOMAIN rows : rows[k] \in S
    OBVIOUS
  <2>2. [k \in DOMAIN rows |-> IF rows[k].index \notin {None, MaxIndex} THEN <<rows[k]>> ELSE <<>>]
          = [k \in DOMAIN rows |-> IF rows[k] \in T THEN <<rows[k]>> ELSE <<>>]
    BY <2>1
  <2>3. QED
    BY <2>2 DEF DataRows, Where, Inside
<1>2. \A r \in T : r.index # None
  OBVIOUS
<1> HIDE DEF T
<1>3. DataRows(rows) \in Seq(S) /\ ToSet(DataRows(rows)) = ToSet(rows) \cap T
  BY <1>1, InsideIs
<1>4. QED
  BY <1>2, <1>3 DEF ToSet

OfKind(key, ps, kind) == Where(ps, LAMBDA p : AiKindOf(key, p.index) = kind)

\* The points of a kind are all those the key sheet gives the kind.
LEMMA OfKindIs ==
  ASSUME NEW S, NEW ps \in Seq(S), NEW key, NEW kind
  PROVE  /\ OfKind(key, ps, kind) \in Seq(S)
         /\ \A x \in ToSet(ps) : AiKindOf(key, x.index) = kind => x \in ToSet(OfKind(key, ps, kind))
         /\ ToSet(OfKind(key, ps, kind)) \subseteq ToSet(ps)
<1> DEFINE T == {p \in S : AiKindOf(key, p.index) = kind}
<1>1. OfKind(key, ps, kind) = FlattenSeq(Inside(ps, T))
  <2>1. \A k \in DOMAIN ps : ps[k] \in S
    OBVIOUS
  <2>2. [k \in DOMAIN ps |-> IF AiKindOf(key, ps[k].index) = kind THEN <<ps[k]>> ELSE <<>>]
          = [k \in DOMAIN ps |-> IF ps[k] \in T THEN <<ps[k]>> ELSE <<>>]
    BY <2>1
  <2>3. QED
    BY <2>2 DEF OfKind, Where, Inside
<1>2. \A x \in ToSet(ps) : x \in S
  BY DEF ToSet
<1>3. FlattenSeq(Inside(ps, T)) \in Seq(S) /\ ToSet(FlattenSeq(Inside(ps, T))) = ToSet(ps) \cap T
  <2> HIDE DEF T
  <2>1. QED
    BY InsideIs
<1>4. QED
  BY <1>1, <1>2, <1>3

\* No instance is dropped where no error is recorded.
LEMMA EquipmentKeeps ==
  ASSUME NEW S, NEW ps \in Seq(S), NEW size, ~Equipment(ps, size).err
  PROVE  \A x \in ToSet(ps) : Covers(Equipment(ps, size).records, x)
<1> DEFINE gs == Instances(ps)
           T == {g \in Seq(S) : Len(g) = size}
<1>1. gs \in Seq(Seq(S)) /\ \A x \in ToSet(ps) : Covers(gs, x)
  BY InstancesCover
<1>2. \A g \in ToSet(gs) : Len(g) = size
  BY DEF Equipment
<1>3. Equipment(ps, size).records = Where(gs, LAMBDA g : Len(g) = size)
  BY DEF Equipment
<1> HIDE DEF gs
<1>4. Where(gs, LAMBDA g : Len(g) = size) = FlattenSeq(Inside(gs, T))
  <2>1. \A k \in DOMAIN gs : gs[k] \in Seq(S)
    BY <1>1
  <2>2. [k \in DOMAIN gs |-> IF Len(gs[k]) = size THEN <<gs[k]>> ELSE <<>>]
          = [k \in DOMAIN gs |-> IF gs[k] \in T THEN <<gs[k]>> ELSE <<>>]
    BY <2>1
  <2>3. QED
    BY <2>2 DEF Where, Inside
<1>5. \A g \in ToSet(gs) : g \in T
  BY <1>1, <1>2 DEF ToSet
<1> HIDE DEF T
<1>6. ToSet(FlattenSeq(Inside(gs, T))) = ToSet(gs) \cap T
  BY <1>1, InsideIs
<1>7. \A g \in ToSet(gs) : g \in ToSet(Equipment(ps, size).records)
  BY <1>3, <1>4, <1>5, <1>6
<1>8. QED
  BY <1>1, <1>7 DEF Covers

\* The defaults of the status points leave the indexes.
LEMMA StatusKeeps ==
  ASSUME NEW key, NEW p, "index" \in DOMAIN p
  PROVE  StatusDefault(key, p).index = p.index
<1>1. \A v : Quietly(p, v).index = p.index
  <2> TAKE v
  <2>1. [p EXCEPT !.value = v].index = p.index
    OBVIOUS
  <2>2. SetValue(p, v) \in {Refused, [p EXCEPT !.value = v]}
    BY DEF SetValue, Validly
  <2>3. QED
    BY <2>1, <2>2 DEF Quietly
<1>2. QED
  BY <1>1 DEF StatusDefault

\* Sorting the rows keeps each in a record of its kind.
LEMMA SortedKeeps ==
  ASSUME NEW key, NEW S, NEW ps \in Seq(S), NEW outputs,
         \A p \in ToSet(ps) : "index" \in DOMAIN p,
         ReclassifyAi(key, ps, outputs) # Panic, ~ReclassifyAi(key, ps, outputs).err
  PROVE  \A p \in ToSet(ps) : \A kind \in BaseKinds :
           AiKindOf(key, p.index) = kind => Keeps(ReclassifyAi(key, ps, outputs).records[kind], p.index)
<1> DEFINE R == ReclassifyAi(key, ps, outputs)
           plain == OfKind(key, ps, "base")
           units(kind) == Equipment(OfKind(key, ps, kind), AiSize[kind])
<1>1. /\ R.records["base"] = <<[k \in DOMAIN plain |-> StatusDefault(key, plain[k])]>>
      /\ R.records["meter"] = units("meter").records /\ R.records["der"] = units("der").records
      /\ R.records["inverter"] = units("inverter").records /\ R.records["battery"] = units("battery").records
      /\ \A kind \in DOMAIN AiSize : ~units(kind).err
  BY DEF ReclassifyAi, OfKind
<1> HIDE DEF R
<1> SUFFICES ASSUME NEW p \in ToSet(ps), NEW kind \in BaseKinds, AiKindOf(key, p.index) = kind
             PROVE  Keeps(R.records[kind], p.index)
  BY DEF R
<1>2. /\ OfKind(key, ps, kind) \in Seq(S) /\ p \in ToSet(OfKind(key, ps, kind))
      /\ ToSet(OfKind(key, ps, kind)) \subseteq ToSet(ps)
  BY OfKindIs
<1>3. CASE kind = "base"
  <2> DEFINE new == [k \in DOMAIN plain |-> StatusDefault(key, plain[k])]
  <2>1. PICK k \in DOMAIN plain : plain[k] = p
    BY <1>2, <1>3 DEF ToSet
  <2>2. new[k].index = p.index /\ k \in DOMAIN new
    BY <2>1, StatusKeeps
  <2>3. HasIndex(new, p.index)
    <3> HIDE DEF new
    <3>1. QED
      BY <2>2 DEF HasIndex, Indices
  <2>4. R.records["base"] = <<new>>
    BY <1>1
  <2> HIDE DEF new
  <2>5. 1 \in DOMAIN <<new>> /\ <<new>>[1] = new
    OBVIOUS
  <2>6. QED
    BY <1>3, <2>3, <2>4, <2>5 DEF Keeps
<1>4. CASE kind # "base"
  <2>1. kind \in DOMAIN AiSize /\ R.records[kind] = units(kind).records /\ ~units(kind).err
    <3>1. DOMAIN AiSize = {"meter", "der", "inverter", "battery"}
      BY DEF AiSize
    <3> HIDE DEF units
    <3>2. QED
      BY <1>1, <1>4, <3>1 DEF BaseKinds
  <2>2. Covers(units(kind).records, p)
    BY <1>2, <2>1, EquipmentKeeps
  <2>3. QED
    BY <2>1, <2>2 DEF Covers, Keeps, HasIndex, Indices, ToSet
<1>5. QED
  BY <1>3, <1>4

\* A sheet that is not refused has a point of each row's index.
LEMMA SheetKeeps ==
  ASSUME NEW S, NEW rows \in Seq(S), AiSheet(rows) # Refused
  PROVE  /\ AiSheet(rows).points \in Seq(ToSet(AiSheet(rows).points))
         /\ \A p \in ToSet(AiSheet(rows).points) : "index" \in DOMAIN p
         /\ \A r \in ToSet(DataRows(rows)) : \E p \in ToSet(AiSheet(rows).points) : p.index = r.index
<1> DEFINE data == DataRows(rows)
           points == [k \in DOMAIN data |-> ReadAi(data[k])]
<1>1. data \in Seq(S)
  BY RowsAre
<1> HIDE DEF data
<1>2. DOMAIN data = 1 .. Len(data) /\ Len(data) \in Nat
  BY <1>1
<1>3. /\ AiSheet(rows).points = points
      /\ \A k \in DOMAIN data : points[k] # Refused
  <2>1. \E wrong : AiSheet(rows) = Sheet(data, points, wrong)
    BY DEF AiSheet, data
  <2> HIDE DEF points
  <2>2. QED
    BY <2>1 DEF Sheet
<1>4. \A k \in DOMAIN data : "index" \in DOMAIN points[k] /\ points[k].index = data[k].index
  <2> SUFFICES ASSUME NEW k \in DOMAIN data
               PROVE  "index" \in DOMAIN ReadAi(data[k]) /\ ReadAi(data[k]).index = data[k].index
    OBVIOUS
  <2>1. ReadAi(data[k]) # Refused
    BY <1>3
  <2>2. \A r : ReadAi(r) # Refused => "index" \in DOMAIN ReadAi(r) /\ ReadAi(r).index = r.index
    BY DEF ReadAi, AiNew, Validly
  <2>3. QED
    BY <2>1, <2>2
<1>5. DOMAIN points = DOMAIN data
  OBVIOUS
<1> HIDE DEF points
<1>6. \A k \in DOMAIN points : points[k] \in ToSet(points)
  BY DEF ToSet
<1>7. points \in Seq(ToSet(points))
  BY <1>2, <1>3, <1>5, <1>6 DEF points
<1>8. \A p \in ToSet(points) : "index" \in DOMAIN p
  BY <1>4, <1>5 DEF ToSet
<1>9. \A r \in ToSet(data) : \E p \in ToSet(points) : p.index = r.index
  <2>1. \A r \in ToSet(data) : \E k \in DOMAIN data : r = data[k]
    BY DEF ToSet
  <2>2. QED
    BY <1>4, <1>5, <1>6, <2>1
<1>10. QED
  BY <1>3, <1>7, <1>8, <1>9 DEF data

\* The same key, binary points and inputs but for curves and schedules.
Parts == {"key", "bo", "bi", "ai"}
SameInputs(q, p) ==
  /\ Parts \subseteq DOMAIN q /\ q.key = p.key /\ q.bo = p.bo /\ q.bi = p.bi /\ DOMAIN q.ai = DOMAIN p.ai
  /\ \A kind \in BaseKinds : q.ai[kind] = p.ai[kind]

\* Making curves and schedules leaves the other inputs,
LEMMA SynthesizeKeeps ==
  ASSUME NEW p, NEW name, Parts \subseteq DOMAIN p, BaseKinds \subseteq DOMAIN p.ai,
         Synthesize(p, name) # Panic, Synthesize(p, name).profile # Refused
  PROVE  SameInputs(Synthesize(p, name).profile, p)
<1>1. CASE name \notin RideThroughNames
  BY <1>1 DEF Synthesize, SameInputs
<1>2. CASE name \in RideThroughNames
  <2>1. PICK made : Synthesize(p, name) = Roomed(p, made)
    BY <1>2 DEF Synthesize
  <2> DEFINE new == [p EXCEPT !.ai["curve"] = made.curve, !.ai["schedule_bc"] = made.schedule_bc,
                              !.ai["schedule"] = made.schedule,
                              !.ao = WrittenBack(@, made.outputs)]
  <2>2. Synthesize(p, name).profile = new
    BY <2>1 DEF Roomed, Validated
  <2>3. SameInputs(new, p)
    <3>1. new.key = p.key /\ new.bo = p.bo /\ new.bi = p.bi /\ Parts \subseteq DOMAIN new
      BY DEF Parts
    <3>2. new.ai = [p.ai EXCEPT !["curve"] = made.curve, !["schedule_bc"] = made.schedule_bc,
                                !["schedule"] = made.schedule]
      BY DEF Parts
    <3> HIDE DEF new
    <3>3. DOMAIN new.ai = DOMAIN p.ai /\ \A kind \in BaseKinds : new.ai[kind] = p.ai[kind]
      BY <3>2 DEF BaseKinds
    <3>4. QED
      BY <3>1, <3>3 DEF SameInputs
  <2>4. QED
    BY <2>2, <2>3
<1>3. QED
  BY <1>1, <1>2

\* and so does everything that follows the sorting.
LEMMA FiledKeeps ==
  ASSUME NEW key, NEW bo, NEW bi, NEW ao, NEW ai, NEW name,
         ai # Panic => BaseKinds \subseteq DOMAIN ai.records,
         Filed(key, bo, bi, ao, ai, name) \notin {Refused, Panic}
  PROVE  /\ ai # Panic /\ ~ai.err /\ ~bi.err /\ ~ao.err
         /\ Filed(key, bo, bi, ao, ai, name).key = key
         /\ Filed(key, bo, bi, ao, ai, name).bo = bo
         /\ Filed(key, bo, bi, ao, ai, name).bi = bi.records
         /\ \A kind \in BaseKinds : Filed(key, bo, bi, ao, ai, name).ai[kind] = ai.records[kind]
<1> DEFINE first == [key |-> key, bo |-> bo, bi |-> bi.records, ao |-> ao.records, ai |-> ai.records]
           wrong == bi.err \/ ao.err \/ ai.err
           outputs == ScaledOutputs(first)
           schedules == [k \in DOMAIN first.ai["schedule"] |-> RescaledSchedule(first.ai["schedule"][k], outputs)]
           second == [first EXCEPT !.ao = WrittenBack(@, outputs), !.ai["schedule"] = schedules]
           final == Synthesize(second, name)
           result == Filed(key, bo, bi, ao, ai, name)
<1>1. ai # Panic /\ result = Rewritten(first, outputs, name, wrong)
  BY DEF Filed, Sorted
<1>2. result = Completed(second, name, wrong)
  <2> HIDE DEF first, outputs, wrong
  <2>1. QED
    BY <1>1 DEF Rewritten
<1>3. result = Concluded(final, wrong)
  <2> HIDE DEF second, wrong
  <2>1. QED
    BY <1>2 DEF Completed
<1>4. final # Panic /\ ~wrong /\ result = final.profile /\ final.profile # Refused
  <2> HIDE DEF final, wrong
  <2>1. QED
    BY <1>3 DEF Concluded
<1>5. /\ first.ai = ai.records /\ first.key = key /\ first.bo = bo /\ first.bi = bi.records
      /\ DOMAIN first = {"key", "bo", "bi", "ao", "ai"}
  OBVIOUS
<1>6. SameInputs(second, first) /\ BaseKinds \subseteq DOMAIN second.ai
  <2> HIDE DEF first, schedules, outputs
  <2>1. /\ second.key = first.key /\ second.bo = first.bo /\ second.bi = first.bi /\ Parts \subseteq DOMAIN second
        /\ second.ai = [first.ai EXCEPT !["schedule"] = schedules]
    BY <1>5 DEF Parts
  <2> HIDE DEF second
  <2>2. DOMAIN second.ai = DOMAIN first.ai /\ \A kind \in BaseKinds : second.ai[kind] = first.ai[kind]
    BY <2>1 DEF BaseKinds
  <2>3. QED
    BY <1>1, <1>5, <2>1, <2>2 DEF SameInputs
<1>7. SameInputs(final.profile, second)
  <2> HIDE DEF second
  <2>1. Parts \subseteq DOMAIN second
    BY <1>6 DEF SameInputs
  <2>2. QED
    BY <1>4, <1>6, <2>1, SynthesizeKeeps
<1>8. ~ai.err /\ ~bi.err /\ ~ao.err
  BY <1>4
<1> HIDE DEF first, second, final, result
<1>9. result.key = key /\ result.bo = bo /\ result.bi = bi.records /\ \A kind \in BaseKinds : result.ai[kind] = ai.records[kind]
  BY <1>4, <1>5, <1>6, <1>7 DEF SameInputs
<1>10. QED
  BY <1>1, <1>8, <1>9 DEF result

\* A profile that was loaded has its binary points as they were sorted, nothing
\* was wrong with the size of an equipment, and it has a base or equipment input
\* for every row that belongs to neither a curve nor a schedule.
LEMMA LoadKeeps ==
  ASSUME NEW wb, NEW S, wb.ai \in Seq(S), Load(wb) \notin {Refused, Panic}
  PROVE  /\ Load(wb).key = KeySheet(wb) /\ Load(wb).bo = BoSheet(wb.bo).points
         /\ Load(wb).bi = ReclassifyBi(KeySheet(wb), BiSheet(wb.bi).points).records
         /\ ~ReclassifyBi(KeySheet(wb), BiSheet(wb.bi).points).err
         /\ ~ReclassifyAo(KeySheet(wb), AoSheet(wb.ao).points).err
         /\ \A r \in ToSet(DataRows(wb.ai)) :
              \/ AiKindOf(Load(wb).key, r.index) \in EntryKinds
              \/ Keeps(Load(wb).ai[AiKindOf(Load(wb).key, r.index)], r.index)
<1> DEFINE key == KeySheet(wb)
           points == AiSheet(wb.ai).points
           bi == ReclassifyBi(key, BiSheet(wb.bi).points)
           ao == ReclassifyAo(key, AoSheet(wb.ao).points)
           outputs == ByIndex(Flat(ao.records, AoKinds))
           ai == ReclassifyAi(key, points, outputs)
           bo == BoSheet(wb.bo).points
<1>1. AiSheet(wb.ai) # Refused /\ Load(wb) = Reclassify(key, bo, BiSheet(wb.bi).points, AoSheet(wb.ao).points, points, wb.name)
  BY DEF Load
<1>2. Load(wb) = Filed(key, bo, bi, ao, ai, wb.name)
  <2> HIDE DEF key, bo, points
  <2>1. QED
    BY <1>1 DEF Reclassify
<1>3. ai # Panic => BaseKinds \subseteq DOMAIN ai.records
  <2> HIDE DEF key, points, outputs
  <2>1. QED
    BY DEF ReclassifyAi, BaseKinds
<1> HIDE DEF bi, ao, bo
<1>4. /\ ai # Panic /\ ~ai.err /\ ~bi.err /\ ~ao.err
      /\ Load(wb).key = key /\ Load(wb).bo = bo /\ Load(wb).bi = bi.records
      /\ \A kind \in BaseKinds : Load(wb).ai[kind] = ai.records[kind]
  <2> HIDE DEF ai, key
  <2>1. QED
    BY <1>2, <1>3, FiledKeeps
<1>5. /\ points \in Seq(ToSet(points)) /\ \A p \in ToSet(points) : "index" \in DOMAIN p
      /\ \A r \in ToSet(DataRows(wb.ai)) : \E p \in ToSet(points) : p.index = r.index
  BY <1>1, SheetKeeps
<1> HIDE DEF key, points, outputs
<1>6. \A p \in ToSet(points) : \A kind \in BaseKinds :
        AiKindOf(key, p.index) = kind => Keeps(ai.records[kind], p.index)
  BY <1>4, <1>5, SortedKeeps
<1> HIDE DEF ai
<1>7. ASSUME NEW r \in ToSet(DataRows(wb.ai))
      PROVE  \/ AiKindOf(key, r.index) \in EntryKinds
             \/ Keeps(Load(wb).ai[AiKindOf(key, r.index)], r.index)
  <2>1. PICK p \in ToSet(points) : p.index = r.index
    BY <1>5
  <2>2. AiKindOf(key, r.index) \in BaseKinds \cup EntryKinds
    BY KindOfIs
  <2>3. QED
    BY <1>4, <1>6, <2>1, <2>2
<1>8. QED
  BY <1>4, <1>7 DEF bo, bi, ao, key

-----------------------------------------------------------------------------
(* Changing a point.                                                       *)

\* A profile with other inputs.
LEMMA WithAi ==
  ASSUME NEW p \in Profiles, NEW ai \in AiRecords
  PROVE  /\ [p EXCEPT !.ai = ai] \in Profiles
         /\ [p EXCEPT !.ai = ai].ai = ai /\ [p EXCEPT !.ai = ai].key = p.key
         /\ [p EXCEPT !.ai = ai].bo = p.bo /\ [p EXCEPT !.ai = ai].bi = p.bi /\ [p EXCEPT !.ai = ai].ao = p.ao
         /\ p.ai \in AiRecords
  BY DEF Profiles, AiRecords

\* Inputs with other records of one kind.
LEMMA WithKind ==
  ASSUME NEW ai \in AiRecords, NEW kd \in ToSet(AiKinds), NEW s \in Seq(Seq(AiPoints)),
         kd = "base" => Len(s) = 1
  PROVE  /\ [ai EXCEPT ![kd] = s] \in AiRecords
         /\ [ai EXCEPT ![kd] = s][kd] = s
         /\ \A other \in ToSet(AiKinds) : other # kd => [ai EXCEPT ![kd] = s][other] = ai[other]
  BY KindsAre DEF AiRecords, Records

\* The parts of the inputs of a profile.
LEMMA KindsTyped ==
  ASSUME NEW ai \in AiRecords
  PROVE  /\ DOMAIN ai = ToSet(AiKinds)
         /\ \A kd \in ToSet(AiKinds) : ai[kd] \in Seq(Seq(AiPoints)) /\ DOMAIN ai[kd] = 1 .. Len(ai[kd])
         /\ \A kd \in ToSet(AiKinds) : \A r \in DOMAIN ai[kd] :
              ai[kd][r] \in Seq(AiPoints) /\ DOMAIN ai[kd][r] = 1 .. Len(ai[kd][r])
         /\ \A kd \in ToSet(AiKinds) : \A r \in DOMAIN ai[kd] : \A k \in DOMAIN ai[kd][r] :
              ai[kd][r][k] \in AiPoints
         /\ Len(ai["base"]) = 1
<1>1. ai \in [ToSet(AiKinds) -> Seq(Seq(AiPoints))] /\ Len(ai["base"]) = 1
  BY DEF AiRecords, Records
<1>2. \A kd \in ToSet(AiKinds) : ai[kd] \in Seq(Seq(AiPoints)) /\ DOMAIN ai[kd] = 1 .. Len(ai[kd])
  BY <1>1
<1>3. \A kd \in ToSet(AiKinds) : \A r \in DOMAIN ai[kd] :
        ai[kd][r] \in Seq(AiPoints) /\ DOMAIN ai[kd][r] = 1 .. Len(ai[kd][r])
  BY <1>2
<1>4. QED
  BY <1>1, <1>2, <1>3

\* Adding default curves.
LEMMA AddedIsSound ==
  ASSUME NEW p \in Profiles, NEW count \in Nat, DefaultCurve \in Seq(AiPoints),
         AddDefaultCurves(p, count) # Refused
  PROVE  Sound(AddDefaultCurves(p, count))
<1> DEFINE curves == p.ai["curve"] \o [k2 \in 1 .. count |-> DefaultCurve]
           after == [p EXCEPT !.ai = [p.ai EXCEPT !["curve"] = curves]]
<1>1. p.ai \in AiRecords /\ "curve" \in ToSet(AiKinds)
  BY KindsAre DEF Profiles, AiRecords
<1>2. curves \in Seq(Seq(AiPoints))
  BY <1>1, KindsTyped
<1>3. [p EXCEPT !.ai["curve"] = @ \o [k2 \in 1 .. count |-> DefaultCurve]] = after
  OBVIOUS
<1>4. AddDefaultCurves(p, count) \in {Refused, Validated(after)}
  BY <1>3 DEF AddDefaultCurves
<1> HIDE DEF curves
<1>5. after \in Profiles
  <2>1. [p.ai EXCEPT !["curve"] = curves] \in AiRecords
    BY <1>1, <1>2, WithKind
  <2>2. QED
    BY <2>1, WithAi
<1>6. QED
  BY <1>4, <1>5 DEF Validated, Sound

\* The same points in the same places, but for their limits and values; and the
\* selectors with these too.
Alike(x, y) ==
  /\ Aligned(x, y)
  /\ \A kd \in ToSet(AiKinds) : \A r \in DOMAIN y[kd] : \A k \in DOMAIN y[kd][r] :
       PassedOver(y[kd][r][k]) => x[kd][r][k] = y[kd][r][k]

\* One point replaced.
Replaced(ai, at, new) ==
  [ai EXCEPT ![at[1]] = [ai[at[1]] EXCEPT ![at[2]] = [ai[at[1]][at[2]] EXCEPT ![at[3]] = new]]]

\* One input replaced leaves all the others.
LEMMA ReplacedIs ==
  ASSUME NEW ai \in AiRecords, NEW at, IsPlace(ai, at), NEW new \in AiPoints
  PROVE  /\ Replaced(ai, at, new) \in AiRecords
         /\ \A kd \in ToSet(AiKinds) :
              /\ DOMAIN Replaced(ai, at, new)[kd] = DOMAIN ai[kd]
              /\ \A r \in DOMAIN ai[kd] :
                   /\ DOMAIN Replaced(ai, at, new)[kd][r] = DOMAIN ai[kd][r]
                   /\ \A k \in DOMAIN ai[kd][r] :
                        Replaced(ai, at, new)[kd][r][k] =
                          IF kd = at[1] /\ r = at[2] /\ k = at[3] THEN new ELSE ai[kd][r][k]
<1> DEFINE kind == at[1]
           record == [ai[at[1]][at[2]] EXCEPT ![at[3]] = new]
           records == [ai[at[1]] EXCEPT ![at[2]] = record]
<1>1. kind \in ToSet(AiKinds) /\ at[2] \in DOMAIN ai[kind] /\ at[3] \in DOMAIN ai[kind][at[2]]
  BY DEF IsPlace
<1>2. ai[kind] \in Seq(Seq(AiPoints)) /\ ai[kind][at[2]] \in Seq(AiPoints)
  BY <1>1, KindsTyped
<1>3. record \in Seq(AiPoints) /\ DOMAIN record = DOMAIN ai[kind][at[2]]
      /\ \A k \in DOMAIN record : record[k] = IF k = at[3] THEN new ELSE ai[kind][at[2]][k]
  BY <1>1, <1>2
<1> HIDE DEF record
<1>4. records \in Seq(Seq(AiPoints)) /\ DOMAIN records = DOMAIN ai[kind] /\ Len(records) = Len(ai[kind])
      /\ \A r \in DOMAIN records : records[r] = IF r = at[2] THEN record ELSE ai[kind][r]
  BY <1>1, <1>2, <1>3
<1> HIDE DEF records
<1>5. Replaced(ai, at, new) = [ai EXCEPT ![kind] = records]
  BY DEF Replaced, record, records
<1>6. kind = "base" => Len(records) = 1
  BY <1>1, <1>4, KindsTyped
<1>7. /\ Replaced(ai, at, new) \in AiRecords /\ Replaced(ai, at, new)[kind] = records
      /\ \A other \in ToSet(AiKinds) : other # kind => Replaced(ai, at, new)[other] = ai[other]
  <2>1. records \in Seq(Seq(AiPoints))
    BY <1>4
  <2> HIDE DEF kind
  <2>2. /\ [ai EXCEPT ![kind] = records] \in AiRecords /\ [ai EXCEPT ![kind] = records][kind] = records
        /\ \A other \in ToSet(AiKinds) : other # kind => [ai EXCEPT ![kind] = records][other] = ai[other]
    BY <1>1, <1>6, <2>1, WithKind
  <2>3. QED
    BY <1>5, <2>2
<1>8. ASSUME NEW kd \in ToSet(AiKinds)
      PROVE  /\ DOMAIN Replaced(ai, at, new)[kd] = DOMAIN ai[kd]
             /\ \A r \in DOMAIN ai[kd] :
                  /\ DOMAIN Replaced(ai, at, new)[kd][r] = DOMAIN ai[kd][r]
                  /\ \A k \in DOMAIN ai[kd][r] :
                       Replaced(ai, at, new)[kd][r][k] =
                         IF kd = at[1] /\ r = at[2] /\ k = at[3] THEN new ELSE ai[kd][r][k]
  <2>1. CASE kd = kind
    BY <1>3, <1>4, <1>7, <2>1
  <2>2. CASE kd # kind
    BY <1>7, <2>2
  <2>3. QED
    BY <2>1, <2>2
<1>9. QED
  BY <1>7, <1>8

\* A point that is no selector is set, or refused: the profile stays valid and
\* like the one it comes from.
LEMMA SetKeepsAlike ==
  ASSUME NEW p, Sound(p), NEW y \in AiRecords, Alike(p.ai, y),
         NEW i, Has(p.ai, i), i \notin SelectorAis,
         NEW new \in AiPoints \cup {Refused}, new # Refused => new.index = i
  PROVE  Sound(SetAiPoint(p, i, new)) /\ Alike(SetAiPoint(p, i, new).ai, y)
<1> DEFINE at == FindAi(p.ai, i)
           after == [p EXCEPT !.ai = Replaced(p.ai, at, new)]
<1>1. p \in Profiles /\ p.ai \in AiRecords
  BY DEF Sound, Profiles, AiRecords
<1>2. IsPlace(p.ai, at) /\ p.ai[at[1]][at[2]][at[3]].index = i
  BY <1>1, FindsFirst
<1>3. SetAiPoint(p, i, new) = Kept(p, new, after)
  BY DEF SetAiPoint, Replaced
<1> HIDE DEF at
<1>4. CASE new = Refused \/ ~ProfileValid(after)
  BY <1>3, <1>4 DEF Kept
<1>5. CASE new # Refused /\ ProfileValid(after)
  <2>1. new \in AiPoints /\ new.index = i
    BY <1>5
  <2> DEFINE z == Replaced(p.ai, at, new)
  <2>2. /\ z \in AiRecords
        /\ \A kd \in ToSet(AiKinds) :
              /\ DOMAIN z[kd] = DOMAIN p.ai[kd]
              /\ \A r \in DOMAIN p.ai[kd] :
                   /\ DOMAIN z[kd][r] = DOMAIN p.ai[kd][r]
                   /\ \A k \in DOMAIN p.ai[kd][r] :
                        z[kd][r][k] = IF kd = at[1] /\ r = at[2] /\ k = at[3] THEN new ELSE p.ai[kd][r][k]
    BY <1>1, <1>2, <2>1, ReplacedIs
  <2> HIDE DEF z
  <2>3. after \in Profiles /\ after.ai = z
    BY <1>1, <2>2, WithAi DEF z
  <2>4. ASSUME NEW kd \in ToSet(AiKinds), NEW r \in DOMAIN y[kd], NEW k \in DOMAIN y[kd][r]
        PROVE  z[kd][r][k].index = y[kd][r][k].index /\ (PassedOver(y[kd][r][k]) => z[kd][r][k] = y[kd][r][k])
    <3>1. /\ r \in DOMAIN p.ai[kd] /\ k \in DOMAIN p.ai[kd][r] /\ p.ai[kd][r][k].index = y[kd][r][k].index
          /\ PassedOver(y[kd][r][k]) => p.ai[kd][r][k] = y[kd][r][k]
      BY DEF Alike, Aligned
    <3>2. z[kd][r][k] = IF kd = at[1] /\ r = at[2] /\ k = at[3] THEN new ELSE p.ai[kd][r][k]
      BY <2>2, <3>1
    <3>3. CASE kd = at[1] /\ r = at[2] /\ k = at[3]
      BY <1>2, <2>1, <3>1, <3>2, <3>3 DEF PassedOver
    <3>4. CASE ~(kd = at[1] /\ r = at[2] /\ k = at[3])
      BY <3>1, <3>2, <3>4
    <3>5. QED
      BY <3>3, <3>4
  <2>5. \A kd \in ToSet(AiKinds) : DOMAIN z[kd] = DOMAIN y[kd]
          /\ \A r \in DOMAIN y[kd] : DOMAIN z[kd][r] = DOMAIN y[kd][r]
    BY <2>2 DEF Alike, Aligned
  <2>6. Alike(z, y)
    BY <2>4, <2>5 DEF Alike, Aligned
  <2>7. SetAiPoint(p, i, new) = after
    BY <1>3, <1>5 DEF Kept
  <2>8. QED
    BY <1>5, <2>3, <2>6, <2>7 DEF Sound
<1>6. QED
  BY <1>4, <1>5

SelectorsOf(p) == {a \in ToSet(AllAi(p)) : PassedOver(a)}

\* Profiles whose inputs are alike have the same selectors.
LEMMA AlikeSelectors ==
  ASSUME NEW p \in Profiles, NEW q \in Profiles, Alike(p.ai, q.ai)
  PROVE  SelectorsOf(p) = SelectorsOf(q)
<1>1. p.ai \in AiRecords /\ q.ai \in AiRecords
  BY DEF Profiles, AiRecords
<1>2. /\ \A a : a \in ToSet(AllAi(p)) <=> \E kd \in ToSet(AiKinds) : \E r \in DOMAIN p.ai[kd] : a \in ToSet(p.ai[kd][r])
      /\ \A a : a \in ToSet(AllAi(q)) <=> \E kd \in ToSet(AiKinds) : \E r \in DOMAIN q.ai[kd] : a \in ToSet(q.ai[kd][r])
  BY <1>1, AllInputs DEF AllAi
<1>3. ASSUME NEW a \in ToSet(AllAi(p)), PassedOver(a) PROVE a \in ToSet(AllAi(q))
  <2>1. PICK kd \in ToSet(AiKinds) : \E r \in DOMAIN p.ai[kd] : a \in ToSet(p.ai[kd][r])
    BY <1>2
  <2>2. PICK r \in DOMAIN p.ai[kd] : a \in ToSet(p.ai[kd][r])
    BY <2>1
  <2>3. PICK k \in DOMAIN p.ai[kd][r] : a = p.ai[kd][r][k]
    BY <2>2 DEF ToSet
  <2>4. /\ r \in DOMAIN q.ai[kd] /\ k \in DOMAIN q.ai[kd][r] /\ p.ai[kd][r][k].index = q.ai[kd][r][k].index
        /\ PassedOver(q.ai[kd][r][k]) => p.ai[kd][r][k] = q.ai[kd][r][k]
    BY DEF Alike, Aligned
  <2>5. a = q.ai[kd][r][k]
    BY <1>3, <2>3, <2>4 DEF PassedOver
  <2>6. QED
    BY <1>2, <2>4, <2>5 DEF ToSet
<1>4. ASSUME NEW a \in ToSet(AllAi(q)), PassedOver(a) PROVE a \in ToSet(AllAi(p))
  <2>1. PICK kd \in ToSet(AiKinds) : \E r \in DOMAIN q.ai[kd] : a \in ToSet(q.ai[kd][r])
    BY <1>2
  <2>2. PICK r \in DOMAIN q.ai[kd] : a \in ToSet(q.ai[kd][r])
    BY <2>1
  <2>3. PICK k \in DOMAIN q.ai[kd][r] : a = q.ai[kd][r][k]
    BY <2>2 DEF ToSet
  <2>4. /\ r \in DOMAIN p.ai[kd] /\ k \in DOMAIN p.ai[kd][r]
        /\ PassedOver(q.ai[kd][r][k]) => p.ai[kd][r][k] = q.ai[kd][r][k]
    BY DEF Alike, Aligned
  <2>5. a = p.ai[kd][r][k]
    BY <1>4, <2>3, <2>4
  <2>6. a \in ToSet(p.ai[kd][r])
    BY <2>4, <2>5 DEF ToSet
  <2>7. QED
    BY <1>2, <2>4, <2>6
<1>5. QED
  BY <1>3, <1>4 DEF SelectorsOf

\* The updates of a point.
LEMMA ValueSet ==
  ASSUME NEW a \in AiPoints, NEW v \in Int
  PROVE  /\ SetValue(a, v) \in AiPoints \cup {Refused}
         /\ SetValue(a, v) # Refused => SetValue(a, v).index = a.index
  BY DEF SetValue, Validly, AiPoints

\* New limits leave an input of the same index, or are refused.
LEMMA BoundsSet ==
  ASSUME NEW a \in AiPoints, NEW low \in Int, NEW high \in Int
  PROVE  /\ SetEngBounds(a, low, high) \in AiPoints \cup {Refused}
         /\ SetEngBounds(a, low, high) # Refused => SetEngBounds(a, low, high).index = a.index
<1> DEFINE min == TryFromEngineering(low, a.mult, a.off)
           max == TryFromEngineering(high, a.mult, a.off)
           moved == [a EXCEPT !.min = min, !.max = max]
<1>1. a.mult \in Int /\ a.off \in Int
  BY DEF AiPoints
<1>2. min \in I32 \cup {Refused} /\ max \in I32 \cup {Refused}
  BY <1>1, RoundedFits
<1>3. SetEngBounds(a, low, high) = IF Refused \in {min, max} THEN Refused ELSE Validly(moved)
  BY DEF SetEngBounds
<1> HIDE DEF min, max
<1>4. Refused \notin {min, max} => moved \in AiPoints /\ moved.index = a.index
  BY <1>2 DEF AiPoints
<1> HIDE DEF moved
<1>5. QED
  BY <1>3, <1>4 DEF Validly

\* Engineering values are integers (in units of the model).
LEMMA EngineeringInt ==
  ASSUME NEW a \in AiPoints
  PROVE  EngMin(a) \in Int /\ EngMax(a) \in Int /\ a.index \in Int /\ a.mult \in Int /\ a.off \in Int
         /\ a.min \in Int /\ a.max \in Int /\ a.value \in Int
<1>1. a.min \in Int /\ a.max \in Int /\ a.mult \in Int /\ a.off \in Int /\ a.index \in Int /\ a.value \in Int
  BY WidthAssumption DEF AiPoints, I32
<1>2. QED
  BY <1>1 DEF EngMin, EngMax, FromTransmitted

\* So is what a scenario draws for an input.
LEMMA DrawnInt ==
  ASSUME NEW a \in AiPoints, NEW d \in {"high", "inner"}
  PROVE  Drawn(d, a) \in Int
<1>1. EngMin(a) \in Int /\ EngMax(a) \in Int /\ a.index \in Int
  BY EngineeringInt
<1>2. CASE d = "high"
  BY <1>1, <1>2 DEF Drawn
<1>3. CASE d = "inner"
  <2>1. Drawn(d, a) = IF a.index % 2 = 0 THEN EngMax(a) - Unit ELSE (EngMin(a) + EngMax(a)) \div 2
    BY <1>3 DEF Drawn
  <2>2. QED
    BY <1>1, <2>1 DEF Unit
<1>4. QED
  BY <1>2, <1>3

\* One round of the loops over the points keeps the profile valid, and like the
\* prepared one.
LEMMA RoundKeepsAlike ==
  ASSUME NEW p, Sound(p), NEW q \in Profiles, Alike(p.ai, q.ai),
         NEW a \in ToSet(AllAi(q)), ~PassedOver(a)
  PROVE  /\ \A d \in {"high", "inner"} :
              LET after == ModifyPoint(p, a, Drawn(d, AiPoint(p, a.index)))
              IN  Sound(after) /\ Alike(after.ai, q.ai)
         /\ \A s : LET after == OutOfBounds(p, a, s)
                   IN  Sound(after) /\ Alike(after.ai, q.ai)
<1> DEFINE i == a.index
           point == AiPoint(p, i)
<1>1. p \in Profiles /\ p.ai \in AiRecords /\ q.ai \in AiRecords
  BY DEF Sound, Profiles, AiRecords
<1>2. PICK kd \in ToSet(AiKinds) : \E r \in DOMAIN q.ai[kd] : a \in ToSet(q.ai[kd][r])
  BY <1>1, AllInputs DEF AllAi
<1>3. Has(q.ai, i)
  BY <1>2 DEF Has, HasIndex, Indices, ToSet
<1>4. Has(p.ai, i)
  BY <1>1, <1>3, SamePlaces DEF Alike
<1>5. IsPlace(p.ai, FindAi(p.ai, i)) /\ point.index = i
  BY <1>1, <1>4, FindsFirst DEF AiPoint
<1>6. point \in AiPoints
  BY <1>1, <1>5, KindsTyped DEF IsPlace, AiPoint
<1>7. a \in AiPoints
  <2>1. PICK r \in DOMAIN q.ai[kd] : a \in ToSet(q.ai[kd][r])
    BY <1>2
  <2>2. PICK k \in DOMAIN q.ai[kd][r] : a = q.ai[kd][r][k]
    BY <2>1 DEF ToSet
  <2>3. QED
    BY <1>1, <2>2, KindsTyped
<1>8. i \notin SelectorAis
  BY DEF PassedOver
<1>9. ASSUME NEW new \in AiPoints \cup {Refused}, new # Refused => new.index = i
      PROVE  Sound(SetAiPoint(p, i, new)) /\ Alike(SetAiPoint(p, i, new).ai, q.ai)
  BY <1>1, <1>4, <1>8, <1>9, SetKeepsAlike
<1> HIDE DEF i, point
<1>10. ASSUME NEW d \in {"high", "inner"}
       PROVE  LET after == ModifyPoint(p, a, Drawn(d, AiPoint(p, a.index)))
              IN  Sound(after) /\ Alike(after.ai, q.ai)
  <2>1. Drawn(d, point) \in Int
    BY <1>6, DrawnInt
  <2>2. /\ SetValue(point, Drawn(d, point)) \in AiPoints \cup {Refused}
        /\ SetValue(point, Drawn(d, point)) # Refused => SetValue(point, Drawn(d, point)).index = i
    BY <1>5, <1>6, <2>1, ValueSet
  <2>3. ModifyPoint(p, a, Drawn(d, AiPoint(p, a.index))) = SetAiPoint(p, i, SetValue(point, Drawn(d, point)))
    BY DEF ModifyPoint, i, point
  <2>4. QED
    BY <1>9, <2>2, <2>3
<1>11. ASSUME NEW s
       PROVE  LET after == OutOfBounds(p, a, s)
              IN  Sound(after) /\ Alike(after.ai, q.ai)
  <2> DEFINE low == EngMin(a) - Unit
             high == EngMax(a) + Unit
             wider == SetEngBounds(point, low, high)
             moved == IF wider = Refused THEN Refused
                      ELSE SetValue(wider, IF s = LowerBounds THEN low ELSE high)
  <2>1. low \in Int /\ high \in Int
    BY <1>7, EngineeringInt DEF Unit
  <2>2. OutOfBounds(p, a, s) \in {p, SetAiPoint(p, i, moved)}
    BY DEF OutOfBounds, i, point
  <2> HIDE DEF low, high
  <2>3. wider \in AiPoints \cup {Refused} /\ (wider # Refused => wider.index = i)
    BY <1>5, <1>6, <2>1, BoundsSet
  <2> HIDE DEF wider
  <2>4. moved \in AiPoints \cup {Refused} /\ (moved # Refused => moved.index = i)
    BY <2>1, <2>3, ValueSet
  <2> HIDE DEF moved
  <2>5. Sound(SetAiPoint(p, i, moved)) /\ Alike(SetAiPoint(p, i, moved).ai, q.ai)
    BY <1>9, <2>4
  <2>6. QED
    BY <2>2, <2>5
<1>12. QED
  BY <1>10, <1>11

-----------------------------------------------------------------------------
(* Repeating a record.                                                     *)

\* The records of x, in their order, and after them perhaps some of them again.
Repeats(y, x) ==
  \A kd \in ToSet(AiKinds) :
    /\ Len(x[kd]) <= Len(y[kd])
    /\ \A r \in DOMAIN x[kd] : y[kd][r] = x[kd][r]
    /\ \A r \in DOMAIN y[kd] : \E r2 \in DOMAIN x[kd] : y[kd][r] = x[kd][r2]

\* In inputs whose later records repeat earlier ones a search ends where it did.
LEMMA RepeatedPlaces ==
  ASSUME NEW x \in AiRecords, NEW y \in AiRecords, Repeats(y, x), NEW i
  PROVE  /\ Has(y, i) <=> Has(x, i)
         /\ Has(x, i) => FindAi(y, i) = FindAi(x, i)
<1>1. \A kd \in ToSet(AiKinds) : /\ DOMAIN x[kd] = 1 .. Len(x[kd]) /\ DOMAIN y[kd] = 1 .. Len(y[kd])
                                 /\ Len(x[kd]) \in Nat /\ Len(y[kd]) \in Nat
  BY KindsTyped
<1>2. \A kd \in ToSet(AiKinds) :
        (\E r \in DOMAIN y[kd] : HasIndex(y[kd][r], i)) <=> (\E r \in DOMAIN x[kd] : HasIndex(x[kd][r], i))
  <2>1. TAKE kd \in ToSet(AiKinds)
  <2>2. DOMAIN x[kd] \subseteq DOMAIN y[kd]
    BY <1>1 DEF Repeats
  <2>3. QED
    BY <2>2 DEF Repeats
<1>3. Has(y, i) <=> Has(x, i)
  BY <1>2 DEF Has
<1>4. ASSUME Has(x, i) PROVE FindAi(y, i) = FindAi(x, i)
  <2> DEFINE K == {k \in 1 .. Len(AiKinds) : \E r \in DOMAIN x[AiKinds[k]] : HasIndex(x[AiKinds[k]][r], i)}
             kind == AiKinds[Min(K)]
             R == {r \in 1 .. Len(x[kind]) : HasIndex(x[kind][r], i)}
             Q == {r \in 1 .. Len(y[kind]) : HasIndex(y[kind][r], i)}
             rec == Min(R)
  <2>1. Len(AiKinds) = 8 /\ (\A k \in 1 .. 8 : AiKinds[k] \in ToSet(AiKinds)) /\ ToSet(AiKinds) = {AiKinds[k] : k \in 1 .. 8}
    BY KindsAre DEF ToSet
  <2>2. K # {} /\ K \subseteq Nat
    <3>1. K \subseteq Nat
      OBVIOUS
    <3>2. PICK kd \in ToSet(AiKinds) : \E r \in DOMAIN x[kd] : HasIndex(x[kd][r], i)
      BY <1>4 DEF Has
    <3>3. PICK k \in 1 .. 8 : kd = AiKinds[k]
      BY <2>1
    <3>4. k \in K
      BY <2>1, <3>2, <3>3
    <3>5. QED
      BY <3>1, <3>4
  <2>3. Min(K) \in K
    <3> HIDE DEF K
    <3>1. QED
      BY <2>2, MinIn
  <2>4. kind \in ToSet(AiKinds) /\ \E r \in DOMAIN x[kind] : HasIndex(x[kind][r], i)
    BY <2>1, <2>3
  <2>5. K = {k \in 1 .. Len(AiKinds) : \E r \in DOMAIN y[AiKinds[k]] : HasIndex(y[AiKinds[k]][r], i)}
    BY <1>2, <2>1
  <2> HIDE DEF kind
  <2>6. R # {} /\ R \subseteq Nat
    BY <1>1, <2>4
  <2>7. rec \in R /\ \A r \in R : rec <= r
    <3> HIDE DEF R
    <3>1. QED
      BY <2>6, MinIn
  <2> HIDE DEF rec
  <2>8. rec \in Q /\ Q \subseteq Nat
    BY <1>1, <2>4, <2>7 DEF Repeats
  <2>9. \A r \in Q : rec <= r
    <3>1. TAKE r \in Q
    <3>2. CASE r <= Len(x[kind])
      <4>1. r \in DOMAIN x[kind] /\ y[kind][r] = x[kind][r]
        BY <1>1, <2>4, <3>2 DEF Repeats
      <4>2. r \in R
        BY <1>1, <2>4, <4>1
      <4>3. QED
        BY <2>7, <4>2
    <3>3. CASE r > Len(x[kind])
      BY <1>1, <2>4, <2>7, <3>3
    <3>4. QED
      BY <1>1, <2>4, <3>2, <3>3
  <2>10. Min(Q) = rec
    <3> HIDE DEF Q
    <3>1. QED
      BY <2>8, <2>9, MinOf
  <2>11. y[kind][rec] = x[kind][rec]
    BY <1>1, <2>4, <2>7 DEF Repeats
  <2>12. /\ SelectInSeq(AiKinds, LAMBDA kd : \E r \in DOMAIN x[kd] : HasIndex(x[kd][r], i)) = Min(K)
         /\ SelectInSeq(AiKinds, LAMBDA kd : \E r \in DOMAIN y[kd] : HasIndex(y[kd][r], i)) = Min(K)
    BY <2>2, <2>5 DEF SelectInSeq
  <2>13. /\ SelectInSeq(x[kind], LAMBDA r : HasIndex(r, i)) = rec
         /\ SelectInSeq(y[kind], LAMBDA r : HasIndex(r, i)) = rec
    <3>1. Q # {}
      BY <2>8
    <3>2. SelectInSeq(x[kind], LAMBDA r : HasIndex(r, i)) = Min(R)
      BY <2>6 DEF SelectInSeq
    <3>3. SelectInSeq(y[kind], LAMBDA r : HasIndex(r, i)) = Min(Q)
      BY <3>1 DEF SelectInSeq
    <3>4. QED
      BY <2>10, <3>2, <3>3 DEF rec
  <2> HIDE DEF K, R, Q
  <2>14. FindAi(y, i) = <<kind, rec, SelectInSeq(y[kind][rec], LAMBDA a : a.index = i)>>
    BY <2>12, <2>13 DEF FindAi, kind
  <2>15. FindAi(x, i) = <<kind, rec, SelectInSeq(x[kind][rec], LAMBDA a : a.index = i)>>
    BY <2>12, <2>13 DEF FindAi, kind
  <2>16. QED
    BY <2>11, <2>14, <2>15
<1>5. QED
  BY <1>3, <1>4

\* A selector shows an integer.
LEMMA TruncatedInt ==
  ASSUME NEW v \in Int
  PROVE  Truncated(v) \in Int
<1>1. \A x \in Nat : x \div 100 \in Int
  OBVIOUS
<1>2. v >= 0 => v \in Nat
  OBVIOUS
<1>3. v < 0 => -v \in Nat
  OBVIOUS
<1>4. QED
  BY <1>1, <1>2, <1>3 DEF Truncated, Unit

\* The point an index leads to.
LEMMA PointTyped ==
  ASSUME NEW p, p.ai \in AiRecords, NEW i, Has(p.ai, i)
  PROVE  AiPoint(p, i) \in AiPoints /\ AiPoint(p, i).index = i /\ Truncated(AiPoint(p, i).value) \in Int
         /\ AiPoint(p, i) \in ToSet(AllAi(p))
<1>1. IsPlace(p.ai, FindAi(p.ai, i)) /\ AiPoint(p, i).index = i
  BY FindsFirst DEF AiPoint
<1>2. AiPoint(p, i) \in AiPoints
  BY <1>1, KindsTyped DEF IsPlace, AiPoint
<1>3. Truncated(AiPoint(p, i).value) \in Int
  BY <1>2, TruncatedInt, EngineeringInt
<1>4. \E kd \in ToSet(AiKinds) : \E r \in DOMAIN p.ai[kd] : AiPoint(p, i) \in ToSet(p.ai[kd][r])
  BY <1>1 DEF IsPlace, AiPoint, ToSet
<1>5. QED
  BY <1>1, <1>2, <1>3, <1>4, AllInputs DEF AllAi

\* A selector may show as many entries as there are records and one more, up to
\* MaxEntries: with more records, never less.
LEMMA MoreRoom ==
  ASSUME NEW m \in Nat, NEW n \in Nat, m <= n, NEW x, NEW y, Len(x) = m, Len(y) = n
  PROVE  RoomFor(x) \in Int /\ RoomFor(y) \in Int /\ RoomFor(x) <= RoomFor(y) /\ 1 <= RoomFor(x)
  BY DEF RoomFor, MaxEntries

\* Repeating records of a valid profile gives a valid profile.
LEMMA RepeatsIsSound ==
  ASSUME NEW p, Sound(p), NEW y \in AiRecords, Repeats(y, p.ai)
  PROVE  /\ Sound([p EXCEPT !.ai = y])
         /\ SelectorsOf([p EXCEPT !.ai = y]) = SelectorsOf(p)
<1> DEFINE q == [p EXCEPT !.ai = y]
           x == p.ai
<1>1. p \in Profiles /\ x \in AiRecords /\ ProfileValid(p)
  BY DEF Sound, Profiles, AiRecords
<1>2. q \in Profiles /\ q.ai = y /\ q.key = p.key /\ q.ao = p.ao
  BY <1>1, WithAi
<1> HIDE DEF q
<1>3. \A kd \in ToSet(AiKinds) : /\ DOMAIN x[kd] = 1 .. Len(x[kd]) /\ DOMAIN y[kd] = 1 .. Len(y[kd])
                                 /\ Len(x[kd]) \in Nat /\ Len(y[kd]) \in Nat
  BY <1>1, KindsTyped
<1>4. \A a : a \in ToSet(AllAi(q)) <=> a \in ToSet(AllAi(p))
  <2>1. /\ \A a : a \in ToSet(AllAi(p)) <=> \E kd \in ToSet(AiKinds) : \E r \in DOMAIN x[kd] : a \in ToSet(x[kd][r])
        /\ \A a : a \in ToSet(AllAi(q)) <=> \E kd \in ToSet(AiKinds) : \E r \in DOMAIN y[kd] : a \in ToSet(y[kd][r])
    BY <1>1, <1>2, AllInputs DEF AllAi
  <2>2. \A kd \in ToSet(AiKinds) : DOMAIN x[kd] \subseteq DOMAIN y[kd]
    BY <1>3 DEF Repeats
  <2>3. \A kd \in ToSet(AiKinds) : \A r \in DOMAIN x[kd] : y[kd][r] = x[kd][r]
    BY DEF Repeats
  <2>4. \A kd \in ToSet(AiKinds) : \A r \in DOMAIN y[kd] : \E r2 \in DOMAIN x[kd] : y[kd][r] = x[kd][r2]
    BY DEF Repeats
  <2> HIDE DEF x
  <2>5. QED
    BY <2>1, <2>2, <2>3, <2>4
<1>5. ASSUME NEW s, NEW kd \in ToSet(AiKinds), SelectorValid(p, s, kd)
      PROVE  SelectorValid(q, s, kd)
  <2>1. Has(x, s) => Truncated(AiPoint(p, s).value) <= RoomFor(x[kd])
    BY <1>1, <1>5, SelectorReads
  <2>2. Has(y, s) <=> Has(x, s)
    BY <1>1, RepeatedPlaces
  <2>3. ASSUME Has(x, s) PROVE AiPoint(q, s) = AiPoint(p, s)
    <3> DEFINE at == FindAi(x, s)
    <3>1. FindAi(y, s) = at
      BY <1>1, <2>3, RepeatedPlaces
    <3>2. at[1] \in ToSet(AiKinds) /\ at[2] \in DOMAIN x[at[1]]
      BY <1>1, <2>3, FindsFirst DEF IsPlace
    <3> HIDE DEF at
    <3>3. y[at[1]][at[2]] = x[at[1]][at[2]]
      BY <3>2 DEF Repeats
    <3>4. QED
      BY <1>2, <3>1, <3>3 DEF AiPoint, at
  <2>4. RoomFor(x[kd]) \in Int /\ RoomFor(y[kd]) \in Int /\ RoomFor(x[kd]) <= RoomFor(y[kd])
    BY <1>3, MoreRoom DEF Repeats
  <2>5. Has(x, s) => Truncated(AiPoint(p, s).value) \in Int
    BY <1>1, PointTyped
  <2>6. Has(y, s) => Truncated(AiPoint(q, s).value) <= RoomFor(y[kd])
    BY <2>1, <2>2, <2>3, <2>4, <2>5
  <2>7. QED
    BY <1>2, <2>6, SelectorReads
<1>6. ProfileValid(q)
  <2>1. \A kd \in ToSet(AiKinds) : \A r \in DOMAIN q.ai[kd] : \E r2 \in DOMAIN p.ai[kd] : q.ai[kd][r] = p.ai[kd][r2]
    BY <1>2 DEF Repeats
  <2>2. {"base", "meter", "curve", "schedule", "schedule_bc"} \subseteq ToSet(AiKinds)
    BY KindsAre
  <2>3. /\ \A k \in DOMAIN q.ai["curve"] : CurveValid(q.ai["curve"][k])
        /\ \A k \in DOMAIN q.ai["schedule"] : ScheduleValid(q.ai["schedule"][k])
        /\ \A k \in DOMAIN q.ai["meter"] : MeterValid(q.ai["meter"][k])
        /\ \A r \in DOMAIN q.ai["base"] : \A i \in Indices(q.ai["base"][r]) : IsBaseAi(q.key, i)
    BY <1>1, <1>2, <2>1, <2>2 DEF ProfileValid
  <2>4. \A a \in ToSet(AllAi(q)) : AiValid(a)
    BY <1>1, <1>4 DEF ProfileValid
  <2>5. \A o \in ToSet(AllAo(q)) : AoValid(o)
    BY <1>1, <1>2 DEF ProfileValid, AllAo
  <2>6. SelectorValid(q, ScheduleSelector, "schedule") /\ SelectorValid(q, ScheduleBcSelector, "schedule_bc")
    BY <1>1, <1>5, <2>2 DEF ProfileValid
  <2>7. QED
    BY <2>3, <2>4, <2>5, <2>6 DEF ProfileValid
<1>7. SelectorsOf(q) = SelectorsOf(p)
  BY <1>4 DEF SelectorsOf
<1>8. QED
  BY <1>2, <1>6, <1>7 DEF Sound, q

\* The records of a kind twice over, up to MaxEntries.
LEMMA DoubledIs ==
  ASSUME NEW rs \in Seq(Seq(AiPoints))
  PROVE  /\ Doubled(rs) \in Seq(Seq(AiPoints)) /\ Len(rs) <= Len(Doubled(rs))
         /\ \A r \in DOMAIN rs : Doubled(rs)[r] = rs[r]
         /\ \A r \in DOMAIN Doubled(rs) : \E r2 \in DOMAIN rs : Doubled(rs)[r] = rs[r2]
<1>1. CASE rs = <<>>
  BY <1>1 DEF Doubled
<1>2. CASE rs # <<>>
  <2> DEFINE n == Len(rs)
             d == Append(rs, rs[n])
  <2>1. Doubled(rs) = d
    BY <1>2 DEF Doubled, Last
  <2>2. n \in Nat /\ n >= 1 /\ DOMAIN rs = 1 .. n /\ rs[n] \in Seq(AiPoints)
    BY <1>2
  <2>3. d \in Seq(Seq(AiPoints)) /\ Len(d) = n + 1 /\ DOMAIN d = 1 .. (n + 1)
        /\ (\A r \in 1 .. n : d[r] = rs[r]) /\ d[n + 1] = rs[n]
    BY <2>2
  <2> HIDE DEF d, n
  <2>4. \A r \in DOMAIN d : \E r2 \in DOMAIN rs : d[r] = rs[r2]
    <3>1. TAKE r \in DOMAIN d
    <3>2. CASE r = n + 1
      BY <2>2, <2>3, <3>2
    <3>3. CASE r \in 1 .. n
      BY <2>2, <2>3, <3>3
    <3>4. QED
      BY <2>2, <2>3, <3>2, <3>3
  <2>5. Len(rs) = n
    BY DEF n
  <2>6. QED
    BY <2>1, <2>2, <2>3, <2>4, <2>5
<1>3. QED
  BY <1>1, <1>2

\* Records of one kind, the last of them twice, repeat those that were.
LEMMA KindRepeats ==
  ASSUME NEW ai \in AiRecords, NEW x \in AiRecords, Repeats(ai, x), NEW kd \in ToSet(AiKinds), kd # "base",
         ai[kd] = x[kd]
  PROVE  /\ [ai EXCEPT ![kd] = Doubled(ai[kd])] \in AiRecords
         /\ Repeats([ai EXCEPT ![kd] = Doubled(ai[kd])], x)
<1> DEFINE d == Doubled(ai[kd])
           y == [ai EXCEPT ![kd] = d]
<1>1. ai[kd] \in Seq(Seq(AiPoints))
  BY KindsTyped
<1>2. /\ d \in Seq(Seq(AiPoints)) /\ Len(x[kd]) <= Len(d)
      /\ \A r \in DOMAIN x[kd] : d[r] = x[kd][r]
      /\ \A r \in DOMAIN d : \E r2 \in DOMAIN x[kd] : d[r] = x[kd][r2]
  BY <1>1, DoubledIs
<1> HIDE DEF d
<1>3. y \in AiRecords /\ y[kd] = d /\ \A other \in ToSet(AiKinds) : other # kd => y[other] = ai[other]
  BY <1>2, WithKind
<1> HIDE DEF y
<1>4. ASSUME NEW kind \in ToSet(AiKinds)
      PROVE  /\ Len(x[kind]) <= Len(y[kind])
             /\ \A r \in DOMAIN x[kind] : y[kind][r] = x[kind][r]
             /\ \A r \in DOMAIN y[kind] : \E r2 \in DOMAIN x[kind] : y[kind][r] = x[kind][r2]
  <2>1. CASE kind = kd
    BY <1>2, <1>3, <2>1
  <2>2. CASE kind # kd
    BY <1>3, <2>2 DEF Repeats
  <2>3. QED
    BY <2>1, <2>2
<1>5. Repeats(y, x)
  BY <1>4 DEF Repeats
<1>6. QED
  BY <1>3, <1>5 DEF y, d

\* Inputs repeat themselves.
LEMMA SelfRepeats ==
  ASSUME NEW x \in AiRecords
  PROVE  Repeats(x, x)
<1>1. \A kd \in ToSet(AiKinds) : Len(x[kd]) \in Nat
  BY KindsTyped
<1>2. QED
  BY <1>1 DEF Repeats

\* One curve or one schedule more than there are: refused only if there is none.
LEMMA MoreIsSound ==
  ASSUME NEW p, Sound(p)
  PROVE  /\ p.ai["curve"] # <<>> =>
              Sound(OneCurveMore(p)) /\ SelectorsOf(OneCurveMore(p)) = SelectorsOf(p)
         /\ ~(p.ai["schedule"] = <<>> /\ p.ai["schedule_bc"] = <<>>) =>
              Sound(OneScheduleMore(p)) /\ SelectorsOf(OneScheduleMore(p)) = SelectorsOf(p)
<1> DEFINE x == p.ai
           curves == [x EXCEPT !["curve"] = Doubled(x["curve"])]
           bcs == [x EXCEPT !["schedule_bc"] = Doubled(x["schedule_bc"])]
           schedules == [bcs EXCEPT !["schedule"] = Doubled(bcs["schedule"])]
<1>1. p \in Profiles /\ x \in AiRecords /\ {"curve", "schedule", "schedule_bc"} \subseteq ToSet(AiKinds)
  BY KindsAre DEF Sound, Profiles, AiRecords
<1>2. Repeats(x, x)
  BY <1>1, SelfRepeats
<1>3. curves \in AiRecords /\ Repeats(curves, x)
  BY <1>1, <1>2, KindRepeats
<1>4. bcs \in AiRecords /\ Repeats(bcs, x)
  BY <1>1, <1>2, KindRepeats
<1>5. bcs["schedule"] = x["schedule"]
  BY <1>1, KindsTyped
<1>6. schedules \in AiRecords /\ Repeats(schedules, x)
  <2> HIDE DEF bcs
  <2>1. QED
    BY <1>1, <1>4, <1>5, KindRepeats
<1>7. p.ai["curve"] # <<>> => OneCurveMore(p) = Validated([p EXCEPT !.ai = curves])
  BY DEF OneCurveMore
<1>8. ~(p.ai["schedule"] = <<>> /\ p.ai["schedule_bc"] = <<>>) =>
         OneScheduleMore(p) = Validated([p EXCEPT !.ai = schedules])
  <2>1. [p EXCEPT !.ai["schedule_bc"] = Doubled(@), !.ai["schedule"] = Doubled(@)] = [p EXCEPT !.ai = schedules]
    BY <1>1 DEF Profiles
  <2> HIDE DEF schedules
  <2>2. QED
    BY <2>1 DEF OneScheduleMore
<1> HIDE DEF curves, schedules, bcs, x
<1>9. ASSUME NEW y \in AiRecords, Repeats(y, x)
      PROVE  /\ Sound(Validated([p EXCEPT !.ai = y]))
             /\ SelectorsOf(Validated([p EXCEPT !.ai = y])) = SelectorsOf(p)
  BY <1>9, RepeatsIsSound DEF Validated, Sound, x
<1>10. QED
  BY <1>3, <1>6, <1>7, <1>8, <1>9

-----------------------------------------------------------------------------
(* Making room at the limits.                                              *)

\* The limits that leave the two extreme values free.
LEMMA InwardFits ==
  ASSUME NEW p, p.min \in I32, p.max \in I32
  PROVE  Inward(p).low \in I32 /\ Inward(p).high \in I32
  BY WidthAssumption DEF Inward, I32

\* An output is refused only when both its limits are the same 32-bit limit.
LEMMA OutputHeadroom ==
  ASSUME NEW o \in AoPoints, AoValid(o)
  PROVE  /\ AoWithHeadroom(o) \in AoPoints \cup {Refused}
         /\ AoWithHeadroom(o) # Refused => AoValid(AoWithHeadroom(o))
         /\ AoWithHeadroom(o) = Refused => Pinned(o) /\ Inward(o).low > Inward(o).high
<1> DEFINE low == Inward(o).low
           high == Inward(o).high
           moved == [o EXCEPT !.min = low, !.max = high]
<1>1. o.min \in I32 /\ o.max \in I32 /\ o.mult \in Int
  BY DEF AoPoints
<1>2. low \in I32 /\ high \in I32 /\ low \in Int /\ high \in Int
  BY <1>1, InwardFits, WidthAssumption DEF I32
<1>3. AoWithHeadroom(o) = IF Pinned(o) THEN (IF AoValid(moved) THEN moved ELSE Refused) ELSE o
  BY DEF AoWithHeadroom, SetTransmissionBounds, AoNew
<1> HIDE DEF low, high
<1>4. moved \in AoPoints /\ moved.min = low /\ moved.max = high /\ moved.mult = o.mult
  BY <1>2 DEF AoPoints
<1> HIDE DEF moved
<1>5. o # Refused /\ moved # Refused
  BY <1>4, RefusedAssumption
<1>6. AoValid(moved) <=> low <= high
  BY <1>4 DEF AoValid
<1>7. CASE ~Pinned(o)
  BY <1>3, <1>5, <1>7
<1>8. CASE Pinned(o)
  BY <1>2, <1>3, <1>4, <1>5, <1>6, <1>8 DEF low, high
<1>9. QED
  BY <1>7, <1>8

\* An input is refused only in that case or when its value sits at the limit; its
\* index and value stay.
LEMMA InputHeadroom ==
  ASSUME NEW a \in AiPoints, AiValid(a)
  PROVE  /\ AiWithHeadroom(a) \in AiPoints \cup {Refused}
         /\ AiWithHeadroom(a) # Refused =>
              /\ AiValid(AiWithHeadroom(a))
              /\ AiWithHeadroom(a).index = a.index /\ AiWithHeadroom(a).value = a.value
         /\ AiWithHeadroom(a) = Refused =>
              /\ Pinned(a)
              /\ \/ Inward(a).low > Inward(a).high
                 \/ a.value < FromTransmitted(Inward(a).low, a.mult, a.off)
                 \/ a.value > FromTransmitted(Inward(a).high, a.mult, a.off)
<1> DEFINE low == Inward(a).low
           high == Inward(a).high
           engLow == FromTransmitted(low, a.mult, a.off)
           engHigh == FromTransmitted(high, a.mult, a.off)
           moved == [a EXCEPT !.min = low, !.max = high]
<1>1. a.min \in I32 /\ a.max \in I32 /\ a.mult \in Int /\ a.off \in Int /\ a.mult # 0
      /\ a.value \in Int /\ a.index \in Int
  BY DEF AiPoints, AiValid
<1>2. low \in I32 /\ high \in I32 /\ low \in Int /\ high \in Int
  BY <1>1, InwardFits, WidthAssumption DEF I32
<1> HIDE DEF low, high
<1>3. TryFromEngineering(engLow, a.mult, a.off) = low /\ TryFromEngineering(engHigh, a.mult, a.off) = high
  BY <1>1, <1>2, RoundTrip
<1>4. engLow \in Int /\ engHigh \in Int
  BY <1>1, <1>2 DEF FromTransmitted
<1>5. moved \in AiPoints /\ moved.min = low /\ moved.max = high /\ moved.mult = a.mult /\ moved.off = a.off
      /\ moved.index = a.index /\ moved.value = a.value
  BY <1>2 DEF AiPoints
<1>6. low # Refused /\ high # Refused /\ a # Refused /\ moved # Refused
  BY <1>2, <1>5, RefusedAssumption
<1>7. SetEngBounds(a, engLow, engHigh) = IF AiValid(moved) THEN moved ELSE Refused
  BY <1>3, <1>6 DEF SetEngBounds, Validly
<1>8. AiWithHeadroom(a) = IF a.index \in SelectorAis \/ ~Pinned(a) THEN a ELSE SetEngBounds(a, engLow, engHigh)
  BY DEF AiWithHeadroom, low, high
<1> HIDE DEF moved
<1>9. AiValid(moved) <=> low <= high /\ engLow <= a.value /\ a.value <= engHigh
  BY <1>1, <1>5 DEF AiValid, EngMin, EngMax
<1> HIDE DEF engLow, engHigh
<1>10. CASE a.index \in SelectorAis \/ ~Pinned(a)
  BY <1>6, <1>8, <1>10
<1>11. CASE ~(a.index \in SelectorAis \/ ~Pinned(a))
  <2>1. AiWithHeadroom(a) = IF AiValid(moved) THEN moved ELSE Refused
    BY <1>7, <1>8, <1>11
  <2>2. CASE AiValid(moved)
    BY <1>5, <1>6, <2>1, <2>2
  <2>3. CASE ~AiValid(moved)
    <3>1. low > high \/ engLow > a.value \/ a.value > engHigh
      BY <1>1, <1>2, <1>4, <1>9, <2>3
    <3>2. QED
      BY <1>1, <1>4, <1>6, <1>11, <2>1, <2>3, <3>1 DEF low, high, engLow, engHigh
  <2>4. QED
    BY <2>2, <2>3
<1>12. QED
  BY <1>10, <1>11

\* The inputs of some records after they have made room.
LEMMA PreparedInputs ==
  ASSUME NEW rs \in Seq(Seq(AiPoints)),
         \A r \in DOMAIN rs : \A k \in DOMAIN rs[r] : AiValid(rs[r][k])
  PROVE  /\ ~AnyRefused(PreparedAi(rs)) =>
              /\ PreparedAi(rs) \in Seq(Seq(AiPoints)) /\ Len(PreparedAi(rs)) = Len(rs)
              /\ DOMAIN PreparedAi(rs) = DOMAIN rs
              /\ \A r \in DOMAIN rs :
                   /\ DOMAIN PreparedAi(rs)[r] = DOMAIN rs[r]
                   /\ \A k \in DOMAIN rs[r] :
                        /\ AiValid(PreparedAi(rs)[r][k])
                        /\ PreparedAi(rs)[r][k].index = rs[r][k].index
                        /\ PreparedAi(rs)[r][k].value = rs[r][k].value
         /\ AnyRefused(PreparedAi(rs)) =>
              \E r \in DOMAIN rs : \E k \in DOMAIN rs[r] : AiWithHeadroom(rs[r][k]) = Refused
<1> DEFINE q == PreparedAi(rs)
<1>1. /\ DOMAIN rs = 1 .. Len(rs) /\ Len(rs) \in Nat
      /\ \A r \in DOMAIN rs : rs[r] \in Seq(AiPoints) /\ DOMAIN rs[r] = 1 .. Len(rs[r]) /\ Len(rs[r]) \in Nat
      /\ \A r \in DOMAIN rs : \A k \in DOMAIN rs[r] : rs[r][k] \in AiPoints
  OBVIOUS
<1>2. /\ DOMAIN q = DOMAIN rs
      /\ \A r \in DOMAIN rs : /\ DOMAIN q[r] = DOMAIN rs[r]
                              /\ \A k \in DOMAIN rs[r] : q[r][k] = AiWithHeadroom(rs[r][k])
  BY DEF PreparedAi
<1>3. AnyRefused(q) <=> \E r \in DOMAIN rs : \E k \in DOMAIN rs[r] : AiWithHeadroom(rs[r][k]) = Refused
  BY <1>2 DEF AnyRefused, ToSet
<1>4. \A r \in DOMAIN rs : q[r] = [k \in 1 .. Len(rs[r]) |-> AiWithHeadroom(rs[r][k])]
  BY <1>1 DEF PreparedAi
<1>5. q = [r \in 1 .. Len(rs) |-> q[r]]
  BY <1>1 DEF PreparedAi
<1> HIDE DEF q
<1>6. ASSUME ~AnyRefused(q)
      PROVE  /\ q \in Seq(Seq(AiPoints)) /\ Len(q) = Len(rs)
             /\ \A r \in DOMAIN rs : \A k \in DOMAIN rs[r] :
                        /\ AiValid(q[r][k]) /\ q[r][k].index = rs[r][k].index /\ q[r][k].value = rs[r][k].value
  <2>1. ASSUME NEW r \in DOMAIN rs, NEW k \in DOMAIN rs[r]
        PROVE  /\ q[r][k] \in AiPoints /\ AiValid(q[r][k])
               /\ q[r][k].index = rs[r][k].index /\ q[r][k].value = rs[r][k].value
    <3>1. rs[r][k] \in AiPoints /\ AiValid(rs[r][k])
      BY <1>1
    <3>2. q[r][k] = AiWithHeadroom(rs[r][k]) /\ AiWithHeadroom(rs[r][k]) # Refused
      BY <1>2, <1>3, <1>6
    <3>3. QED
      BY <3>1, <3>2, InputHeadroom
  <2>2. ASSUME NEW r \in DOMAIN rs PROVE q[r] \in Seq(AiPoints)
    BY <1>1, <1>2, <1>4, <2>1
  <2>3. q \in Seq(Seq(AiPoints)) /\ Len(q) = Len(rs)
    BY <1>1, <1>5, <2>2
  <2>4. QED
    BY <2>1, <2>3
<1>7. QED
  BY <1>2, <1>3, <1>6 DEF q

\* Outputs stay valid when room is made at their limits, if none is refused.
LEMMA PreparedOutputs ==
  ASSUME NEW rs \in Seq(Seq(AoPoints)),
         \A r \in DOMAIN rs : \A k \in DOMAIN rs[r] : AoValid(rs[r][k])
  PROVE  /\ ~AnyRefused(PreparedAo(rs)) =>
              /\ PreparedAo(rs) \in Seq(Seq(AoPoints)) /\ Len(PreparedAo(rs)) = Len(rs)
              /\ \A r \in DOMAIN PreparedAo(rs) : \A k \in DOMAIN PreparedAo(rs)[r] : AoValid(PreparedAo(rs)[r][k])
         /\ AnyRefused(PreparedAo(rs)) =>
              \E r \in DOMAIN rs : \E k \in DOMAIN rs[r] : AoWithHeadroom(rs[r][k]) = Refused
<1> DEFINE q == PreparedAo(rs)
<1>1. /\ DOMAIN rs = 1 .. Len(rs) /\ Len(rs) \in Nat
      /\ \A r \in DOMAIN rs : rs[r] \in Seq(AoPoints) /\ DOMAIN rs[r] = 1 .. Len(rs[r]) /\ Len(rs[r]) \in Nat
      /\ \A r \in DOMAIN rs : \A k \in DOMAIN rs[r] : rs[r][k] \in AoPoints
  OBVIOUS
<1>2. /\ DOMAIN q = DOMAIN rs
      /\ \A r \in DOMAIN rs : /\ DOMAIN q[r] = DOMAIN rs[r]
                              /\ \A k \in DOMAIN rs[r] : q[r][k] = AoWithHeadroom(rs[r][k])
  BY DEF PreparedAo
<1>3. AnyRefused(q) <=> \E r \in DOMAIN rs : \E k \in DOMAIN rs[r] : AoWithHeadroom(rs[r][k]) = Refused
  BY <1>2 DEF AnyRefused, ToSet
<1>4. \A r \in DOMAIN rs : q[r] = [k \in 1 .. Len(rs[r]) |-> AoWithHeadroom(rs[r][k])]
  BY <1>1 DEF PreparedAo
<1>5. q = [r \in 1 .. Len(rs) |-> q[r]]
  BY <1>1 DEF PreparedAo
<1> HIDE DEF q
<1>6. ASSUME ~AnyRefused(q)
      PROVE  /\ q \in Seq(Seq(AoPoints)) /\ Len(q) = Len(rs)
             /\ \A r \in DOMAIN rs : \A k \in DOMAIN rs[r] : AoValid(q[r][k])
  <2>1. ASSUME NEW r \in DOMAIN rs, NEW k \in DOMAIN rs[r]
        PROVE  q[r][k] \in AoPoints /\ AoValid(q[r][k])
    <3>1. rs[r][k] \in AoPoints /\ AoValid(rs[r][k])
      BY <1>1
    <3>2. q[r][k] = AoWithHeadroom(rs[r][k]) /\ AoWithHeadroom(rs[r][k]) # Refused
      BY <1>2, <1>3, <1>6
    <3>3. QED
      BY <3>1, <3>2, OutputHeadroom
  <2>2. ASSUME NEW r \in DOMAIN rs PROVE q[r] \in Seq(AoPoints)
    <3> DEFINE n == Len(rs[r])
               f(k) == AoWithHeadroom(rs[r][k])
    <3>1. n \in Nat /\ DOMAIN rs[r] = 1 .. n
      BY <1>1, <2>2
    <3>2. \A k \in 1 .. n : f(k) \in AoPoints
      BY <1>2, <2>1, <2>2, <3>1
    <3>3. q[r] = [k \in 1 .. n |-> f(k)]
      BY <1>4, <2>2
    <3> HIDE DEF n, f
    <3>4. QED
      BY <3>1, <3>2, <3>3
  <2>3. q \in Seq(Seq(AoPoints)) /\ Len(q) = Len(rs)
    BY <1>1, <1>5, <2>2
  <2>4. QED
    BY <2>1, <2>3
<1>7. QED
  BY <1>2, <1>3, <1>6 DEF q

AoRecords == Records(AoKinds, AoPoints)

\* What ao_iter goes through are the outputs of the records of all kinds.
LEMMA AllOutputs ==
  ASSUME NEW ao \in AoRecords
  PROVE  /\ Flat(ao, AoKinds) \in Seq(AoPoints)
         /\ \A x : x \in ToSet(Flat(ao, AoKinds)) <=>
              \E kd \in ToSet(AoKinds) : \E r \in DOMAIN ao[kd] : x \in ToSet(ao[kd][r])
<1> DEFINE n == Len(AoKinds)
<1>1. n \in Nat /\ DOMAIN AoKinds = 1 .. n /\ ao \in [ToSet(AoKinds) -> Seq(Seq(AoPoints))]
  BY KindsAre DEF AoRecords, Records
<1> HIDE DEF n
<1>2. QED
  BY <1>1, FlatRange DEF n

\* Only limits have changed, and only outside the records of curves, schedules
\* and equipment.
OnlyLimits(y, x) ==
  /\ Aligned(y, x)
  /\ \A kd \in ToSet(AiKinds) :
       /\ kd # "base" => y[kd] = x[kd]
       /\ \A r \in DOMAIN x[kd] : \A k \in DOMAIN x[kd][r] :
            y[kd][r][k].value = x[kd][r][k].value /\ AiValid(y[kd][r][k])

\* A sound profile stays sound when room is made at the limits of its points
\* and those of curves and schedules keep their scaling.
LEMMA OnlyLimitsIsSound ==
  ASSUME NEW p, Sound(p), NEW y \in AiRecords, OnlyLimits(y, p.ai),
         NEW ao \in AoRecords, \A kd \in ToSet(AoKinds) : \A r \in DOMAIN ao[kd] : \A k \in DOMAIN ao[kd][r] : AoValid(ao[kd][r][k])
  PROVE  Sound([p EXCEPT !.ao = ao, !.ai = y])
<1> DEFINE q == [p EXCEPT !.ao = ao, !.ai = y]
           x == p.ai
<1>1. p \in Profiles /\ x \in AiRecords /\ ProfileValid(p)
  BY DEF Sound, Profiles, AiRecords
<1>2. q \in Profiles /\ q.ai = y /\ q.key = p.key /\ q.ao = ao
  BY <1>1 DEF Profiles, AiRecords, AoRecords
<1> HIDE DEF q
<1>3. SelectorValid(q, ScheduleSelector, "schedule") /\ SelectorValid(q, ScheduleBcSelector, "schedule_bc")
  <2>1. ASSUME NEW s, NEW kd \in ToSet(AiKinds), SelectorValid(p, s, kd)
        PROVE  SelectorValid(q, s, kd)
    <3>1. Has(x, s) => Truncated(AiPoint(p, s).value) <= RoomFor(x[kd])
      BY <1>1, <2>1, SelectorReads
    <3>2. Has(y, s) <=> Has(x, s)
      BY <1>1, SamePlaces DEF OnlyLimits
    <3>3. Has(x, s) => AiPoint(q, s).value = AiPoint(p, s).value
      <4>1. ASSUME Has(x, s) PROVE AiPoint(q, s).value = AiPoint(p, s).value
        <5> DEFINE at == FindAi(x, s)
        <5>1. FindAi(y, s) = at
          BY <1>1, <4>1, SamePlaces DEF OnlyLimits
        <5>2. at[1] \in ToSet(AiKinds) /\ at[2] \in DOMAIN x[at[1]] /\ at[3] \in DOMAIN x[at[1]][at[2]]
          BY <1>1, <4>1, FindsFirst DEF IsPlace
        <5> HIDE DEF at
        <5>3. y[at[1]][at[2]][at[3]].value = x[at[1]][at[2]][at[3]].value
          BY <5>2 DEF OnlyLimits
        <5>4. QED
          BY <1>2, <5>1, <5>3 DEF AiPoint, at
      <4>2. QED
        BY <4>1
    <3>4. RoomFor(y[kd]) = RoomFor(x[kd])
      <4>1. Len(y[kd]) = Len(x[kd])
        <5>1. DOMAIN y[kd] = DOMAIN x[kd] /\ y[kd] \in Seq(Seq(AiPoints)) /\ x[kd] \in Seq(Seq(AiPoints))
          BY <1>1, KindsTyped DEF OnlyLimits, Aligned
        <5>2. QED
          BY <5>1
      <4>2. QED
        BY <4>1 DEF RoomFor
    <3>5. Has(y, s) => Truncated(AiPoint(q, s).value) <= RoomFor(y[kd])
      BY <3>1, <3>2, <3>3, <3>4
    <3>6. QED
      BY <1>2, <3>5, SelectorReads
  <2>2. QED
    BY <1>1, <2>1, KindsAre DEF ProfileValid
<1>4. /\ \A k \in DOMAIN q.ai["curve"] : CurveValid(q.ai["curve"][k])
      /\ \A k \in DOMAIN q.ai["schedule"] : ScheduleValid(q.ai["schedule"][k])
      /\ \A k \in DOMAIN q.ai["meter"] : MeterValid(q.ai["meter"][k])
  <2>1. y["curve"] = x["curve"] /\ y["schedule"] = x["schedule"] /\ y["meter"] = x["meter"]
    BY KindsAre DEF OnlyLimits
  <2>2. QED
    BY <1>1, <1>2, <2>1 DEF ProfileValid
<1>5. \A a \in ToSet(AllAi(q)) : AiValid(a)
  <2>1. TAKE a \in ToSet(AllAi(q))
  <2>2. PICK kd \in ToSet(AiKinds) : \E r \in DOMAIN y[kd] : a \in ToSet(y[kd][r])
    BY <1>2, AllInputs DEF AllAi
  <2>3. PICK r \in DOMAIN y[kd] : a \in ToSet(y[kd][r])
    BY <2>2
  <2>4. PICK k \in DOMAIN y[kd][r] : a = y[kd][r][k]
    BY <2>3 DEF ToSet
  <2>5. QED
    BY <2>4 DEF OnlyLimits, Aligned
<1>6. \A r \in DOMAIN q.ai["base"] : \A i \in Indices(q.ai["base"][r]) : IsBaseAi(q.key, i)
  <2>1. TAKE r \in DOMAIN q.ai["base"]
  <2>2. "base" \in ToSet(AiKinds)
    BY KindsAre
  <2>3. r \in DOMAIN x["base"] /\ Indices(y["base"][r]) = Indices(x["base"][r])
    BY <1>2, <2>2 DEF OnlyLimits, Aligned, Indices
  <2>4. QED
    BY <1>1, <1>2, <2>3 DEF ProfileValid
<1>7. \A o \in ToSet(AllAo(q)) : AoValid(o)
  <2>1. TAKE o \in ToSet(AllAo(q))
  <2>2. PICK kd \in ToSet(AoKinds) : \E r \in DOMAIN ao[kd] : o \in ToSet(ao[kd][r])
    BY <1>2, AllOutputs DEF AllAo
  <2>3. PICK r \in DOMAIN ao[kd] : o \in ToSet(ao[kd][r])
    BY <2>2
  <2>4. PICK k \in DOMAIN ao[kd][r] : o = ao[kd][r][k]
    BY <2>3 DEF ToSet
  <2>5. QED
    BY <2>4
<1>8. ProfileValid(q)
  BY <1>3, <1>4, <1>5, <1>6, <1>7 DEF ProfileValid
<1>9. QED
  BY <1>2, <1>8 DEF Sound, q

\* Making room gives a valid profile, or is refused for one of the points that
\* RoomIsMade names.
NoRoom(p) ==
  \/ \E o \in ToSet(AllAo(p)) : Pinned(o) /\ Inward(o).low > Inward(o).high
  \/ \E a \in ToSet(FlattenSeq(p.ai["base"])) :
       /\ Pinned(a)
       /\ \/ Inward(a).low > Inward(a).high
          \/ a.value < FromTransmitted(Inward(a).low, a.mult, a.off)
          \/ a.value > FromTransmitted(Inward(a).high, a.mult, a.off)

\* prepare_base_profile_for_scenarios of a sound profile gives a sound one, and
\* fails only for a point that has no room.
LEMMA PreparedIsSound ==
  ASSUME NEW p, Sound(p), Refused \notin Profiles, NEW scenarios
  PROVE  /\ PrepareBase(p, scenarios) # Refused => Sound(PrepareBase(p, scenarios))
         /\ PrepareBase(p, scenarios) = Refused => NoRoom(p)
<1> DEFINE x == p.ai
           rs == p.ai["base"]
           ao == [kind \in DOMAIN p.ao |-> PreparedAo(p.ao[kind])]
           inputs == PreparedAi(rs)
           y == [x EXCEPT !["base"] = inputs]
           q == [p EXCEPT !.ao = ao, !.ai = y]
<1>1. /\ p \in Profiles /\ x \in AiRecords /\ p.ao \in AoRecords /\ ProfileValid(p) /\ "base" \in ToSet(AiKinds)
      /\ rs \in Seq(Seq(AiPoints)) /\ Len(rs) = 1
  <2>1. p \in Profiles /\ x \in AiRecords /\ p.ao \in AoRecords /\ ProfileValid(p) /\ "base" \in ToSet(AiKinds)
    BY KindsAre DEF Sound, Profiles, AiRecords, AoRecords
  <2>2. QED
    BY <2>1, KindsTyped
<1>2. p # Refused
  BY <1>1
<1>3. PrepareBase(p, scenarios) =
        IF ~RequiresHeadroom(scenarios) THEN p
        ELSE IF AnyRefused(inputs) \/ \E kind \in DOMAIN ao : AnyRefused(ao[kind]) THEN Refused
        ELSE Validated(q)
  BY DEF PrepareBase
<1>4. \A kd \in ToSet(AiKinds) : \A r \in DOMAIN x[kd] : \A k \in DOMAIN x[kd][r] : AiValid(x[kd][r][k])
  <2>1. TAKE kd \in ToSet(AiKinds)
  <2>2. TAKE r \in DOMAIN x[kd]
  <2>3. TAKE k \in DOMAIN x[kd][r]
  <2>4. x[kd][r][k] \in ToSet(x[kd][r])
    BY DEF ToSet
  <2>5. x[kd][r][k] \in ToSet(AllAi(p))
    BY <1>1, <2>4, AllInputs DEF AllAi
  <2>6. QED
    BY <1>1, <2>5 DEF ProfileValid
<1>5. DOMAIN p.ao = ToSet(AoKinds) /\ \A kd \in ToSet(AoKinds) : p.ao[kd] \in Seq(Seq(AoPoints))
  BY <1>1 DEF AoRecords, Records
<1>6. ASSUME NEW kd \in ToSet(AoKinds), NEW r \in DOMAIN p.ao[kd], NEW k \in DOMAIN p.ao[kd][r]
      PROVE  p.ao[kd][r][k] \in ToSet(AllAo(p)) /\ AoValid(p.ao[kd][r][k]) /\ p.ao[kd][r][k] \in AoPoints
  <2>1. p.ao[kd][r][k] \in ToSet(p.ao[kd][r])
    BY DEF ToSet
  <2>2. p.ao[kd][r][k] \in ToSet(AllAo(p))
    BY <1>1, <2>1, AllOutputs DEF AllAo
  <2>3. p.ao[kd] \in Seq(Seq(AoPoints))
    BY <1>5
  <2>4. p.ao[kd][r] \in Seq(AoPoints)
    BY <2>3
  <2>5. QED
    BY <1>1, <2>2, <2>4 DEF ProfileValid
<1>7. ASSUME AnyRefused(inputs) PROVE NoRoom(p)
  <2>1. PICK r \in DOMAIN rs : \E k \in DOMAIN rs[r] : AiWithHeadroom(rs[r][k]) = Refused
    BY <1>1, <1>4, <1>7, PreparedInputs
  <2>2. PICK k \in DOMAIN rs[r] : AiWithHeadroom(rs[r][k]) = Refused
    BY <2>1
  <2>3. rs[r][k] \in AiPoints /\ AiValid(rs[r][k]) /\ r \in 1 .. Len(rs)
    BY <1>1, <1>4
  <2>4. rs[r][k] \in ToSet(FlattenSeq(rs))
    <3>1. rs[r][k] \in ToSet(rs[r])
      BY DEF ToSet
    <3>2. QED
      BY <1>1, <2>3, <3>1, RangeOfFlat
  <2> DEFINE a == rs[r][k]
  <2>5. /\ Pinned(a)
        /\ \/ Inward(a).low > Inward(a).high
           \/ a.value < FromTransmitted(Inward(a).low, a.mult, a.off)
           \/ a.value > FromTransmitted(Inward(a).high, a.mult, a.off)
    BY <2>2, <2>3, InputHeadroom
  <2>6. QED
    BY <2>4, <2>5 DEF NoRoom
<1>8. ASSUME NEW kd \in DOMAIN ao, AnyRefused(ao[kd]) PROVE NoRoom(p)
  <2>1. kd \in ToSet(AoKinds) /\ ao[kd] = PreparedAo(p.ao[kd]) /\ p.ao[kd] \in Seq(Seq(AoPoints))
    BY <1>5
  <2>2. PICK r \in DOMAIN p.ao[kd] : \E k \in DOMAIN p.ao[kd][r] : AoWithHeadroom(p.ao[kd][r][k]) = Refused
    BY <1>6, <1>8, <2>1, PreparedOutputs
  <2>3. PICK k \in DOMAIN p.ao[kd][r] : AoWithHeadroom(p.ao[kd][r][k]) = Refused
    BY <2>2
  <2>4. Pinned(p.ao[kd][r][k]) /\ Inward(p.ao[kd][r][k]).low > Inward(p.ao[kd][r][k]).high
    BY <1>6, <2>1, <2>3, OutputHeadroom
  <2>5. QED
    BY <1>6, <2>1, <2>4 DEF NoRoom
<1>9. ASSUME ~AnyRefused(inputs), \A kd \in DOMAIN ao : ~AnyRefused(ao[kd]) PROVE Sound(q)
  <2>1. /\ inputs \in Seq(Seq(AiPoints)) /\ Len(inputs) = 1 /\ DOMAIN inputs = DOMAIN rs
        /\ \A r \in DOMAIN rs :
             /\ DOMAIN inputs[r] = DOMAIN rs[r]
             /\ \A k \in DOMAIN rs[r] : /\ AiValid(inputs[r][k])
                                        /\ inputs[r][k].index = rs[r][k].index
                                        /\ inputs[r][k].value = rs[r][k].value
    BY <1>1, <1>4, <1>9, PreparedInputs
  <2> HIDE DEF inputs
  <2>2. /\ y \in AiRecords /\ y["base"] = inputs
        /\ \A other \in ToSet(AiKinds) : other # "base" => y[other] = x[other]
    BY <1>1, <2>1, WithKind
  <2> HIDE DEF y
  <2>3. OnlyLimits(y, x)
    <3>1. ASSUME NEW kd \in ToSet(AiKinds)
          PROVE  /\ DOMAIN y[kd] = DOMAIN x[kd]
                 /\ \A r \in DOMAIN x[kd] :
                      /\ DOMAIN y[kd][r] = DOMAIN x[kd][r]
                      /\ \A k \in DOMAIN x[kd][r] :
                           /\ y[kd][r][k].index = x[kd][r][k].index
                           /\ y[kd][r][k].value = x[kd][r][k].value
                           /\ AiValid(y[kd][r][k])
      <4>1. CASE kd = "base"
        BY <2>1, <2>2, <4>1
      <4>2. CASE kd # "base"
        BY <1>4, <2>2, <4>2
      <4>3. QED
        BY <4>1, <4>2
    <3>2. QED
      BY <2>2, <3>1 DEF OnlyLimits, Aligned
  <2>4. \A kd \in ToSet(AoKinds) :
          /\ ao[kd] = PreparedAo(p.ao[kd]) /\ ~AnyRefused(ao[kd])
          /\ p.ao[kd] \in Seq(Seq(AoPoints))
          /\ \A r \in DOMAIN p.ao[kd] : \A k \in DOMAIN p.ao[kd][r] : AoValid(p.ao[kd][r][k])
    BY <1>5, <1>6, <1>9
  <2>5. DOMAIN ao = ToSet(AoKinds) /\ ao = [kd \in ToSet(AoKinds) |-> ao[kd]]
    BY <1>5
  <2> HIDE DEF ao
  <2>6. \A kd \in ToSet(AoKinds) :
          /\ ao[kd] \in Seq(Seq(AoPoints)) /\ Len(ao[kd]) = Len(p.ao[kd])
          /\ \A r \in DOMAIN ao[kd] : \A k \in DOMAIN ao[kd][r] : AoValid(ao[kd][r][k])
    <3>1. TAKE kd \in ToSet(AoKinds)
    <3>2. QED
      BY <2>4, PreparedOutputs
  <2>7. ao \in AoRecords
    <3>1. "base" \in ToSet(AoKinds) /\ Len(p.ao["base"]) = 1
      BY <1>1, KindsAre DEF AoRecords, Records
    <3>2. QED
      BY <2>5, <2>6, <3>1 DEF AoRecords, Records
  <2> HIDE DEF x
  <2>8. x = p.ai
    BY DEF x
  <2>9. QED
    BY <2>2, <2>3, <2>6, <2>7, <2>8, OnlyLimitsIsSound
<1>10. Sound(q) => Validated(q) # Refused /\ Sound(Validated(q))
  BY DEF Sound, Validated
<1> HIDE DEF q, ao, inputs, y
<1>11. QED
  BY <1>2, <1>3, <1>7, <1>8, <1>9, <1>10

-----------------------------------------------------------------------------
(* What is left of the bundled profile.                                    *)

\* What passes a test, in its order.
LEMMA FlattenPieces ==
  ASSUME NEW S, NEW s \in Seq(S), NEW ss, DOMAIN ss = DOMAIN s, ss \in Seq(Seq(S)),
         \A k \in DOMAIN s : ss[k] = <<s[k]>> \/ ss[k] = <<>>
  PROVE  FlattenSeq(ss) \in Seq(S) /\ ToSet(FlattenSeq(ss)) \subseteq ToSet(s)
<1>1. FlattenSeq(ss) \in Seq(S)
  BY FirstOfFlat
<1>2. ASSUME NEW x \in ToSet(FlattenSeq(ss)) PROVE x \in ToSet(s)
  <2>1. PICK n \in 1 .. Len(ss) : x \in ToSet(ss[n])
    BY RangeOfFlat
  <2>2. n \in DOMAIN s
    OBVIOUS
  <2>3. ss[n] = <<s[n]>>
    BY <2>1, <2>2 DEF ToSet
  <2>4. x = s[n]
    BY <2>1, <2>3 DEF ToSet
  <2>5. QED
    BY <2>2, <2>4 DEF ToSet
<1>3. QED
  BY <1>1, <1>2

\* The points of the bundled profile that the profile does not have.
LEMMA MissingIs ==
  ASSUME NEW S, NEW theirs \in Seq(S), NEW mine
  PROVE  Missing(mine, theirs) \in Seq(S) /\ ToSet(Missing(mine, theirs)) \subseteq ToSet(theirs)
<1> DEFINE ss == [k \in DOMAIN theirs |-> IF ~HasIndex(mine, theirs[k].index) THEN <<theirs[k]>> ELSE <<>>]
<1>1. Missing(mine, theirs) = FlattenSeq(ss)
  BY DEF Missing, Where
<1>2. DOMAIN ss = DOMAIN theirs /\ \A k \in DOMAIN theirs : ss[k] = <<theirs[k]>> \/ ss[k] = <<>>
  OBVIOUS
<1>3. ss \in Seq(Seq(S))
  <2>1. DOMAIN theirs = 1 .. Len(theirs) /\ Len(theirs) \in Nat /\ \A k \in DOMAIN theirs : theirs[k] \in S
    OBVIOUS
  <2>2. \A k \in DOMAIN theirs : (IF ~HasIndex(mine, theirs[k].index) THEN <<theirs[k]>> ELSE <<>>) \in Seq(S)
    BY <2>1
  <2>3. QED
    BY <2>1, <2>2
<1> HIDE DEF ss
<1>4. QED
  BY <1>1, <1>2, <1>3, FlattenPieces

\* The records of the bundled profile that share no point with the profile.
LEMMA DisjointIs ==
  ASSUME NEW S, NEW theirs \in Seq(S), NEW mine
  PROVE  Disjoint(mine, theirs) \in Seq(S) /\ ToSet(Disjoint(mine, theirs)) \subseteq ToSet(theirs)
<1> DEFINE ss == [k \in DOMAIN theirs |->
                    IF Indices(theirs[k]) \cap Indices(FlattenSeq(mine)) = {} THEN <<theirs[k]>> ELSE <<>>]
<1>1. Disjoint(mine, theirs) = FlattenSeq(ss)
  BY DEF Disjoint, Where
<1>2. DOMAIN ss = DOMAIN theirs /\ \A k \in DOMAIN theirs : ss[k] = <<theirs[k]>> \/ ss[k] = <<>>
  OBVIOUS
<1>3. ss \in Seq(Seq(S))
  <2>1. DOMAIN theirs = 1 .. Len(theirs) /\ Len(theirs) \in Nat /\ \A k \in DOMAIN theirs : theirs[k] \in S
    OBVIOUS
  <2>2. \A k \in DOMAIN theirs :
          (IF Indices(theirs[k]) \cap Indices(FlattenSeq(mine)) = {} THEN <<theirs[k]>> ELSE <<>>) \in Seq(S)
    BY <2>1
  <2>3. QED
    BY <2>1, <2>2
<1> HIDE DEF ss
<1>4. QED
  BY <1>1, <1>2, <1>3, FlattenPieces

\* The records of the bundled profile after as many as the profile has.
LEMMA BeyondIs ==
  ASSUME NEW S, NEW theirs \in Seq(S), NEW mine, Len(mine) \in Nat
  PROVE  Beyond(mine, theirs) \in Seq(S) /\ ToSet(Beyond(mine, theirs)) \subseteq ToSet(theirs)
<1> DEFINE m == Len(mine)
           n == Len(theirs)
           s == SubSeq(theirs, m + 1, n)
<1>1. n \in Nat /\ DOMAIN theirs = 1 .. n
  OBVIOUS
<1>2. Beyond(mine, theirs) = s
  BY DEF Beyond
<1>3. CASE m + 1 <= n
  <2>1. s \in Seq(S) /\ Len(s) = n - m /\ \A k \in 1 .. (n - m) : s[k] = theirs[m + k]
    BY <1>1, <1>3
  <2>2. \A k \in DOMAIN s : m + k \in DOMAIN theirs /\ s[k] = theirs[m + k]
    BY <1>1, <2>1
  <2>3. QED
    BY <1>2, <2>1, <2>2 DEF ToSet
<1>4. CASE ~(m + 1 <= n)
  <2>1. s = <<>>
    BY <1>1, <1>4
  <2>2. QED
    BY <1>2, <2>1 DEF ToSet
<1>5. QED
  BY <1>3, <1>4

ComesFrom(rest, theirs, kinds) ==
  \A kd \in ToSet(kinds) : \A r \in DOMAIN rest[kd] :
    \E r2 \in DOMAIN theirs[kd] :
      /\ kd # "base" => rest[kd][r] = theirs[kd][r2]
      /\ ToSet(rest[kd][r]) \subseteq ToSet(theirs[kd][r2])

\* Every record that remains is one of the other profile's; of the base points
\* the ones that are missing remain.
LEMMA RemainingIs ==
  ASSUME NEW S, NEW kinds, "base" \in ToSet(kinds), NEW theirs \in Records(kinds, S), NEW mine \in Records(kinds, S)
  PROVE  /\ Remaining(mine, theirs) \in Records(kinds, S)
         /\ ComesFrom(Remaining(mine, theirs), theirs, kinds)
<1> DEFINE rest == Remaining(mine, theirs)
<1>1. /\ mine \in [ToSet(kinds) -> Seq(Seq(S))] /\ theirs \in [ToSet(kinds) -> Seq(Seq(S))]
      /\ Len(mine["base"]) = 1 /\ Len(theirs["base"]) = 1
  BY DEF Records
<1>2. \A kd \in ToSet(kinds) : theirs[kd] \in Seq(Seq(S)) /\ mine[kd] \in Seq(Seq(S)) /\ Len(mine[kd]) \in Nat
  BY <1>1
<1>3. /\ DOMAIN rest = ToSet(kinds) /\ rest = [kd \in ToSet(kinds) |-> rest[kd]]
      /\ rest["base"] = <<Missing(mine["base"][1], theirs["base"][1])>>
      /\ \A kd \in ToSet(kinds) : kd # "base" => rest[kd] \in {Disjoint(mine[kd], theirs[kd]), Beyond(mine[kd], theirs[kd])}
  BY <1>1 DEF Remaining
<1> HIDE DEF rest
<1>4. theirs["base"][1] \in Seq(S) /\ 1 \in DOMAIN theirs["base"]
  BY <1>1, <1>2
<1>5. /\ Missing(mine["base"][1], theirs["base"][1]) \in Seq(S)
      /\ ToSet(Missing(mine["base"][1], theirs["base"][1])) \subseteq ToSet(theirs["base"][1])
  BY <1>4, MissingIs
<1>6. rest["base"] \in Seq(Seq(S)) /\ Len(rest["base"]) = 1 /\ DOMAIN rest["base"] = {1}
      /\ rest["base"][1] = Missing(mine["base"][1], theirs["base"][1])
  <2> DEFINE m == Missing(mine["base"][1], theirs["base"][1])
  <2>1. m \in Seq(S) /\ rest["base"] = <<m>>
    BY <1>3, <1>5
  <2> HIDE DEF m
  <2>2. QED
    BY <2>1 DEF m
<1>7. ASSUME NEW kd \in ToSet(kinds), kd # "base"
      PROVE  rest[kd] \in Seq(Seq(S)) /\ ToSet(rest[kd]) \subseteq ToSet(theirs[kd])
  <2>1. theirs[kd] \in Seq(Seq(S)) /\ Len(mine[kd]) \in Nat
    BY <1>2
  <2> DEFINE T == Seq(S)
  <2> HIDE DEF T
  <2>2. theirs[kd] \in Seq(T)
    BY <2>1 DEF T
  <2>3. /\ Disjoint(mine[kd], theirs[kd]) \in Seq(T)
        /\ ToSet(Disjoint(mine[kd], theirs[kd])) \subseteq ToSet(theirs[kd])
    BY <2>2, DisjointIs
  <2>4. Beyond(mine[kd], theirs[kd]) \in Seq(T) /\ ToSet(Beyond(mine[kd], theirs[kd])) \subseteq ToSet(theirs[kd])
    BY <2>1, <2>2, BeyondIs
  <2>5. rest[kd] \in {Disjoint(mine[kd], theirs[kd]), Beyond(mine[kd], theirs[kd])}
    BY <1>3, <1>7
  <2>6. QED
    BY <2>3, <2>4, <2>5 DEF T
<1>8. rest \in Records(kinds, S)
  BY <1>3, <1>6, <1>7 DEF Records
<1>9. ASSUME NEW kd \in ToSet(kinds), NEW r \in DOMAIN rest[kd]
      PROVE  \E r2 \in DOMAIN theirs[kd] :
                /\ kd # "base" => rest[kd][r] = theirs[kd][r2]
                /\ ToSet(rest[kd][r]) \subseteq ToSet(theirs[kd][r2])
  <2>1. CASE kd = "base"
    BY <1>4, <1>5, <1>6, <2>1
  <2>2. CASE kd # "base"
    <3>1. rest[kd][r] \in ToSet(theirs[kd])
      BY <1>7, <2>2 DEF ToSet
    <3>2. PICK r2 \in DOMAIN theirs[kd] : rest[kd][r] = theirs[kd][r2]
      BY <3>1 DEF ToSet
    <3>3. QED
      BY <3>2
  <2>3. QED
    BY <2>1, <2>2
<1>10. QED
  BY <1>8, <1>9 DEF rest, ComesFrom

\* The profile of the Unsupported scenario is never refused.
LEMMA UnsupportedIsSound ==
  ASSUME NEW p \in Profiles
  PROVE  Sound(UnsupportedProfile(p, Full))
<1> DEFINE bo == Missing(p.bo, Full.bo)
           bi == Remaining(p.bi, Full.bi)
           ao == Remaining(p.ao, Full.ao)
           ai == Remaining(p.ai, Full.ai)
           q == [key |-> Full.key, bo |-> bo, bi |-> bi, ao |-> ao, ai |-> ai]
           Bo == [index : Int, bi : Association]
           Bi == [index : Int, bo : Association]
<1>1. /\ p.bi \in Records(BiKinds, Bi) /\ p.ao \in AoRecords /\ p.ai \in AiRecords
      /\ Full.key \in Keys /\ Full.bo \in Seq(Bo) /\ Full.bi \in Records(BiKinds, Bi)
      /\ Full.ao \in AoRecords /\ Full.ai \in AiRecords
  BY ProfilesAssumption DEF Profiles, AoRecords, AiRecords
<1>2. "base" \in ToSet(BiKinds) /\ "base" \in ToSet(AoKinds)
      /\ {"base", "curve", "meter", "schedule", "schedule_bc"} \subseteq ToSet(AiKinds)
  BY KindsAre
<1>3. bo \in Seq(Bo)
  <2> HIDE DEF Bo
  <2>1. QED
    BY <1>1, MissingIs
<1>4. bi \in Records(BiKinds, Bi)
  <2> HIDE DEF Bi
  <2>1. QED
    BY <1>1, <1>2, RemainingIs
<1>5. /\ ao \in AoRecords
      /\ \A kd \in ToSet(AoKinds) : \A r \in DOMAIN ao[kd] : \E r2 \in DOMAIN Full.ao[kd] : ToSet(ao[kd][r]) \subseteq ToSet(Full.ao[kd][r2])
  <2>1. p.ao \in Records(AoKinds, AoPoints) /\ Full.ao \in Records(AoKinds, AoPoints)
    BY <1>1 DEF AoRecords
  <2>2. ao \in Records(AoKinds, AoPoints)
    BY <1>2, <2>1, RemainingIs
  <2>3. ComesFrom(ao, Full.ao, AoKinds)
    BY <1>2, <2>1, RemainingIs
  <2> HIDE DEF ao
  <2>4. QED
    BY <2>2, <2>3 DEF AoRecords, ComesFrom
<1>6. /\ ai \in AiRecords
      /\ \A kd \in ToSet(AiKinds) : \A r \in DOMAIN ai[kd] : \E r2 \in DOMAIN Full.ai[kd] :
           /\ kd # "base" => ai[kd][r] = Full.ai[kd][r2]
           /\ ToSet(ai[kd][r]) \subseteq ToSet(Full.ai[kd][r2])
  <2>1. p.ai \in Records(AiKinds, AiPoints) /\ Full.ai \in Records(AiKinds, AiPoints)
    BY <1>1 DEF AiRecords
  <2>2. ai \in Records(AiKinds, AiPoints)
    BY <1>2, <2>1, RemainingIs
  <2>3. ComesFrom(ai, Full.ai, AiKinds)
    BY <1>2, <2>1, RemainingIs
  <2> HIDE DEF ai
  <2>4. QED
    BY <2>2, <2>3 DEF AiRecords, ComesFrom
<1>7. UnsupportedProfile(p, Full) = Validated(q)
  BY DEF UnsupportedProfile
<1> HIDE DEF bo, bi, ao, ai
<1>8. q \in Profiles
  BY <1>1, <1>3, <1>4, <1>5, <1>6 DEF Profiles, AoRecords, AiRecords
<1>9. q.ai = ai /\ q.ao = ao /\ q.key = Full.key
  OBVIOUS
<1> HIDE DEF q
<1>10. ASSUME NEW a \in ToSet(AllAi(q)) PROVE a \in ToSet(AllAi(Full))
  <2>1. PICK kd \in ToSet(AiKinds) : \E r \in DOMAIN ai[kd] : a \in ToSet(ai[kd][r])
    BY <1>6, <1>9, AllInputs DEF AllAi
  <2>2. \E r2 \in DOMAIN Full.ai[kd] : a \in ToSet(Full.ai[kd][r2])
    BY <1>6, <2>1
  <2>3. QED
    BY <1>1, <2>2, AllInputs DEF AllAi
<1>11. ASSUME NEW o \in ToSet(AllAo(q)) PROVE o \in ToSet(AllAo(Full))
  <2>1. PICK kd \in ToSet(AoKinds) : \E r \in DOMAIN ao[kd] : o \in ToSet(ao[kd][r])
    BY <1>5, <1>9, AllOutputs DEF AllAo
  <2>2. \E r2 \in DOMAIN Full.ao[kd] : o \in ToSet(Full.ao[kd][r2])
    BY <1>5, <2>1
  <2>3. QED
    BY <1>1, <2>2, AllOutputs DEF AllAo
<1>12. ProfileValid(q)
  <2>1. ASSUME NEW s \in {ScheduleSelector, ScheduleBcSelector}, NEW kd \in ToSet(AiKinds)
        PROVE  SelectorValid(q, s, kd)
    <3>1. ASSUME Has(ai, s) PROVE Truncated(AiPoint(q, s).value) <= RoomFor(ai[kd])
      <4>1. /\ AiPoint(q, s) \in ToSet(AllAi(q)) /\ AiPoint(q, s).index = s
            /\ Truncated(AiPoint(q, s).value) \in Int
        BY <1>6, <1>9, <3>1, PointTyped
      <4>2. Truncated(AiPoint(q, s).value) <= 1
        BY <1>10, <4>1, ProfilesAssumption
      <4>3. Len(ai[kd]) \in Nat
        BY <1>6, KindsTyped
      <4>4. RoomFor(ai[kd]) \in Int /\ 1 <= RoomFor(ai[kd])
        BY <4>3, MoreRoom
      <4>5. QED
        BY <4>1, <4>2, <4>4
    <3>2. QED
      BY <1>6, <1>9, <3>1, SelectorReads
  <2>2. ProfileValid(Full)
    BY ProfilesAssumption
  <2>3. /\ \A k \in DOMAIN q.ai["curve"] : CurveValid(q.ai["curve"][k])
        /\ \A k \in DOMAIN q.ai["schedule"] : ScheduleValid(q.ai["schedule"][k])
        /\ \A k \in DOMAIN q.ai["meter"] : MeterValid(q.ai["meter"][k])
    BY <1>2, <1>6, <1>9, <2>2 DEF ProfileValid
  <2>4. \A r \in DOMAIN q.ai["base"] : \A i \in Indices(q.ai["base"][r]) : IsBaseAi(q.key, i)
    <3>1. TAKE r \in DOMAIN q.ai["base"]
    <3>2. PICK r2 \in DOMAIN Full.ai["base"] : ToSet(ai["base"][r]) \subseteq ToSet(Full.ai["base"][r2])
      BY <1>2, <1>6, <1>9
    <3>3. Indices(ai["base"][r]) \subseteq Indices(Full.ai["base"][r2])
      BY <3>2 DEF Indices, ToSet
    <3>4. QED
      BY <1>9, <2>2, <3>3 DEF ProfileValid
  <2>5. QED
    BY <1>2, <1>10, <1>11, <2>1, <2>2, <2>3, <2>4 DEF ProfileValid
<1>13. QED
  BY <1>7, <1>8, <1>12 DEF Sound, Validated

-----------------------------------------------------------------------------
(* The type of what the loader makes of a workbook.                        *)

Functions == UNION {[D -> Int] : D \in SUBSET Int}
Pairs == [toAi : Functions, toAo : Functions]

\* A function from numbers to numbers is one of Functions.
LEMMA FunctionIs ==
  ASSUME NEW f, NEW D \in SUBSET Int, f \in [D -> Int]
  PROVE  f \in Functions
BY DEF Functions

\* What an index of points leads to: a point of that index.
LEMMA ByIndexTyped ==
  ASSUME NEW S, NEW ps \in Seq(S)
  PROVE  ByIndex(ps) \in [Indices(ps) -> S] /\ \A i \in Indices(ps) : ByIndex(ps)[i].index = i
<1>1. ASSUME NEW i \in Indices(ps)
      PROVE  LastWith(ps, LAMBDA a : a.index = i) \in S /\ LastWith(ps, LAMBDA a : a.index = i).index = i
  <2> DEFINE I == {k \in 1 .. Len(ps) : ps[k].index = i}
  <2>1. I # {}
    BY DEF Indices
  <2>2. LastWith(ps, LAMBDA a : a.index = i) = ps[IF I # {} THEN Max(I) ELSE 0]
    BY DEF LastWith, SelectLastInSeq
  <2>3. I \in SUBSET (1 .. Len(ps)) /\ \A k \in I : ps[k].index = i
    OBVIOUS
  <2> HIDE DEF I
  <2>4. Max(I) \in I /\ ps[Max(I)] \in S
    BY <2>1, <2>3, LastPlace
  <2>5. QED
    BY <2>1, <2>2, <2>3, <2>4
<1>2. QED
  BY <1>1 DEF ByIndex

\* Outputs, each at its index.
Own(D) == {f \in [D -> AoPoints] : \A i \in D : f[i].index = i}
LEMMA OwnIs ==
  /\ \A D : Own(D) \subseteq [D -> AoPoints]
  /\ \A D, f : f \in Own(D) => \A i \in D : f[i].index = i
  /\ \A ps : ps \in Seq(AoPoints) => ByIndex(ps) \in Own(Indices(ps))
<1>1. ASSUME NEW ps \in Seq(AoPoints) PROVE ByIndex(ps) \in Own(Indices(ps))
  BY ByIndexTyped DEF Own
<1>2. QED
  BY <1>1 DEF Own

\* One more pair.
LEMMA LinkTyped ==
  ASSUME NEW m \in Pairs, NEW ao \in Int, NEW ai \in Int
  PROVE  Link(m, ao, ai) \in Pairs
<1>1. ASSUME NEW f \in Functions, NEW k \in Int, NEW v \in Int PROVE Put(f, k, v) \in Functions
  <2>1. PICK D \in SUBSET Int : f \in [D -> Int]
    BY DEF Functions
  <2>2. Put(f, k, v) \in [D \cup {k} -> Int] /\ D \cup {k} \in SUBSET Int
    BY <2>1 DEF Put
  <2>3. QED
    BY <2>2, FunctionIs
<1>2. QED
  BY <1>1 DEF Link, Pairs

Recovers(m, a) == IF a.index \in DOMAIN m.toAo \/ a.ao \in DOMAIN m.toAi THEN m ELSE Link(m, a.ao, a.index)

\* Recovering pairs from the inputs' side makes pairs.
LEMMA RecoverTyped ==
  ASSUME NEW start \in Pairs, NEW claims \in Seq(AiPoints), \A a \in ToSet(claims) : a.ao \in Int
  PROVE  FoldLeft(Recovers, start, claims) \in Pairs
<1> DEFINE N == Len(claims)
           K == Pairs
           F == [x \in K \X (1 .. N) |-> Recovers(x[1], claims[x[2]])]
           Eq(f) == f = [t \in SUBSET (DOMAIN claims) |->
                           IF t = {} THEN start ELSE LET x == Max(t) IN Recovers(f[t \ {x}], claims[x])]
           it == CHOOSE f : Eq(f)
<1>1. N \in Nat /\ DOMAIN claims = 1 .. N /\ start \in K
      /\ \A n \in 1 .. N : claims[n].index \in Int /\ claims[n].ao \in Int
  <2>1. \A n \in 1 .. N : claims[n] \in AiPoints /\ claims[n] \in ToSet(claims)
    BY DEF ToSet
  <2>2. QED
    BY <2>1 DEF AiPoints
<1>2. FoldLeft(Recovers, start, claims) = it[DOMAIN claims]
  BY DEF FoldLeft, MapThenFoldSet
<1> HIDE DEF it, N
<1>3. F \in [K \X (1 .. N) -> K] /\ \A a \in K, n \in 1 .. N : F[<<a, n>>] = Recovers(a, claims[n])
  <2>1. \A a \in K \X (1 .. N) : Recovers(a[1], claims[a[2]]) \in K
    BY <1>1, LinkTyped DEF Recovers
  <2>2. QED
    BY <2>1
<1> HIDE DEF F, K
<1>4. \E f : Eq(f)
  <2>1. PICK f \in [SUBSET (1 .. N) -> K] : Folds(f, F, start, N)
    BY <1>1, <1>3, FoldExists
  <2>2. ASSUME NEW t \in SUBSET (1 .. N), t # {}
        PROVE  f[t] = Recovers(f[t \ {Max(t)}], claims[Max(t)])
    <3>1. Max(t) \in 1 .. N
      BY <1>1, <2>2, MaxIn
    <3>2. f[t \ {Max(t)}] \in K
      OBVIOUS
    <3>3. f[t] = F[<<f[t \ {Max(t)}], Max(t)>>]
      BY <2>1, <2>2 DEF Folds
    <3>4. QED
      BY <1>3, <3>1, <3>2, <3>3
  <2>3. f[{}] = start
    BY <2>1 DEF Folds
  <2>4. \A t \in SUBSET (1 .. N) : f[t] = IF t = {} THEN start ELSE Recovers(f[t \ {Max(t)}], claims[Max(t)])
    BY <2>2, <2>3
  <2>5. Eq(f)
    BY <1>1, <2>4
  <2> HIDE DEF Eq
  <2>6. QED
    BY <2>5
<1>5. Eq(it)
  <2> HIDE DEF Eq
  <2>1. QED
    BY <1>4 DEF it
<1>6. \A t \in SUBSET (1 .. N) : it[t] = IF t = {} THEN start ELSE Recovers(it[t \ {Max(t)}], claims[Max(t)])
  <2>1. it = [t \in SUBSET (1 .. N) |-> IF t = {} THEN start ELSE Recovers(it[t \ {Max(t)}], claims[Max(t)])]
    BY <1>1, <1>5
  <2>2. QED
    BY <2>1
<1> HIDE DEF Eq
<1>7. ASSUME NEW t \in SUBSET (1 .. N), t # {}, it[t \ {Max(t)}] \in K
      PROVE  it[t] = F[<<it[t \ {Max(t)}], Max(t)>>]
  <2>1. Max(t) \in 1 .. N
    BY <1>1, <1>7, MaxIn
  <2>2. it[t] = Recovers(it[t \ {Max(t)}], claims[Max(t)])
    BY <1>6, <1>7
  <2>3. QED
    BY <1>3, <1>7, <2>1, <2>2
<1>8. it[{}] = start
  BY <1>6
<1>9. Iterates(it, K, start, N, F)
  BY <1>7, <1>8 DEF Iterates
<1>10. it[1 .. N] \in K
  BY <1>1, <1>3, <1>9, FoldWithin
<1>11. QED
  BY <1>1, <1>2, <1>10 DEF K

\* The outputs that name an input, and the pairs they make.
Naming(outputs) == {o \in ToSet(outputs) : o.ai # None}
Explicit(outputs) ==
  [toAi |-> [i \in {o.index : o \in Naming(outputs)} |-> LastWith(outputs, LAMBDA x : x.ai # None /\ x.index = i).ai],
   toAo |-> [i \in {o.ai : o \in Naming(outputs)} |-> LastWith(outputs, LAMBDA x : x.ai = i).index]]
\* The pairs that outputs name themselves (the first pass of ProfileIndex::from_profile).
LEMMA ExplicitTyped ==
  ASSUME NEW outputs \in Seq(AoPoints)
  PROVE  Explicit(outputs) \in Pairs
<1> DEFINE own == Naming(outputs)
           D == {o.index : o \in own}
           E == {o.ai : o \in own}
<1>1. \A o \in own : o \in AoPoints /\ o.index \in Int /\ o.ai \in Int /\ o.ai # None
                     /\ \E k \in 1 .. Len(outputs) : outputs[k] = o
  <2> SUFFICES ASSUME NEW o \in own
               PROVE  /\ o \in AoPoints /\ o.index \in Int /\ o.ai \in Int /\ o.ai # None
                      /\ \E k \in 1 .. Len(outputs) : outputs[k] = o
    OBVIOUS
  <2>1. PICK k \in 1 .. Len(outputs) : outputs[k] = o
    BY DEF ToSet, Naming
  <2>2. o \in AoPoints /\ o.ai # None
    BY <2>1 DEF Naming
  <2>3. o.index \in Int /\ o.ai \in Int
    BY <2>2 DEF AoPoints, Association
  <2>4. QED
    BY <2>1, <2>2, <2>3
<1>2. D \in SUBSET Int /\ E \in SUBSET Int
  BY <1>1
<1>3. ASSUME NEW i \in D PROVE LastWith(outputs, LAMBDA x : x.ai # None /\ x.index = i).ai \in Int
  <2> DEFINE I == {k \in 1 .. Len(outputs) : outputs[k].ai # None /\ outputs[k].index = i}
  <2>1. I # {} /\ I \in SUBSET (1 .. Len(outputs)) /\ \A k \in I : outputs[k].ai # None
    BY <1>1
  <2>2. LastWith(outputs, LAMBDA x : x.ai # None /\ x.index = i) = outputs[IF I # {} THEN Max(I) ELSE 0]
    BY DEF LastWith, SelectLastInSeq
  <2> HIDE DEF I
  <2>3. outputs[Max(I)] \in AoPoints /\ Max(I) \in I
    BY <2>1, LastPlace
  <2>4. outputs[Max(I)].ai \in Int
    BY <2>1, <2>3 DEF AoPoints, Association
  <2>5. QED
    BY <2>1, <2>2, <2>4
<1>4. ASSUME NEW i \in E PROVE LastWith(outputs, LAMBDA x : x.ai = i).index \in Int
  <2> DEFINE I == {k \in 1 .. Len(outputs) : outputs[k].ai = i}
  <2>1. I # {} /\ I \in SUBSET (1 .. Len(outputs))
    BY <1>1
  <2>2. LastWith(outputs, LAMBDA x : x.ai = i) = outputs[IF I # {} THEN Max(I) ELSE 0]
    BY DEF LastWith, SelectLastInSeq
  <2> HIDE DEF I
  <2>3. outputs[Max(I)] \in AoPoints
    BY <2>1, LastPlace
  <2>4. QED
    BY <2>1, <2>2, <2>3 DEF AoPoints
<1>5. [i \in D |-> LastWith(outputs, LAMBDA x : x.ai # None /\ x.index = i).ai] \in Functions
  <2> HIDE DEF D
  <2>1. [i \in D |-> LastWith(outputs, LAMBDA x : x.ai # None /\ x.index = i).ai] \in [D -> Int]
    BY <1>3
  <2>2. QED
    BY <1>2, <2>1, FunctionIs
<1>6. [i \in E |-> LastWith(outputs, LAMBDA x : x.ai = i).index] \in Functions
  <2> HIDE DEF E
  <2>1. [i \in E |-> LastWith(outputs, LAMBDA x : x.ai = i).index] \in [E -> Int]
    BY <1>4
  <2>2. QED
    BY <1>2, <2>1, FunctionIs
<1>7. QED
  BY <1>5, <1>6 DEF Explicit, Pairs

\* The inputs of a record that name one of some outputs that name none.
Claimed(r, silent, taken) == Where(r, LAMBDA a : a.ao \in silent /\ a.index \notin taken)

\* What inputs claim are inputs of the record, and each names an output.
LEMMA ClaimedIs ==
  ASSUME NEW r \in Seq(AiPoints), NEW silent \in SUBSET Int, NEW taken
  PROVE  /\ Claimed(r, silent, taken) \in Seq(AiPoints)
         /\ \A a \in ToSet(Claimed(r, silent, taken)) : a.ao \in Int
<1> DEFINE T == {a \in AiPoints : a.ao \in silent /\ a.index \notin taken}
<1>1. Claimed(r, silent, taken) = FlattenSeq(Inside(r, T))
  <2>1. \A k \in DOMAIN r : r[k] \in AiPoints
    OBVIOUS
  <2>2. [k \in DOMAIN r |-> IF r[k].ao \in silent /\ r[k].index \notin taken THEN <<r[k]>> ELSE <<>>]
          = [k \in DOMAIN r |-> IF r[k] \in T THEN <<r[k]>> ELSE <<>>]
    BY <2>1
  <2>3. QED
    BY <2>2 DEF Claimed, Where, Inside
<1>2. \A a \in T : a.ao \in Int
  OBVIOUS
<1> HIDE DEF T
<1>3. QED
  BY <1>1, <1>2, InsideIs

\* Which output goes with which input: numbers of points.
LEMMA PairsTyped ==
  ASSUME NEW p, p.ao \in Records(AoKinds, AoPoints), p.ai \in AiRecords
  PROVE  AnalogPairs(p) \in Pairs
<1> DEFINE outputs == AllAo(p)
           explicit == Explicit(outputs)
           silent == {o.index : o \in ToSet(outputs)} \ {o.index : o \in Naming(outputs)}
           taken == DOMAIN explicit.toAo
           claimed == [kind \in DOMAIN p.ai |-> [r \in DOMAIN p.ai[kind] |-> Claimed(p.ai[kind][r], silent, taken)]]
           claims == Flat(claimed, AiKinds)
<1>1. outputs \in Seq(AoPoints)
  <2>1. p.ao \in [ToSet(AoKinds) -> Seq(Seq(AoPoints))]
    BY DEF Records
  <2>2. Len(AoKinds) \in Nat /\ DOMAIN AoKinds = 1 .. Len(AoKinds)
    BY KindsAre
  <2>3. QED
    BY <2>1, <2>2, FlatRange DEF AllAo
<1>2. AnalogPairs(p) = FoldLeft(Recovers, explicit, claims)
  BY DEF AnalogPairs, Explicit, Naming, Claimed, Recovers, FoldLeft, MapThenFoldSet
<1> HIDE DEF outputs
<1>3. explicit \in Pairs
  BY <1>1, ExplicitTyped
<1>4. silent \in SUBSET Int
  <2>1. \A o \in ToSet(outputs) : o \in AoPoints
    BY <1>1 DEF ToSet
  <2>2. \A o \in ToSet(outputs) : o.index \in Int
    BY <2>1 DEF AoPoints
  <2>3. QED
    BY <2>2
<1> HIDE DEF silent, explicit, taken
<1>5. /\ DOMAIN p.ai = ToSet(AiKinds)
      /\ \A kind \in ToSet(AiKinds) : /\ p.ai[kind] \in Seq(Seq(AiPoints))
                                      /\ \A r \in DOMAIN p.ai[kind] : p.ai[kind][r] \in Seq(AiPoints)
  BY KindsTyped
<1>6. \A kind \in ToSet(AiKinds) : \A r \in DOMAIN p.ai[kind] :
        /\ Claimed(p.ai[kind][r], silent, taken) \in Seq(AiPoints)
        /\ \A a \in ToSet(Claimed(p.ai[kind][r], silent, taken)) : a.ao \in Int
  BY <1>4, <1>5, ClaimedIs
<1>7. claimed \in [ToSet(AiKinds) -> Seq(Seq(AiPoints))]
  <2>1. \A kind \in ToSet(AiKinds) : claimed[kind] = [r \in DOMAIN p.ai[kind] |-> Claimed(p.ai[kind][r], silent, taken)]
    BY <1>5
  <2>2. ASSUME NEW kind \in ToSet(AiKinds)
        PROVE  [r \in DOMAIN p.ai[kind] |-> Claimed(p.ai[kind][r], silent, taken)] \in Seq(Seq(AiPoints))
    <3>1. DOMAIN p.ai[kind] = 1 .. Len(p.ai[kind]) /\ Len(p.ai[kind]) \in Nat
      BY <1>5
    <3>2. QED
      BY <1>6, <3>1
  <2>3. QED
    BY <1>5, <2>1, <2>2
<1>8. \A kind \in ToSet(AiKinds) : \A r \in DOMAIN claimed[kind] : \A a \in ToSet(claimed[kind][r]) : a.ao \in Int
  BY <1>5, <1>6
<1> HIDE DEF claimed
<1>9. claims \in Seq(AiPoints) /\ \A a \in ToSet(claims) : a.ao \in Int
  <2>1. Len(AiKinds) \in Nat /\ DOMAIN AiKinds = 1 .. Len(AiKinds)
    BY KindsAre
  <2>2. claims \in Seq(AiPoints)
    BY <1>7, <2>1, FlatRange
  <2>3. \A x : x \in ToSet(claims) <=>
              \E kd \in ToSet(AiKinds) : \E r \in DOMAIN claimed[kd] : x \in ToSet(claimed[kd][r])
    BY <1>7, <2>1, FlatRange
  <2>4. QED
    BY <1>8, <2>2, <2>3
<1> HIDE DEF claims
<1>10. FoldLeft(Recovers, explicit, claims) \in Pairs
  BY <1>3, <1>9, RecoverTyped
<1>11. QED
  BY <1>2, <1>10

\* The slots of a record fill its columns.
LEMMA ColumnTyped ==
  ASSUME NEW S, NEW r \in Seq(S), NEW h \in Nat, NEW n \in {2, 4}, NEW c \in 1 .. n, h <= Len(r)
  PROVE  /\ Slots(r, h, n) \in Nat /\ h + n * Slots(r, h, n) <= Len(r)
         /\ Column(r, h, n, c) \in Seq(S) /\ Len(Column(r, h, n, c)) = Slots(r, h, n)
<1> DEFINE q == Slots(r, h, n)
           low == h + (c - 1) * q + 1
           high == h + c * q
<1>1. Len(r) \in Nat
  OBVIOUS
<1>2. q \in Nat /\ h + n * q <= Len(r)
  <2>1. CASE n = 2
    <3>1. q = (Len(r) - h) \div 2
      BY <2>1 DEF Slots
    <3>2. QED
      BY <1>1, <2>1, <3>1
  <2>2. CASE n = 4
    <3>1. q = (Len(r) - h) \div 4
      BY <2>2 DEF Slots
    <3>2. QED
      BY <1>1, <2>2, <3>1
  <2>3. QED
    BY <2>1, <2>2
<1> HIDE DEF q
<1>3. low \in Int /\ high \in Int /\ 1 <= low /\ high <= Len(r) /\ high - low + 1 = q
  <2>1. CASE n = 2
    <3>1. c = 1 \/ c = 2
      BY <2>1
    <3>2. QED
      BY <1>1, <1>2, <2>1, <3>1
  <2>2. CASE n = 4
    <3>1. c = 1 \/ c = 2 \/ c = 3 \/ c = 4
      BY <2>2
    <3>2. QED
      BY <1>1, <1>2, <2>2, <3>1
  <2>3. QED
    BY <2>1, <2>2
<1> HIDE DEF low, high
<1>4. SubSeq(r, low, high) \in Seq(S) /\ Len(SubSeq(r, low, high)) = q
  BY <1>2, <1>3, PartIs
<1>5. Column(r, h, n, c) = SubSeq(r, low, high)
  BY DEF Column, low, high, q
<1>6. QED
  BY <1>2, <1>4, <1>5 DEF q

IsScaling(s) == s[1] \in I32 /\ s[2] \in I32 /\ s[3] \in Int

\* The limits a unit gives fit into 32 bits.
LEMMA UnitScaling ==
  ASSUME NEW u
  PROVE  /\ XScaling(u) = None \/ IsScaling(XScaling(u))
         /\ YScaling(u) = None \/ IsScaling(YScaling(u))
<1>1. \A n \in -5000 .. 10000 : n \in I32
  BY WidthAssumption, ScalingAssumption DEF I32
<1>2. MinI32 \in I32 /\ MaxI32 \in I32 /\ MinI32 \in Int
  BY WidthAssumption DEF I32
<1>3. \A n \in {0, -5000, 5000, 7000, 10000, 1000, -1000, 700, -700, 100, -100} : n \in I32
  BY <1>1
<1>4. QED
  BY <1>2, <1>3 DEF XScaling, YScaling, IsScaling

\* A point, or the unwinding of the thread that made it.
Scaled == AiPoints \cup {Panic}

\* A point with another scaling is a point, or the .expect of
\* with_generated_scaling unwinds.
LEMMA WithScalingTyped ==
  ASSUME NEW p \in AiPoints, NEW s, IsScaling(s), NEW off \in Int
  PROVE  WithScaling(p, s, off) \in Scaled
<1> DEFINE q == [p EXCEPT !.min = s[1], !.max = s[2], !.mult = s[3], !.off = off]
<1>1. q \in AiPoints
  BY DEF AiPoints, IsScaling
<1>2. WithScaling(p, s, off) \in {Panic, q}
  BY DEF WithScaling, AiNew, Validly
<1>3. QED
  BY <1>1, <1>2 DEF Scaled

\* The same of all values of a curve.
LEMMA RescaledTyped ==
  ASSUME NEW ps \in Seq(AiPoints), NEW s, s = None \/ IsScaling(s)
  PROVE  Rescaled(ps, s) \in Seq(Scaled) /\ Len(Rescaled(ps, s)) = Len(ps)
<1>1. CASE s = None
  BY <1>1 DEF Rescaled, Scaled
<1>2. CASE s # None
  <2>1. \A k \in DOMAIN ps : WithScaling(ps[k], s, 0) \in Scaled
    BY <1>2, WithScalingTyped
  <2>2. Rescaled(ps, s) = [k \in 1 .. Len(ps) |-> WithScaling(ps[k], s, 0)]
    BY <1>2 DEF Rescaled
  <2>3. QED
    BY <2>1, <2>2
<1>3. QED
  BY <1>1, <1>2

\* Where nothing unwound there are points.
LEMMA NonePanics ==
  ASSUME NEW s \in Seq(Scaled), Panic \notin ToSet(s)
  PROVE  s \in Seq(AiPoints)
<1>1. \A k \in 1 .. Len(s) : s[k] \in Scaled /\ s[k] # Panic
  BY DEF ToSet
<1>2. QED
  BY <1>1 DEF Scaled

Long(h) == {s \in Seq(AiPoints) : Len(s) >= h}

\* Points that need no scaling are as good as scaled ones.
LEMMA PointsAreScaled ==
  ASSUME NEW s \in Seq(AiPoints)
  PROVE  s \in Seq(Scaled)
BY DEF Scaled

\* A curve whose points have the scaling of its units.
LEMMA CurveScaledTyped ==
  ASSUME NEW c \in Long(4)
  PROVE  /\ CurveScaled(c) \in Seq(Scaled) /\ Len(CurveScaled(c)) >= 4
         /\ Panic \notin ToSet(CurveScaled(c)) => CurveScaled(c) \in Long(4)
<1> DEFINE head == SubSeq(c, 1, 4)
           xs == Rescaled(Xs(c), XScaling(Code(c[3].value, XUnits, 0)))
           ys == Rescaled(Ys(c), YScaling(Code(c[4].value, YUnits, 0)))
<1>1. c \in Seq(AiPoints) /\ Len(c) >= 4
  BY DEF Long
<1>2. head \in Seq(AiPoints) /\ Len(head) = 4
  BY <1>1, PartIs
<1>3. Xs(c) \in Seq(AiPoints) /\ Ys(c) \in Seq(AiPoints)
  BY <1>1, ColumnTyped DEF Xs, Ys
<1>4. xs \in Seq(Scaled) /\ ys \in Seq(Scaled)
  BY <1>3, RescaledTyped, UnitScaling
<1>5. CurveScaled(c) = head \o xs \o ys
  BY DEF CurveScaled
<1> HIDE DEF head, xs, ys
<1>6. head \in Seq(Scaled)
  BY <1>2, PointsAreScaled
<1>7. head \o xs \in Seq(Scaled) /\ Len(head \o xs) >= 4 /\ Len(head \o xs) \in Nat
  <2>1. /\ head \o xs \in Seq(Scaled) /\ Len(head) \in Nat /\ Len(xs) \in Nat
        /\ Len(head \o xs) = Len(head) + Len(xs)
    BY <1>4, <1>6, ConcatParts
  <2>2. QED
    BY <1>2, <2>1
<1>8. CurveScaled(c) \in Seq(Scaled) /\ Len(CurveScaled(c)) >= 4
  <2> DEFINE both == head \o xs
  <2> HIDE DEF both
  <2>1. both \in Seq(Scaled) /\ Len(both) >= 4 /\ Len(both) \in Nat
    BY <1>7 DEF both
  <2>2. both \o ys \in Seq(Scaled) /\ Len(ys) \in Nat /\ Len(both \o ys) = Len(both) + Len(ys)
    BY <1>4, <2>1, ConcatParts
  <2>3. QED
    BY <1>5, <2>1, <2>2 DEF both
<1>9. QED
  BY <1>8, NonePanics DEF Long

\* Outputs that take the scaling of a curve's points.
LEMMA OutputsTakeScaling ==
  ASSUME NEW D, NEW outputs \in [D -> AoPoints], \A o \in D : outputs[o].index = o, NEW toAo, NEW c \in Long(4)
  PROVE  /\ OutputsScaled(outputs, toAo, c) \in [D -> AoPoints]
         /\ \A o \in D : OutputsScaled(outputs, toAo, c)[o].index = o
<1> DEFINE points == Xs(c) \o Ys(c)
<1>1. points \in Seq(AiPoints)
  <2>1. c \in Seq(AiPoints) /\ 4 <= Len(c)
    BY DEF Long
  <2>2. Xs(c) \in Seq(AiPoints) /\ Ys(c) \in Seq(AiPoints)
    BY <2>1, ColumnTyped DEF Xs, Ys
  <2>3. QED
    BY <2>2
<1>2. ASSUME NEW o \in D
      PROVE  OutputsScaled(outputs, toAo, c)[o] \in AoPoints /\ OutputsScaled(outputs, toAo, c)[o].index = o
  <2> DEFINE I == {k \in 1 .. Len(points) : points[k].index \in DOMAIN toAo /\ toAo[points[k].index] = o}
             last == IF I # {} THEN Max(I) ELSE 0
             a == points[last]
  <2>1. OutputsScaled(outputs, toAo, c)[o] =
          IF last = 0 THEN outputs[o]
          ELSE [outputs[o] EXCEPT !.min = a.min, !.max = a.max, !.mult = a.mult, !.off = a.off]
    BY DEF OutputsScaled, SelectLastInSeq
  <2>2. I \in SUBSET (1 .. Len(points))
    OBVIOUS
  <2> HIDE DEF I, points
  <2>3. last # 0 => a \in AiPoints
    BY <1>1, <2>2, LastPlace
  <2> HIDE DEF last
  <2>4. outputs[o] \in AoPoints /\ outputs[o].index = o
    OBVIOUS
  <2> DEFINE b == outputs[o]
             new == [b EXCEPT !.min = a.min, !.max = a.max, !.mult = a.mult, !.off = a.off]
  <2>5. last # 0 => new \in AoPoints /\ new.index = o
    <3> HIDE DEF a, b
    <3>1. b \in AoPoints /\ b.index = o /\ (last # 0 => a \in AiPoints)
      BY <2>3, <2>4 DEF b
    <3>2. QED
      BY <3>1 DEF AoPoints, AiPoints
  <2> HIDE DEF new, a
  <2>6. QED
    BY <2>1, <2>4, <2>5 DEF new
<1>3. QED
  BY <1>2 DEF OutputsScaled

LEMMA OutputsScaledTyped ==
  ASSUME NEW D, NEW outputs \in Own(D), NEW toAo, NEW c \in Long(4)
  PROVE  OutputsScaled(outputs, toAo, c) \in Own(D)
<1>1. outputs \in [D -> AoPoints] /\ \A o \in D : outputs[o].index = o
  BY OwnIs
<1>2. /\ OutputsScaled(outputs, toAo, c) \in [D -> AoPoints]
      /\ \A o \in D : OutputsScaled(outputs, toAo, c)[o].index = o
  BY <1>1, OutputsTakeScaling
<1>3. QED
  BY <1>2 DEF Own

\* The scaling of an output can be given to a point.
LEMMA OutputScaling ==
  ASSUME NEW o \in AoPoints
  PROVE  IsScaling(ScalingOf(o)) /\ o.off \in Int
BY DEF AoPoints, IsScaling, ScalingOf

\* A schedule whose steps have the scaling of what they write.
LEMMA ScheduleScaledTyped ==
  ASSUME NEW s \in Long(11), NEW D, NEW outputs \in [D -> AoPoints]
  PROVE  /\ ScheduleScaled(s, outputs) \in Seq(Scaled) /\ Len(ScheduleScaled(s, outputs)) >= 11
         /\ Panic \notin ToSet(ScheduleScaled(s, outputs)) => ScheduleScaled(s, outputs) \in Long(11)
<1> DEFINE types == ActionTypes(s)
           values == StepValues(s)
           n == 11 + 3 * Len(types)
           o(k) == ActionIndexes(s)[k].value \div Unit
           scaled(k) == IF types[k].value = AoAction /\ Whole(ActionIndexes(s)[k].value) /\ o(k) \in DOMAIN outputs
                        THEN WithScaling(values[k], ScalingOf(outputs[o(k)]), outputs[o(k)].off)
                        ELSE values[k]
           steps == [k \in DOMAIN types |-> scaled(k)]
<1>1. s \in Seq(AiPoints) /\ 11 <= Len(s) /\ Len(s) \in Nat
  BY DEF Long
<1>2. /\ Slots(s, 11, 4) \in Nat /\ 11 + 4 * Slots(s, 11, 4) <= Len(s)
      /\ types \in Seq(AiPoints) /\ Len(types) = Slots(s, 11, 4)
      /\ values \in Seq(AiPoints) /\ Len(values) = Slots(s, 11, 4)
  BY <1>1, ColumnTyped DEF ActionTypes, StepValues
<1>3. ScheduleScaled(s, outputs) = SubSeq(s, 1, n) \o steps
  BY DEF ScheduleScaled
<1>4. SubSeq(s, 1, n) \in Seq(AiPoints) /\ Len(SubSeq(s, 1, n)) >= 11
  <2>1. n \in Int /\ n >= 11 /\ n <= Len(s) /\ 1 <= n + 1
    BY <1>1, <1>2
  <2> HIDE DEF n
  <2>2. QED
    BY <1>1, <2>1, PartIs
<1> HIDE DEF types, values, n
<1>5. \A k \in 1 .. Len(types) : scaled(k) \in Scaled
  <2> SUFFICES ASSUME NEW k \in 1 .. Len(types) PROVE scaled(k) \in Scaled
    OBVIOUS
  <2>1. values[k] \in AiPoints
    BY <1>2
  <2> DEFINE w == o(k)
  <2>2. ASSUME w \in D PROVE WithScaling(values[k], ScalingOf(outputs[w]), outputs[w].off) \in Scaled
    BY <2>1, <2>2, OutputScaling, WithScalingTyped
  <2> HIDE DEF w
  <2>3. scaled(k) \in {values[k]} \/ (w \in D /\ scaled(k) = WithScaling(values[k], ScalingOf(outputs[w]), outputs[w].off))
    BY DEF w
  <2>4. QED
    BY <2>1, <2>2, <2>3 DEF Scaled
<1>6. steps \in Seq(Scaled)
  <2>1. DOMAIN types = 1 .. Len(types) /\ Len(types) \in Nat
    BY <1>2
  <2> HIDE DEF scaled
  <2>2. QED
    BY <1>5, <2>1
<1> HIDE DEF steps
<1>7. SubSeq(s, 1, n) \in Seq(Scaled)
  BY <1>4, PointsAreScaled
<1>8. ScheduleScaled(s, outputs) \in Seq(Scaled) /\ Len(ScheduleScaled(s, outputs)) >= 11
  BY <1>3, <1>4, <1>6, <1>7, Followed
<1>9. QED
  BY <1>8, NonePanics DEF Long

\* A value that is given to a point, if it takes it.
LEMMA QuietlyTyped ==
  ASSUME NEW p \in AiPoints, NEW v \in Int
  PROVE  Quietly(p, v) \in AiPoints
<1>1. [p EXCEPT !.value = v] \in AiPoints
  BY DEF AiPoints
<1>2. Quietly(p, v) \in {p, [p EXCEPT !.value = v]}
  BY DEF Quietly, SetValue, Validly
<1>3. QED
  BY <1>1, <1>2

\* Clones have the type of what is cloned, and whether a value was refused is
\* known (clone_point_with_value).
LEMMA ClonedTyped ==
  ASSUME NEW ps \in Seq(AiPoints), NEW values \in Seq(Int), Len(values) <= Len(ps)
  PROVE  /\ Cloned(ps, values) \in Seq(AiPoints) /\ Len(Cloned(ps, values)) = Len(values)
         /\ Unset(ps, values) \in BOOLEAN
<1>1. \A k \in 1 .. Len(values) : Quietly(ps[k], values[k]) \in AiPoints
  <2> TAKE k \in 1 .. Len(values)
  <2>1. ps[k] \in AiPoints /\ values[k] \in Int
    OBVIOUS
  <2>2. QED
    BY <2>1, QuietlyTyped
<1>2. Cloned(ps, values) = [k \in 1 .. Len(values) |-> Quietly(ps[k], values[k])] /\ Len(values) \in Nat
  BY DEF Cloned
<1>3. QED
  BY <1>1, <1>2 DEF Unset

\* An entry whose status and validation are reset keeps its length.
LEMMA DisabledTyped ==
  ASSUME NEW h \in Nat, NEW r \in Long(h), NEW i \in 1 .. h, NEW j \in 1 .. h, i # j
  PROVE  Disabled(r, i, j) \in Long(h)
<1>1. r \in Seq(AiPoints) /\ Len(r) >= h /\ Len(r) \in Nat /\ DOMAIN r = 1 .. Len(r)
  BY DEF Long
<1> DEFINE q == Disabled(r, i, j)
<1>2. /\ q = [k \in 1 .. Len(r) |-> IF k = i THEN Quietly(r[i], Unit)
                                     ELSE IF k = j THEN Quietly(r[j], Unit) ELSE r[k]]
  BY <1>1 DEF Disabled
<1>3. \A k \in 1 .. Len(r) : r[k] \in AiPoints /\ Quietly(r[k], Unit) \in AiPoints
  <2> TAKE k \in 1 .. Len(r)
  <2>1. r[k] \in AiPoints /\ Unit \in Int
    BY <1>1 DEF Unit
  <2>2. QED
    BY <2>1, QuietlyTyped
<1>4. i \in 1 .. Len(r) /\ j \in 1 .. Len(r)
  BY <1>1
<1> HIDE DEF q
<1>5. q \in Seq(AiPoints) /\ Len(q) = Len(r)
  BY <1>1, <1>2, <1>3, <1>4
<1>6. QED
  BY <1>1, <1>5 DEF Long, q

\* A status that gets its default stays a point.
LEMMA StatusTyped ==
  ASSUME NEW key, NEW p \in AiPoints
  PROVE  StatusDefault(key, p) \in AiPoints
<1>1. Quietly(p, Unit) \in AiPoints /\ Quietly(p, 2 * Unit) \in AiPoints
  BY QuietlyTyped DEF Unit
<1>2. StatusDefault(key, p) \in {p, Quietly(p, Unit), Quietly(p, 2 * Unit)}
  BY DEF StatusDefault
<1>3. QED
  BY <1>1, <1>2

\* A record that has its header.
LEMMA EntryTyped ==
  ASSUME NEW ps \in Seq(AiPoints), NEW h \in Nat, NEW n \in {2, 4}
  PROVE  Entry(ps, h, n) \in Seq(Long(h))
<1> DEFINE slots == Slots(ps, h, n)
           column(c) == [k \in 1 .. slots |-> ps[h + (k - 1) * n + c]]
           columns == [c \in 1 .. n |-> column(c)]
           entry == SubSeq(ps, 1, h) \o FlattenSeq(columns)
<1>1. Entry(ps, h, n) = IF Len(ps) < h THEN <<>> ELSE <<entry>>
  BY DEF Entry, Slots
<1>2. CASE Len(ps) < h
  <2>1. Entry(ps, h, n) = <<>>
    BY <1>1, <1>2
  <2>2. QED
    BY <2>1
<1>3. CASE ~(Len(ps) < h)
  <2>0. Len(ps) \in Nat /\ h <= Len(ps) /\ 1 \in 1 .. n
    BY <1>3
  <2>1. slots \in Nat /\ h + n * slots <= Len(ps)
    BY <2>0, ColumnTyped
  <2> HIDE DEF slots
  <2>2. \A c \in 1 .. n : \A k \in 1 .. slots : ps[h + (k - 1) * n + c] \in AiPoints
    <3> SUFFICES ASSUME NEW c \in 1 .. n, NEW k \in 1 .. slots PROVE ps[h + (k - 1) * n + c] \in AiPoints
      OBVIOUS
    <3>1. h + (k - 1) * n + c \in 1 .. Len(ps)
      <4>1. CASE n = 2
        BY <2>0, <2>1, <4>1
      <4>2. CASE n = 4
        BY <2>0, <2>1, <4>2
      <4>3. QED
        BY <4>1, <4>2
    <3>2. QED
      BY <3>1
  <2>3. \A c \in 1 .. n : column(c) \in Seq(AiPoints)
    BY <2>1, <2>2
  <2>4. columns \in Seq(Seq(AiPoints))
    <3>1. n \in Nat
      OBVIOUS
    <3> HIDE DEF column
    <3>2. QED
      BY <2>3, <3>1
  <2> HIDE DEF columns
  <2>5. FlattenSeq(columns) \in Seq(AiPoints)
    BY <2>4, FirstOfFlat
  <2>6. SubSeq(ps, 1, h) \in Seq(AiPoints) /\ Len(SubSeq(ps, 1, h)) = h
    <3>1. h \in Int /\ 1 <= h + 1
      OBVIOUS
    <3>2. QED
      BY <2>0, <3>1, PartIs
  <2>7. entry \in Seq(AiPoints) /\ Len(entry) >= h
    BY <2>5, <2>6, Followed
  <2> HIDE DEF entry
  <2>8. entry \in Long(h)
    BY <2>7 DEF Long
  <2>9. Entry(ps, h, n) = <<entry>>
    BY <1>1, <1>3
  <2>10. QED
    BY <2>8, <2>9
<1>4. QED
  BY <1>2, <1>3

\* The instances of the right size.
LEMMA EquipmentTyped ==
  ASSUME NEW S, NEW ps \in Seq(S), NEW size
  PROVE  Equipment(ps, size).records \in Seq(Seq(S)) /\ Equipment(ps, size).err \in BOOLEAN
<1> DEFINE gs == Instances(ps)
           T == {g \in Seq(S) : Len(g) = size}
<1>1. gs \in Seq(Seq(S))
  BY InstancesCover
<1>2. Equipment(ps, size).records = Where(gs, LAMBDA g : Len(g) = size) /\ Equipment(ps, size).err \in BOOLEAN
  BY DEF Equipment
<1> HIDE DEF gs
<1>3. Where(gs, LAMBDA g : Len(g) = size) = FlattenSeq(Inside(gs, T))
  <2>1. \A k \in DOMAIN gs : gs[k] \in Seq(S)
    BY <1>1
  <2>2. [k \in DOMAIN gs |-> IF Len(gs[k]) = size THEN <<gs[k]>> ELSE <<>>]
          = [k \in DOMAIN gs |-> IF gs[k] \in T THEN <<gs[k]>> ELSE <<>>]
    BY <2>1
  <2>3. QED
    BY <2>2 DEF Where, Inside
<1> HIDE DEF T
<1>4. FlattenSeq(Inside(gs, T)) \in Seq(Seq(S))
  BY <1>1, InsideIs
<1>5. QED
  BY <1>2, <1>3, <1>4

\* The points of a kind.
OfBi(key, ps, kind) == Where(ps, LAMBDA p : BiKindOf(key, p.index) = kind)
OfAo(key, ps, kind) == Where(ps, LAMBDA p : AoKindOf(key, p.index) = kind)

\* The binary inputs and analog outputs of a kind are among those of the sheet.
LEMMA OfBiAoTyped ==
  ASSUME NEW S, NEW ps \in Seq(S), NEW key, NEW kind
  PROVE  /\ OfBi(key, ps, kind) \in Seq(S) /\ OfAo(key, ps, kind) \in Seq(S)
         /\ \A x \in ToSet(ps) : BiKindOf(key, x.index) = kind => x \in ToSet(OfBi(key, ps, kind))
         /\ \A x \in ToSet(ps) : AoKindOf(key, x.index) = kind => x \in ToSet(OfAo(key, ps, kind))
<1> DEFINE T == {p \in S : BiKindOf(key, p.index) = kind}
           U == {p \in S : AoKindOf(key, p.index) = kind}
<1>1. \A k \in DOMAIN ps : ps[k] \in S
  OBVIOUS
<1>2. OfBi(key, ps, kind) = FlattenSeq(Inside(ps, T))
  <2>1. [k \in DOMAIN ps |-> IF BiKindOf(key, ps[k].index) = kind THEN <<ps[k]>> ELSE <<>>]
          = [k \in DOMAIN ps |-> IF ps[k] \in T THEN <<ps[k]>> ELSE <<>>]
    BY <1>1
  <2>2. QED
    BY <2>1 DEF OfBi, Where, Inside
<1>3. OfAo(key, ps, kind) = FlattenSeq(Inside(ps, U))
  <2>1. [k \in DOMAIN ps |-> IF AoKindOf(key, ps[k].index) = kind THEN <<ps[k]>> ELSE <<>>]
          = [k \in DOMAIN ps |-> IF ps[k] \in U THEN <<ps[k]>> ELSE <<>>]
    BY <1>1
  <2>2. QED
    BY <2>1 DEF OfAo, Where, Inside
<1>5. \A x \in ToSet(ps) : (BiKindOf(key, x.index) = kind => x \in T) /\ (AoKindOf(key, x.index) = kind => x \in U)
  BY <1>1 DEF ToSet
<1> HIDE DEF T, U
<1>6. /\ FlattenSeq(Inside(ps, T)) \in Seq(S) /\ ToSet(FlattenSeq(Inside(ps, T))) = ToSet(ps) \cap T
      /\ FlattenSeq(Inside(ps, U)) \in Seq(S) /\ ToSet(FlattenSeq(Inside(ps, U))) = ToSet(ps) \cap U
  BY InsideIs
<1>4. QED
  BY <1>2, <1>3, <1>5, <1>6

\* Binary inputs and outputs, sorted.
LEMMA BiSorted ==
  ASSUME NEW S, NEW ps \in Seq(S), NEW key
  PROVE  ReclassifyBi(key, ps).records \in Records(BiKinds, S)
<1> DEFINE plain == OfBi(key, ps, "base")
           units(kind) == Equipment(OfBi(key, ps, kind), BiSize[kind]).records
           R == ReclassifyBi(key, ps).records
<1>1. R = [base |-> <<plain>>, meter |-> units("meter"), der |-> units("der"),
           inverter |-> units("inverter"), battery |-> units("battery")]
  BY DEF ReclassifyBi, OfBi
<1>2. \A kind : units(kind) \in Seq(Seq(S))
  BY OfBiAoTyped, EquipmentTyped
<1>3. <<plain>> \in Seq(Seq(S)) /\ Len(<<plain>>) = 1
  BY OfBiAoTyped
<1> DEFINE one == <<plain>>
<1> HIDE DEF units, R, one
<1>4. R \in [ToSet(BiKinds) -> Seq(Seq(S))] /\ R["base"] = one
  <2>1. ToSet(BiKinds) = {"base", "meter", "der", "inverter", "battery"}
    BY KindsAre
  <2>2. one \in Seq(Seq(S))
    BY <1>3 DEF one
  <2>3. R = [base |-> one, meter |-> units("meter"), der |-> units("der"),
             inverter |-> units("inverter"), battery |-> units("battery")]
    BY <1>1 DEF one
  <2>4. QED
    BY <1>2, <2>1, <2>2, <2>3
<1>5. QED
  BY <1>3, <1>4 DEF Records, R, one

\* reclassify_ao makes records of analog outputs, one of them the base.
LEMMA AoSorted ==
  ASSUME NEW S, NEW ps \in Seq(S), NEW key
  PROVE  ReclassifyAo(key, ps).records \in Records(AoKinds, S)
<1> DEFINE plain == OfAo(key, ps, "base")
           units(kind) == Equipment(OfAo(key, ps, kind), AoSize[kind]).records
           R == ReclassifyAo(key, ps).records
<1>1. R = [base |-> <<plain>>, meter |-> units("meter"),
           inverter |-> units("inverter"), battery |-> units("battery")]
  BY DEF ReclassifyAo, OfAo
<1>2. \A kind : units(kind) \in Seq(Seq(S))
  BY OfBiAoTyped, EquipmentTyped
<1>3. <<plain>> \in Seq(Seq(S)) /\ Len(<<plain>>) = 1
  BY OfBiAoTyped
<1> DEFINE one == <<plain>>
<1> HIDE DEF units, R, one
<1>4. R \in [ToSet(AoKinds) -> Seq(Seq(S))] /\ R["base"] = one
  <2>1. ToSet(AoKinds) = {"base", "meter", "inverter", "battery"}
    BY KindsAre
  <2>2. one \in Seq(Seq(S))
    BY <1>3 DEF one
  <2>3. R = [base |-> one, meter |-> units("meter"),
             inverter |-> units("inverter"), battery |-> units("battery")]
    BY <1>1 DEF one
  <2>4. QED
    BY <1>2, <2>1, <2>2, <2>3
<1>5. QED
  BY <1>3, <1>4 DEF Records, R, one

\* A record or the instances of an equipment have the points they are made of.
LEMMA UnitsKeep ==
  ASSUME NEW S, NEW ps \in Seq(S), NEW p \in ToSet(ps)
  PROVE  /\ Keeps(<<ps>>, p.index)
         /\ \A size : ~Equipment(ps, size).err => Keeps(Equipment(ps, size).records, p.index)
<1>1. 1 \in DOMAIN <<ps>> /\ <<ps>>[1] = ps
  OBVIOUS
<1>2. HasIndex(ps, p.index)
  BY DEF HasIndex, Indices, ToSet
<1>3. ASSUME NEW size, ~Equipment(ps, size).err
      PROVE  Keeps(Equipment(ps, size).records, p.index)
  <2>1. Covers(Equipment(ps, size).records, p)
    BY <1>3, EquipmentKeeps
  <2>2. QED
    BY <2>1 DEF Covers, Keeps, HasIndex, Indices, ToSet
<1>4. QED
  BY <1>1, <1>2, <1>3 DEF Keeps

\* Every binary input is in a record of its kind,
LEMMA BiKeeps ==
  ASSUME NEW key, NEW S, NEW ps \in Seq(S), ~ReclassifyBi(key, ps).err, NEW p \in ToSet(ps)
  PROVE  Keeps(ReclassifyBi(key, ps).records[BiKindOf(key, p.index)], p.index)
<1> DEFINE kind == BiKindOf(key, p.index)
           R == ReclassifyBi(key, ps).records
           one == <<OfBi(key, ps, "base")>>
           units(k) == Equipment(OfBi(key, ps, k), BiSize[k])
<1>1. ReclassifyBi(key, ps) =
        [records |-> [base |-> one, meter |-> units("meter").records, der |-> units("der").records, inverter |-> units("inverter").records, battery |-> units("battery").records],
         err |-> \E k \in DOMAIN BiSize : units(k).err]
  BY DEF ReclassifyBi, OfBi
<1>2. DOMAIN BiSize = {"meter", "der", "inverter", "battery"}
  BY DEF BiSize
<1>3. kind \in {"base", "meter", "der", "inverter", "battery"}
  BY KindOfIs DEF BaseKinds
<1>4. OfBi(key, ps, kind) \in Seq(S) /\ p \in ToSet(OfBi(key, ps, kind))
  BY OfBiAoTyped
<1>5. Keeps(<<OfBi(key, ps, kind)>>, p.index) /\ (~units(kind).err => Keeps(units(kind).records, p.index))
  BY <1>4, UnitsKeep
<1>6. R = [base |-> one, meter |-> units("meter").records, der |-> units("der").records, inverter |-> units("inverter").records, battery |-> units("battery").records]
  <2> HIDE DEF one, units
  <2>1. QED
    BY <1>1
<1>7. ~\E k \in DOMAIN BiSize : units(k).err
  <2> HIDE DEF one, units
  <2>1. QED
    BY <1>1
<1>8. kind = "base" => one = <<OfBi(key, ps, kind)>>
  OBVIOUS
<1> HIDE DEF R, kind, units, one
<1>9. kind # "base" => R[kind] = units(kind).records /\ ~units(kind).err
  BY <1>2, <1>3, <1>6, <1>7
<1>10. kind = "base" => R[kind] = one
  BY <1>6
<1>11. Keeps(R[kind], p.index)
  BY <1>5, <1>8, <1>9, <1>10
<1>12. QED
  BY <1>11 DEF R, kind

\* and every analog output.
LEMMA AoKeeps ==
  ASSUME NEW key, NEW S, NEW ps \in Seq(S), ~ReclassifyAo(key, ps).err, NEW p \in ToSet(ps)
  PROVE  Keeps(ReclassifyAo(key, ps).records[AoKindOf(key, p.index)], p.index)
<1> DEFINE kind == AoKindOf(key, p.index)
           R == ReclassifyAo(key, ps).records
           one == <<OfAo(key, ps, "base")>>
           units(k) == Equipment(OfAo(key, ps, k), AoSize[k])
<1>1. ReclassifyAo(key, ps) =
        [records |-> [base |-> one, meter |-> units("meter").records, inverter |-> units("inverter").records, battery |-> units("battery").records],
         err |-> \E k \in DOMAIN AoSize : units(k).err]
  BY DEF ReclassifyAo, OfAo
<1>2. DOMAIN AoSize = {"meter", "inverter", "battery"}
  BY DEF AoSize
<1>3. kind \in {"base", "meter", "inverter", "battery"}
  BY KindOfIs, KindsAre
<1>4. OfAo(key, ps, kind) \in Seq(S) /\ p \in ToSet(OfAo(key, ps, kind))
  BY OfBiAoTyped
<1>5. Keeps(<<OfAo(key, ps, kind)>>, p.index) /\ (~units(kind).err => Keeps(units(kind).records, p.index))
  BY <1>4, UnitsKeep
<1>6. R = [base |-> one, meter |-> units("meter").records, inverter |-> units("inverter").records, battery |-> units("battery").records]
  <2> HIDE DEF one, units
  <2>1. QED
    BY <1>1
<1>7. ~\E k \in DOMAIN AoSize : units(k).err
  <2> HIDE DEF one, units
  <2>1. QED
    BY <1>1
<1>8. kind = "base" => one = <<OfAo(key, ps, kind)>>
  OBVIOUS
<1> HIDE DEF R, kind, units, one
<1>9. kind # "base" => R[kind] = units(kind).records /\ ~units(kind).err
  BY <1>2, <1>3, <1>6, <1>7
<1>10. kind = "base" => R[kind] = one
  BY <1>6
<1>11. Keeps(R[kind], p.index)
  BY <1>5, <1>8, <1>9, <1>10
<1>12. QED
  BY <1>11 DEF R, kind

-----------------------------------------------------------------------------
(* The entries of a section hold its rows.                                 *)

\* The columns of a schedule.
LEMMA ScheduleColumns ==
  ASSUME NEW t \in Long(11)
  PROVE  /\ Slots(t, 11, 4) \in Nat
         /\ Offsets(t) \in Seq(AiPoints) /\ Len(Offsets(t)) = Slots(t, 11, 4)
         /\ ActionTypes(t) \in Seq(AiPoints) /\ Len(ActionTypes(t)) = Slots(t, 11, 4)
         /\ ActionIndexes(t) \in Seq(AiPoints) /\ Len(ActionIndexes(t)) = Slots(t, 11, 4)
         /\ StepValues(t) \in Seq(AiPoints) /\ Len(StepValues(t)) = Slots(t, 11, 4)
<1>1. t \in Seq(AiPoints) /\ 11 <= Len(t) /\ 11 \in Nat /\ 4 \in {2, 4}
  BY DEF Long
<1>2. \A c \in 1 .. 4 : /\ Slots(t, 11, 4) \in Nat
                        /\ Column(t, 11, 4, c) \in Seq(AiPoints) /\ Len(Column(t, 11, 4, c)) = Slots(t, 11, 4)
  BY <1>1, ColumnTyped
<1>3. 1 \in 1 .. 4 /\ 2 \in 1 .. 4 /\ 3 \in 1 .. 4 /\ 4 \in 1 .. 4
  OBVIOUS
<1>4. QED
  BY <1>2, <1>3 DEF Offsets, ActionTypes, ActionIndexes, StepValues

\* Two sequences with the same indexes at the same places.
SameIndexes(s, t) == Len(s) = Len(t) /\ \A k \in 1 .. Len(s) : s[k].index = t[k].index

\* The same of two sequences put one after the other,
LEMMA ConcatAlike ==
  ASSUME NEW S, NEW s \in Seq(S), NEW a \in Seq(S), NEW T, NEW t \in Seq(T), NEW b \in Seq(T),
         SameIndexes(s, t), SameIndexes(a, b)
  PROVE  SameIndexes(s \o a, t \o b)
<1>1. /\ Len(s) \in Nat /\ Len(a) \in Nat /\ Len(s \o a) = Len(s) + Len(a)
      /\ \A i \in 1 .. Len(s) : (s \o a)[i] = s[i]
      /\ \A i \in 1 .. Len(a) : (s \o a)[Len(s) + i] = a[i]
  BY ConcatParts
<1>2. /\ Len(t) \in Nat /\ Len(b) \in Nat /\ Len(t \o b) = Len(t) + Len(b)
      /\ \A i \in 1 .. Len(t) : (t \o b)[i] = t[i]
      /\ \A i \in 1 .. Len(b) : (t \o b)[Len(t) + i] = b[i]
  BY ConcatParts
<1> SUFFICES ASSUME NEW k \in 1 .. Len(s) + Len(a) PROVE (s \o a)[k].index = (t \o b)[k].index
  BY <1>1, <1>2 DEF SameIndexes
<1>3. CASE k \in 1 .. Len(s)
  BY <1>1, <1>2, <1>3 DEF SameIndexes
<1>4. CASE k \notin 1 .. Len(s)
  <2>1. k - Len(s) \in 1 .. Len(a) /\ k = Len(s) + (k - Len(s))
    BY <1>1, <1>4
  <2> DEFINE i == k - Len(s)
  <2> HIDE DEF i
  <2>2. i \in 1 .. Len(a) /\ k = Len(s) + i
    BY <2>1 DEF i
  <2>3. (s \o a)[k] = a[i] /\ (t \o b)[k] = b[i] /\ a[i].index = b[i].index
    BY <1>1, <1>2, <2>2 DEF SameIndexes
  <2>4. QED
    BY <2>3
<1>5. QED
  BY <1>3, <1>4

\* and of any number of them.
LEMMA FlatAlike ==
  ASSUME NEW S, NEW T, NEW N \in Nat, NEW ss \in [1 .. N -> Seq(S)], NEW tt \in [1 .. N -> Seq(T)],
         \A n \in 1 .. N : SameIndexes(ss[n], tt[n])
  PROVE  SameIndexes(FlattenSeq(ss), FlattenSeq(tt))
<1>1. CASE N = 0
  <2>1. ss = <<>> /\ tt = <<>>
    BY <1>1
  <2>2. ss \in Seq(Seq(S)) /\ tt \in Seq(Seq(T))
    BY <2>1
  <2>3. FlattenSeq(ss) \in Seq(S) /\ FlattenSeq(tt) \in Seq(T)
    BY <2>2, FirstOfFlat
  <2>4. ToSet(FlattenSeq(ss)) = {} /\ ToSet(FlattenSeq(tt)) = {}
    <3>1. Len(ss) = 0 /\ Len(tt) = 0 /\ 1 .. 0 = {}
      BY <2>1
    <3>2. \A x : x \notin ToSet(FlattenSeq(ss))
      BY <2>2, <3>1, RangeOfFlat
    <3>4. \A x : x \notin ToSet(FlattenSeq(tt))
      BY <2>2, <3>1, RangeOfFlat
    <3>3. QED
      BY <3>2, <3>4
  <2>5. \A u : \A s \in Seq(u) : ToSet(s) = {} => Len(s) = 0
    <3> SUFFICES ASSUME NEW u, NEW s \in Seq(u), Len(s) # 0 PROVE ToSet(s) # {}
      OBVIOUS
    <3>1. 1 \in DOMAIN s
      OBVIOUS
    <3>2. QED
      BY <3>1 DEF ToSet
  <2>6. Len(FlattenSeq(ss)) = 0 /\ Len(FlattenSeq(tt)) = 0
    BY <2>3, <2>4, <2>5
  <2>7. QED
    BY <2>6 DEF SameIndexes
<1>2. CASE N # 0
  <2>1. N >= 1
    BY <1>2
  <2>2. PICK f \in [1 .. N -> Seq(S)] : GrowsBy(f, ss, N) /\ FlattenSeq(ss) = f[N]
    BY <2>1, FlattenByParts
  <2>3. PICK g \in [1 .. N -> Seq(T)] : GrowsBy(g, tt, N) /\ FlattenSeq(tt) = g[N]
    BY <2>1, FlattenByParts
  <2> DEFINE P == {n \in Nat : n + 1 <= N => SameIndexes(f[n + 1], g[n + 1])}
  <2>4. 0 \in P
    BY <2>1, <2>2, <2>3 DEF GrowsBy
  <2>5. ASSUME NEW n \in Nat, n \in P PROVE n + 1 \in P
    <3> SUFFICES ASSUME n + 1 + 1 <= N PROVE SameIndexes(f[n + 1 + 1], g[n + 1 + 1])
      OBVIOUS
    <3>1. n + 1 \in 1 .. N /\ n + 1 + 1 \in 1 .. N /\ n + 1 \in 1 .. N - 1 /\ n + 1 <= N
      OBVIOUS
    <3>2. f[n + 1 + 1] = f[n + 1] \o ss[n + 1 + 1] /\ g[n + 1 + 1] = g[n + 1] \o tt[n + 1 + 1]
      BY <2>2, <2>3, <3>1 DEF GrowsBy
    <3>3. SameIndexes(f[n + 1], g[n + 1]) /\ SameIndexes(ss[n + 1 + 1], tt[n + 1 + 1])
      BY <2>5, <3>1
    <3>4. QED
      BY <3>1, <3>2, <3>3, ConcatAlike
  <2> HIDE DEF P
  <2>6. \A n \in Nat : n \in P
    BY <2>4, <2>5, SetInduction
  <2>7. SameIndexes(f[N], g[N])
    <3>1. N - 1 \in P /\ N - 1 \in Nat /\ N - 1 + 1 = N
      BY <2>1, <2>6
    <3>2. QED
      BY <3>1 DEF P
  <2>8. QED
    BY <2>2, <2>3, <2>7
<1>3. QED
  BY <1>1, <1>2

\* The points of a kind have the indexes of its rows.
LEMMA SectionsAlike ==
  ASSUME NEW S, NEW ps \in Seq(S), NEW T, NEW rows \in Seq(T), SameIndexes(ps, rows), NEW key, NEW kind
  PROVE  SameIndexes(OfKind(key, ps, kind), OfKind(key, rows, kind))
<1> DEFINE N == Len(ps)
           one(s, k) == IF AiKindOf(key, s[k].index) = kind THEN <<s[k]>> ELSE <<>>
           ss == [k \in 1 .. N |-> one(ps, k)]
           tt == [k \in 1 .. N |-> one(rows, k)]
<1>1. /\ N \in Nat /\ DOMAIN ps = 1 .. N /\ DOMAIN rows = 1 .. N
      /\ \A k \in 1 .. N : ps[k] \in S /\ rows[k] \in T /\ ps[k].index = rows[k].index
  BY DEF SameIndexes
<1>2. OfKind(key, ps, kind) = FlattenSeq(ss) /\ OfKind(key, rows, kind) = FlattenSeq(tt)
  BY <1>1 DEF OfKind, Where
<1>3. ASSUME NEW k \in 1 .. N
      PROVE  one(ps, k) \in Seq(S) /\ one(rows, k) \in Seq(T) /\ SameIndexes(one(ps, k), one(rows, k))
  <2>1. CASE AiKindOf(key, ps[k].index) = kind
    <3>1. one(ps, k) = <<ps[k]>> /\ one(rows, k) = <<rows[k]>>
      BY <1>1, <2>1
    <3>2. <<ps[k]>> \in Seq(S) /\ <<rows[k]>> \in Seq(T)
      BY <1>1
    <3>3. SameIndexes(<<ps[k]>>, <<rows[k]>>)
      BY <1>1 DEF SameIndexes
    <3>4. QED
      BY <3>1, <3>2, <3>3
  <2>2. CASE AiKindOf(key, ps[k].index) # kind
    <3>1. one(ps, k) = <<>> /\ one(rows, k) = <<>>
      BY <1>1, <2>2
    <3>2. SameIndexes(<<>>, <<>>)
      BY DEF SameIndexes
    <3> HIDE DEF one
    <3>3. QED
      BY <3>1, <3>2
  <2>3. QED
    BY <2>1, <2>2
<1>4. ss \in [1 .. N -> Seq(S)] /\ tt \in [1 .. N -> Seq(T)] /\ \A k \in 1 .. N : SameIndexes(ss[k], tt[k])
  <2> HIDE DEF one
  <2>1. QED
    BY <1>3
<1> HIDE DEF ss, tt, N
<1>5. SameIndexes(FlattenSeq(ss), FlattenSeq(tt))
  BY <1>1, <1>4, FlatAlike
<1>6. QED
  BY <1>2, <1>5

\* Where the k-th point of column c is, behind h points and columns of m.
Place(h, m, c, k) == h + (c - 1) * m + k
IsColumn(col, r, h, m, c) ==
  \A k \in 1 .. m : Place(h, m, c, k) \in h + 1 .. Len(r) /\ col[k] = r[Place(h, m, c, k)]

\* The points of a column.
LEMMA ColumnIs ==
  ASSUME NEW S, NEW r \in Seq(S), NEW h \in Nat, NEW n \in {2, 4}, NEW c \in 1 .. n, h <= Len(r)
  PROVE  IsColumn(Column(r, h, n, c), r, h, Slots(r, h, n), c)
<1> DEFINE q == Slots(r, h, n)
           low == h + (c - 1) * q + 1
           high == h + c * q
<1>1. q \in Nat /\ h + n * q <= Len(r) /\ Len(r) \in Nat
  <2>1. Slots(r, h, n) \in Nat /\ h + n * Slots(r, h, n) <= Len(r)
    BY ColumnTyped
  <2>2. Len(r) \in Nat
    OBVIOUS
  <2>3. QED
    BY <2>1, <2>2
<1> HIDE DEF q
<1>2. low \in Int /\ high \in Int /\ h + 1 <= low /\ high <= Len(r) /\ high - low + 1 = q
  <2>1. CASE n = 2
    <3>1. c = 1 \/ c = 2
      BY <2>1
    <3>2. QED
      BY <1>1, <2>1, <3>1
  <2>2. CASE n = 4
    <3>1. c = 1 \/ c = 2 \/ c = 3 \/ c = 4
      BY <2>2
    <3>2. QED
      BY <1>1, <2>2, <3>1
  <2>3. QED
    BY <2>1, <2>2
<1>3. Column(r, h, n, c) = SubSeq(r, low, high)
  BY DEF Column, low, high, q
<1>4. \A k \in 1 .. q : Place(h, q, c, k) = low + k - 1
  <2> DEFINE w == (c - 1) * q
  <2>1. w \in Int
    BY <1>1
  <2> HIDE DEF w
  <2>2. low = h + w + 1
    BY DEF w
  <2>3. \A k \in 1 .. q : h + w + k = h + w + 1 + k - 1
    BY <1>1, <2>1
  <2>4. QED
    BY <2>2, <2>3 DEF w, Place
<1> HIDE DEF low, high
<1>5. \A k \in 1 .. q : SubSeq(r, low, high)[k] = r[low + k - 1] /\ low + k - 1 \in h + 1 .. Len(r)
  <2>1. \A k \in 1 .. q : low + k - 1 \in h + 1 .. Len(r)
    BY <1>1, <1>2
  <2>2. (\A i \in low .. high : r[i] \in S) /\ 1 .. high - low + 1 = 1 .. q
    BY <1>1, <1>2
  <2>3. \A k \in 1 .. q : SubSeq(r, low, high)[k] = r[low + k - 1]
    <3>1. \A i \in 1 .. high - low + 1 : SubSeq(r, low, high)[i] = r[low + i - 1]
      BY <1>2, <2>2, SubSeqProperties
    <3>2. QED
      BY <2>2, <3>1
  <2>4. QED
    BY <2>1, <2>3
<1>6. QED
  BY <1>1, <1>3, <1>4, <1>5 DEF q, IsColumn

\* The slots of a record that has no point too many.
LEMMA SlotsAre ==
  ASSUME NEW r, NEW h \in Nat, NEW n \in {2, 4}, NEW m \in Nat, Len(r) = h + n * m
  PROVE  Slots(r, h, n) = m
<1>1. CASE n = 2
  <2>1. Slots(r, h, n) = (h + 2 * m - h) \div 2
    BY <1>1 DEF Slots
  <2>2. QED
    BY <2>1
<1>2. CASE n = 4
  <2>1. Slots(r, h, n) = (h + 4 * m - h) \div 4
    BY <1>2 DEF Slots
  <2>2. QED
    BY <2>1
<1>3. QED
  BY <1>1, <1>2

\* A sequence that has the elements of two others, one after the other.
Joins(r, s, t) ==
  /\ Len(s) \in Nat /\ Len(t) \in Nat /\ Len(r) = Len(s) + Len(t)
  /\ \A i \in 1 .. Len(s) : r[i] = s[i]
  /\ \A i \in 1 .. Len(t) : r[Len(s) + i] = t[i]

\* That is what \o does.
LEMMA Joined ==
  ASSUME NEW S, NEW s \in Seq(S), NEW t \in Seq(S)
  PROVE  s \o t \in Seq(S) /\ Joins(s \o t, s, t)
<1>1. s \o t \in Seq(S)
  OBVIOUS
<1>2. Len(s) \in Nat /\ Len(t) \in Nat /\ Len(s \o t) = Len(s) + Len(t)
  OBVIOUS
<1>3. \A i \in 1 .. Len(s) : (s \o t)[i] = s[i]
  BY ConcatParts
<1>4. \A i \in 1 .. Len(t) : (s \o t)[Len(s) + i] = t[i]
  BY ConcatParts
<1>5. QED
  BY <1>1, <1>2, <1>3, <1>4 DEF Joins

\* A column of a sequence that is made of the rest: what comes before has w points.
LEMMA ColumnOf ==
  ASSUME NEW S, NEW r \in Seq(S), NEW h \in Nat, NEW n \in {2, 4}, NEW c \in 1 .. n,
         h <= Len(r), NEW col \in Seq(S), Len(col) = Slots(r, h, n), IsColumn(col, r, h, Slots(r, h, n), c)
  PROVE  Column(r, h, n, c) = col
<1> DEFINE m == Slots(r, h, n)
           C == Column(r, h, n, c)
<1>1. C \in Seq(S) /\ Len(C) = m /\ Len(col) = m
  BY ColumnTyped
<1>2. IsColumn(C, r, h, m, c) /\ IsColumn(col, r, h, m, c)
  BY ColumnIs
<1> HIDE DEF m, C
<1>3. \A k \in 1 .. m : C[k] = col[k]
  BY <1>2 DEF IsColumn
<1>4. C = col
  BY <1>1, <1>3
<1>5. QED
  BY <1>4 DEF C

\* A header and two columns.
IsTwo(S, r, h, m, a, b, c) ==
  /\ r \in Seq(S) /\ Len(r) = h + 2 * m /\ Slots(r, h, 2) = m
  /\ \A j \in 1 .. h : r[j] = a[j]
  /\ Column(r, h, 2, 1) = b /\ Column(r, h, 2, 2) = c
LEMMA TwoColumns ==
  ASSUME NEW S, NEW h \in Nat, NEW m \in Nat, NEW a \in Seq(S), NEW b \in Seq(S), NEW c \in Seq(S),
         Len(a) = h, Len(b) = m, Len(c) = m
  PROVE  IsTwo(S, a \o b \o c, h, m, a, b, c)
<1> DEFINE p == a \o b
           r == p \o c
<1>1. /\ h \in Nat /\ m \in Nat /\ p \in Seq(S) /\ Len(p) = h + m
      /\ \A i \in 1 .. h : p[i] = a[i]
      /\ \A i \in 1 .. m : p[h + i] = b[i]
  <2>1. p \in Seq(S) /\ Joins(p, a, b)
    BY Joined
  <2> HIDE DEF p
  <2>2. QED
    BY <2>1 DEF Joins
<1> HIDE DEF p
<1>2. /\ r \in Seq(S) /\ Len(r) = h + m + m
      /\ \A i \in 1 .. h + m : r[i] = p[i]
      /\ \A i \in 1 .. m : r[h + m + i] = c[i]
  <2>1. r \in Seq(S) /\ Joins(r, p, c)
    BY <1>1, Joined
  <2> HIDE DEF r
  <2>2. QED
    BY <1>1, <2>1 DEF Joins
<1> HIDE DEF r
<1>3. Len(r) = h + 2 * m /\ h + 2 * m \in Nat
  BY <1>1, <1>2
<1>4. \A j \in 1 .. h : r[j] = a[j]
  BY <1>1, <1>2
<1>5. \A k \in 1 .. m : r[h + k] = b[k]
  <2> TAKE k \in 1 .. m
  <2>1. h + k \in 1 .. h + m
    BY <1>1
  <2>2. QED
    BY <1>1, <1>2, <2>1
<1>6. Slots(r, h, 2) = m
  BY <1>1, <1>3, SlotsAre
<1>7. \A k \in 1 .. m : Place(h, m, 1, k) = h + k /\ Place(h, m, 2, k) = h + m + k
  BY <1>1 DEF Place
<1>11. h <= Len(r)
  BY <1>1, <1>2
<1>8. Column(r, h, 2, 1) = b
  <2>1. IsColumn(b, r, h, m, 1)
    BY <1>1, <1>2, <1>5, <1>7 DEF IsColumn
  <2>2. Len(b) = Slots(r, h, 2) /\ IsColumn(b, r, h, Slots(r, h, 2), 1)
    BY <1>6, <2>1
  <2>3. r \in Seq(S) /\ 2 \in {2, 4} /\ 1 \in 1 .. 2
    BY <1>2
  <2>4. QED
    BY <1>11, <2>2, <2>3, ColumnOf
<1>9. Column(r, h, 2, 2) = c
  <2>5. \A k \in 1 .. m : h + m + k \in h + 1 .. Len(r) /\ r[h + m + k] = c[k]
    BY <1>1, <1>2
  <2>1. IsColumn(c, r, h, m, 2)
    BY <1>7, <2>5 DEF IsColumn
  <2>2. Len(c) = Slots(r, h, 2) /\ IsColumn(c, r, h, Slots(r, h, 2), 2)
    BY <1>6, <2>1
  <2>3. r \in Seq(S) /\ 2 \in {2, 4} /\ 2 \in 1 .. 2
    BY <1>2
  <2>4. QED
    BY <1>11, <2>2, <2>3, ColumnOf
<1>10. QED
  <2>1. IsTwo(S, r, h, m, a, b, c)
    BY <1>2, <1>3, <1>4, <1>6, <1>8, <1>9 DEF IsTwo
  <2>2. QED
    BY <2>1 DEF r, p

\* A header and four columns.
IsFour(S, r, h, m, a, b, c, d, e) ==
  /\ r \in Seq(S) /\ Len(r) = h + 4 * m /\ Slots(r, h, 4) = m
  /\ \A j \in 1 .. h : r[j] = a[j]
  /\ Column(r, h, 4, 1) = b /\ Column(r, h, 4, 2) = c
  /\ Column(r, h, 4, 3) = d /\ Column(r, h, 4, 4) = e
LEMMA FourColumns ==
  ASSUME NEW S, NEW h \in Nat, NEW m \in Nat, NEW a \in Seq(S), NEW b \in Seq(S), NEW c \in Seq(S), NEW d \in Seq(S),
         NEW e \in Seq(S), Len(a) = h, Len(b) = m, Len(c) = m, Len(d) = m, Len(e) = m
  PROVE  IsFour(S, a \o b \o c \o d \o e, h, m, a, b, c, d, e)
<1> DEFINE p == a \o b
           q == p \o c
           w == q \o d
           r == w \o e
<1>1. /\ h \in Nat /\ m \in Nat /\ p \in Seq(S) /\ Len(p) = h + m
      /\ \A i \in 1 .. h : p[i] = a[i]
      /\ \A i \in 1 .. m : p[h + i] = b[i]
  <2>1. p \in Seq(S) /\ Joins(p, a, b)
    BY Joined
  <2> HIDE DEF p
  <2>2. QED
    BY <2>1 DEF Joins
<1> HIDE DEF p
<1>2. /\ q \in Seq(S) /\ Len(q) = h + m + m
      /\ \A i \in 1 .. h + m : q[i] = p[i]
      /\ \A i \in 1 .. m : q[h + m + i] = c[i]
  <2>1. q \in Seq(S) /\ Joins(q, p, c)
    BY <1>1, Joined
  <2> HIDE DEF q
  <2>2. QED
    BY <1>1, <2>1 DEF Joins
<1> HIDE DEF q
<1>3. /\ w \in Seq(S) /\ Len(w) = h + m + m + m
      /\ \A i \in 1 .. h + m + m : w[i] = q[i]
      /\ \A i \in 1 .. m : w[h + m + m + i] = d[i]
  <2>1. w \in Seq(S) /\ Joins(w, q, d)
    BY <1>2, Joined
  <2> HIDE DEF w
  <2>2. QED
    BY <1>2, <2>1 DEF Joins
<1> HIDE DEF w
<1>4. /\ r \in Seq(S) /\ Len(r) = h + m + m + m + m
      /\ \A i \in 1 .. h + m + m + m : r[i] = w[i]
      /\ \A i \in 1 .. m : r[h + m + m + m + i] = e[i]
  <2>1. r \in Seq(S) /\ Joins(r, w, e)
    BY <1>3, Joined
  <2> HIDE DEF r
  <2>2. QED
    BY <1>3, <2>1 DEF Joins
<1> HIDE DEF r
<1>5. Len(r) = h + 4 * m /\ h + 4 * m \in Nat
  BY <1>1, <1>4
<1>6. \A j \in 1 .. h : r[j] = a[j]
  <2> TAKE j \in 1 .. h
  <2>1. j \in 1 .. h + m /\ j \in 1 .. h + m + m /\ j \in 1 .. h + m + m + m
    BY <1>1
  <2>2. QED
    BY <1>1, <1>2, <1>3, <1>4, <2>1
<1>7. ASSUME NEW k \in 1 .. m
      PROVE  r[h + k] = b[k] /\ r[h + m + k] = c[k] /\ r[h + m + m + k] = d[k] /\ r[h + m + m + m + k] = e[k]
  <2>1. h + k \in 1 .. h + m /\ h + k \in 1 .. h + m + m /\ h + k \in 1 .. h + m + m + m
    BY <1>1
  <2>2. h + m + k \in 1 .. h + m + m /\ h + m + k \in 1 .. h + m + m + m
    BY <1>1
  <2>3. h + m + m + k \in 1 .. h + m + m + m
    BY <1>1
  <2>4. p[h + k] = b[k] /\ q[h + k] = p[h + k] /\ w[h + k] = q[h + k] /\ r[h + k] = w[h + k]
    <3>1. p[h + k] = b[k]
      BY <1>1
    <3>2. q[h + k] = p[h + k]
      BY <1>2, <2>1
    <3>3. w[h + k] = q[h + k]
      BY <1>3, <2>1
    <3>4. r[h + k] = w[h + k]
      BY <1>4, <2>1
    <3>5. QED
      BY <3>1, <3>2, <3>3, <3>4
  <2>5. q[h + m + k] = c[k] /\ w[h + m + k] = q[h + m + k] /\ r[h + m + k] = w[h + m + k]
    <3>1. q[h + m + k] = c[k]
      BY <1>2
    <3>2. w[h + m + k] = q[h + m + k]
      BY <1>3, <2>2
    <3>3. r[h + m + k] = w[h + m + k]
      BY <1>4, <2>2
    <3>4. QED
      BY <3>1, <3>2, <3>3
  <2>6. r[h + m + m + k] = d[k]
    BY <1>3, <1>4, <2>3
  <2>7. r[h + m + m + m + k] = e[k]
    BY <1>4
  <2>8. QED
    BY <2>4, <2>5, <2>6, <2>7
<1>8. Slots(r, h, 4) = m
  BY <1>1, <1>5, SlotsAre
<1>9. \A k \in 1 .. m : /\ Place(h, m, 1, k) = h + k /\ Place(h, m, 2, k) = h + m + k
                       /\ Place(h, m, 3, k) = h + m + m + k /\ Place(h, m, 4, k) = h + m + m + m + k
  BY <1>1 DEF Place
<1>17. h <= Len(r)
  BY <1>1, <1>4
<1>10. ASSUME NEW i \in 1 .. 4, NEW col \in Seq(S), Len(col) = m, IsColumn(col, r, h, m, i)
       PROVE  Column(r, h, 4, i) = col
  <2>1. Len(col) = Slots(r, h, 4) /\ IsColumn(col, r, h, Slots(r, h, 4), i)
    BY <1>8, <1>10
  <2>2. r \in Seq(S) /\ 4 \in {2, 4}
    BY <1>4
  <2>3. QED
    BY <1>10, <1>17, <2>1, <2>2, ColumnOf
<1>11. /\ IsColumn(b, r, h, m, 1) /\ IsColumn(c, r, h, m, 2)
       /\ IsColumn(d, r, h, m, 3) /\ IsColumn(e, r, h, m, 4)
  <2>1. \A k \in 1 .. m : /\ h + k \in h + 1 .. Len(r) /\ h + m + k \in h + 1 .. Len(r)
                          /\ h + m + m + k \in h + 1 .. Len(r) /\ h + m + m + m + k \in h + 1 .. Len(r)
    <3>1. Len(r) = h + m + m + m + m /\ h \in Nat /\ m \in Nat
      BY <1>1, <1>4
    <3>2. QED
      BY <3>1
  <2>2. QED
    BY <1>7, <1>9, <2>1 DEF IsColumn
<1>18. 1 \in 1 .. 4 /\ 2 \in 1 .. 4 /\ 3 \in 1 .. 4 /\ 4 \in 1 .. 4
  OBVIOUS
<1>12. Column(r, h, 4, 1) = b
  BY <1>10, <1>11, <1>18
<1>13. Column(r, h, 4, 2) = c
  BY <1>10, <1>11, <1>18
<1>14. Column(r, h, 4, 3) = d
  BY <1>10, <1>11, <1>18
<1>15. Column(r, h, 4, 4) = e
  BY <1>10, <1>11, <1>18
<1>16. QED
  <2>1. IsFour(S, r, h, m, a, b, c, d, e)
    BY <1>4, <1>5, <1>6, <1>8, <1>12, <1>13, <1>14, <1>15 DEF IsFour
  <2>2. QED
    BY <2>1 DEF r, w, q, p

\* An entry that repeats another one, all slots of it or the first ones.
CopyOf(e, t, h, n) ==
  /\ Slots(e, h, n) \in Nat /\ Slots(t, h, n) \in Nat /\ Slots(e, h, n) <= Slots(t, h, n)
  /\ Len(e) = h + n * Slots(e, h, n)
  /\ \A j \in 1 .. h : e[j].index = t[j].index
  /\ \A c \in 1 .. n, k \in 1 .. Slots(e, h, n) : Column(e, h, n, c)[k].index = Column(t, h, n, c)[k].index

\* What repeats an entry that holds rows holds them too.
LEMMA RepeatHolds ==
  ASSUME NEW h \in Nat, NEW n \in {2, 4}, NEW e, NEW t, CopyOf(e, t, h, n), NEW rows, Len(rows) \in Nat,
         Holds(t, rows, h, n)
  PROVE  Holds(e, rows, h, n)
<1> DEFINE m == Slots(e, h, n)
           q == Slots(t, h, n)
<1>1. m \in Nat /\ q \in Nat /\ m <= q /\ Len(e) = h + n * m
  BY DEF CopyOf
<1>2. h + n * q <= Len(rows)
  BY DEF Holds
<1>3. /\ \A j \in 1 .. h : t[j].index = rows[j].index
      /\ \A c \in 1 .. n, k \in 1 .. q : Column(t, h, n, c)[k].index = rows[h + (k - 1) * n + c].index
  BY DEF Holds
<1>4. /\ \A j \in 1 .. h : e[j].index = t[j].index
      /\ \A c \in 1 .. n, k \in 1 .. m : Column(e, h, n, c)[k].index = Column(t, h, n, c)[k].index
  BY DEF CopyOf
<1>5. \A k \in 1 .. m : k \in 1 .. q
  BY <1>1
<1>6. h + n * m <= Len(rows)
  <2>1. CASE n = 2
    BY <1>1, <1>2, <2>1
  <2>2. CASE n = 4
    BY <1>1, <1>2, <2>2
  <2>3. QED
    BY <2>1, <2>2
<1>7. Holds(e, rows, h, n) <=>
        /\ Len(e) = h + n * m /\ Len(e) <= Len(rows)
        /\ \A j \in 1 .. h : e[j].index = rows[j].index
        /\ \A c \in 1 .. n, k \in 1 .. m : Column(e, h, n, c)[k].index = rows[h + (k - 1) * n + c].index
  BY DEF Holds
<1> HIDE DEF m, q
<1>8. \A j \in 1 .. h : e[j].index = rows[j].index
  BY <1>3, <1>4
<1>9. \A c \in 1 .. n, k \in 1 .. m : Column(e, h, n, c)[k].index = rows[h + (k - 1) * n + c].index
  BY <1>3, <1>4, <1>5
<1>10. QED
  BY <1>1, <1>6, <1>7, <1>8, <1>9

\* What has the same indexes repeats an entry.
LEMMA SameRepeats ==
  ASSUME NEW h \in Nat, NEW n \in {2, 4}, NEW S, NEW e \in Seq(S), NEW T, NEW t \in Seq(T), SameIndexes(e, t),
         h <= Len(t), Len(t) = h + n * Slots(t, h, n)
  PROVE  CopyOf(e, t, h, n) /\ Slots(e, h, n) = Slots(t, h, n)
<1> DEFINE m == Slots(t, h, n)
<1>1. Len(e) = Len(t) /\ Len(t) \in Nat /\ \A k \in 1 .. Len(t) : e[k].index = t[k].index
  BY DEF SameIndexes
<1>2. Slots(e, h, n) = m
  BY <1>1 DEF Slots
<1>3. 1 \in 1 .. n
  OBVIOUS
<1>4. m \in Nat /\ Len(e) = h + n * m
  BY <1>1, <1>3, ColumnTyped
<1>5. ASSUME NEW c \in 1 .. n, NEW k \in 1 .. m
      PROVE  Column(e, h, n, c)[k].index = Column(t, h, n, c)[k].index
  <2>1. IsColumn(Column(t, h, n, c), t, h, m, c)
    BY ColumnIs
  <2>2. IsColumn(Column(e, h, n, c), e, h, Slots(e, h, n), c)
    BY <1>1, ColumnIs
  <2>3. IsColumn(Column(e, h, n, c), e, h, m, c)
    BY <1>2, <2>2
  <2> HIDE DEF m
  <2> DEFINE i == Place(h, m, c, k)
  <2>4. i \in h + 1 .. Len(t) /\ Column(t, h, n, c)[k] = t[i] /\ Column(e, h, n, c)[k] = e[i]
    BY <2>1, <2>3 DEF IsColumn
  <2> HIDE DEF i
  <2>5. i \in 1 .. Len(t)
    BY <1>1, <2>4
  <2>6. QED
    BY <1>1, <2>4, <2>5
<1>6. \A j \in 1 .. h : e[j].index = t[j].index
  BY <1>1
<1>7. CopyOf(e, t, h, n) <=>
  /\ Slots(e, h, n) \in Nat /\ m \in Nat /\ Slots(e, h, n) <= m
  /\ Len(e) = h + n * Slots(e, h, n)
  /\ \A j \in 1 .. h : e[j].index = t[j].index
  /\ \A c \in 1 .. n, k \in 1 .. Slots(e, h, n) : Column(e, h, n, c)[k].index = Column(t, h, n, c)[k].index
  BY DEF CopyOf
<1> HIDE DEF m
<1>8. QED
  BY <1>2, <1>4, <1>5, <1>6, <1>7 DEF m

\* The scaling of a point leaves its index,
LEMMA WithScalingKeeps ==
  ASSUME NEW p \in AiPoints, NEW s, NEW off, WithScaling(p, s, off) # Panic
  PROVE  WithScaling(p, s, off).index = p.index
<1> DEFINE q == [p EXCEPT !.min = s[1], !.max = s[2], !.mult = s[3], !.off = off]
<1>1. q.index = p.index
  BY DEF AiPoints
<1> HIDE DEF q
<1>2. WithScaling(p, s, off) \in {Panic, q}
  BY DEF WithScaling, AiNew, Validly, q
<1>3. QED
  BY <1>1, <1>2

\* that of a column the indexes of all,
LEMMA RescaledKeeps ==
  ASSUME NEW ps \in Seq(AiPoints), NEW s, Panic \notin ToSet(Rescaled(ps, s))
  PROVE  SameIndexes(Rescaled(ps, s), ps)
<1>1. CASE s = None
  BY <1>1 DEF Rescaled, SameIndexes
<1>2. CASE s # None
  <2> DEFINE new == Rescaled(ps, s)
  <2>1. new = [k \in 1 .. Len(ps) |-> WithScaling(ps[k], s, 0)] /\ Len(ps) \in Nat
    BY <1>2 DEF Rescaled
  <2> HIDE DEF new
  <2>2. DOMAIN new = 1 .. Len(ps) /\ Len(new) = Len(ps)
    BY <2>1
  <2>3. \A k \in 1 .. Len(ps) : new[k] # Panic
    BY <2>2 DEF ToSet, new
  <2>4. \A k \in 1 .. Len(ps) : new[k].index = ps[k].index
    BY <2>1, <2>3, WithScalingKeeps
  <2>5. QED
    BY <2>2, <2>4 DEF SameIndexes, new
<1>3. QED
  BY <1>1, <1>2

\* and a value that is set, or refused, does.
LEMMA QuietlyKeeps ==
  ASSUME NEW p \in AiPoints, NEW v
  PROVE  Quietly(p, v).index = p.index
<1>1. [p EXCEPT !.value = v].index = p.index
  BY DEF AiPoints
<1>2. Quietly(p, v) \in {p, [p EXCEPT !.value = v]}
  BY DEF Quietly, SetValue, Validly
<1>3. QED
  BY <1>1, <1>2

\* Clones have the indexes of what is cloned.
LEMMA ClonedKeeps ==
  ASSUME NEW ps \in Seq(AiPoints), NEW values \in Seq(Int), Len(values) <= Len(ps)
  PROVE  \A k \in 1 .. Len(values) : Cloned(ps, values)[k].index = ps[k].index
<1>1. \A k \in 1 .. Len(values) : ps[k] \in AiPoints /\ k \in DOMAIN values
  OBVIOUS
<1>2. QED
  BY <1>1, QuietlyKeeps DEF Cloned

\* The parts of what is put together are in it.
LEMMA PartsOf ==
  ASSUME NEW S, NEW a \in Seq(S), NEW b \in Seq(S)
  PROVE  a \o b \in Seq(S) /\ ToSet(a) \subseteq ToSet(a \o b) /\ ToSet(b) \subseteq ToSet(a \o b)
<1> DEFINE r == a \o b
<1>1. r \in Seq(S) /\ Joins(r, a, b)
  BY Joined
<1> HIDE DEF r
<1>2. Len(a) \in Nat /\ Len(b) \in Nat /\ Len(r) = Len(a) + Len(b) /\ DOMAIN a = 1 .. Len(a)
      /\ DOMAIN b = 1 .. Len(b) /\ DOMAIN r = 1 .. Len(r)
  BY <1>1 DEF Joins
<1>3. \A i \in DOMAIN a : i \in DOMAIN r /\ r[i] = a[i]
  BY <1>1, <1>2 DEF Joins
<1>4. \A i \in DOMAIN b : Len(a) + i \in DOMAIN r /\ r[Len(a) + i] = b[i]
  BY <1>1, <1>2 DEF Joins
<1>5. ToSet(a) \subseteq ToSet(r)
  BY <1>3 DEF ToSet
<1>6. ToSet(b) \subseteq ToSet(r)
  <2>1. \A x \in ToSet(b) : \E i \in DOMAIN b : x = b[i]
    BY DEF ToSet
  <2>2. \A j \in DOMAIN r : r[j] \in ToSet(r)
    BY DEF ToSet
  <2>3. QED
    BY <1>4, <2>1, <2>2
<1>7. QED
  BY <1>1, <1>5, <1>6 DEF r

\* The first points of a column have the indexes of the column's.
Begins(a, col, m) == \A k \in 1 .. m : a[k].index = col[k].index

\* A header and two columns that begin like those of an entry repeat it.
CopyMade(S, r, t, h, n, m) == r \in Seq(S) /\ CopyOf(r, t, h, n) /\ Slots(r, h, n) = m
LEMMA TwoRepeat ==
  ASSUME NEW S, NEW h \in Nat, NEW m \in Nat, NEW a \in Seq(S), NEW b \in Seq(S), NEW c \in Seq(S),
         Len(a) = h, Len(b) = m, Len(c) = m,
         NEW t, Slots(t, h, 2) \in Nat, m <= Slots(t, h, 2), Begins(a, t, h),
         Begins(b, Column(t, h, 2, 1), m), Begins(c, Column(t, h, 2, 2), m)
  PROVE  CopyMade(S, a \o b \o c, t, h, 2, m)
<1> DEFINE r == a \o b \o c
           q == Slots(t, h, 2)
<1>1. /\ r \in Seq(S) /\ Len(r) = h + 2 * m /\ Slots(r, h, 2) = m
      /\ \A j \in 1 .. h : r[j] = a[j]
      /\ Column(r, h, 2, 1) = b /\ Column(r, h, 2, 2) = c
  <2>1. IsTwo(S, r, h, m, a, b, c)
    BY TwoColumns
  <2> HIDE DEF r
  <2>2. QED
    BY <2>1 DEF IsTwo
<1> HIDE DEF r
<1>2. \A i \in 1 .. 2, k \in 1 .. m : Column(r, h, 2, i)[k].index = Column(t, h, 2, i)[k].index
  <2>1. \A i \in 1 .. 2 : i = 1 \/ i = 2
    OBVIOUS
  <2>2. \A k \in 1 .. m : Column(r, h, 2, 1)[k].index = Column(t, h, 2, 1)[k].index
    BY <1>1 DEF Begins
  <2>3. \A k \in 1 .. m : Column(r, h, 2, 2)[k].index = Column(t, h, 2, 2)[k].index
    BY <1>1 DEF Begins
  <2>4. QED
    BY <2>1, <2>2, <2>3
<1>3. \A j \in 1 .. h : r[j].index = t[j].index
  BY <1>1 DEF Begins
<1>4. m \in Nat /\ q \in Nat /\ m <= q
  OBVIOUS
<1>5. CopyOf(r, t, h, 2) <=>
        /\ Slots(r, h, 2) \in Nat /\ q \in Nat /\ Slots(r, h, 2) <= q
        /\ Len(r) = h + 2 * Slots(r, h, 2)
        /\ \A j \in 1 .. h : r[j].index = t[j].index
        /\ \A i \in 1 .. 2, k \in 1 .. Slots(r, h, 2) : Column(r, h, 2, i)[k].index = Column(t, h, 2, i)[k].index
  BY DEF CopyOf
<1> HIDE DEF q
<1>6. CopyOf(r, t, h, 2)
  BY <1>1, <1>2, <1>3, <1>4, <1>5
<1>7. QED
  <2>1. CopyMade(S, r, t, h, 2, m)
    BY <1>1, <1>6 DEF CopyMade
  <2>2. QED
    BY <2>1 DEF r

\* A header and four columns.
LEMMA FourRepeat ==
  ASSUME NEW S, NEW h \in Nat, NEW m \in Nat, NEW a \in Seq(S), NEW b \in Seq(S), NEW c \in Seq(S),
         NEW d \in Seq(S), NEW e \in Seq(S),
         Len(a) = h, Len(b) = m, Len(c) = m, Len(d) = m, Len(e) = m,
         NEW t, Slots(t, h, 4) \in Nat, m <= Slots(t, h, 4), Begins(a, t, h),
         Begins(b, Column(t, h, 4, 1), m), Begins(c, Column(t, h, 4, 2), m),
         Begins(d, Column(t, h, 4, 3), m), Begins(e, Column(t, h, 4, 4), m)
  PROVE  CopyMade(S, a \o b \o c \o d \o e, t, h, 4, m)
<1> DEFINE r == a \o b \o c \o d \o e
           q == Slots(t, h, 4)
<1>1. /\ r \in Seq(S) /\ Len(r) = h + 4 * m /\ Slots(r, h, 4) = m
      /\ \A j \in 1 .. h : r[j] = a[j]
      /\ Column(r, h, 4, 1) = b /\ Column(r, h, 4, 2) = c
      /\ Column(r, h, 4, 3) = d /\ Column(r, h, 4, 4) = e
  <2>1. IsFour(S, r, h, m, a, b, c, d, e)
    BY FourColumns
  <2> HIDE DEF r
  <2>2. QED
    BY <2>1 DEF IsFour
<1> HIDE DEF r
<1>2. \A i \in 1 .. 4, k \in 1 .. m : Column(r, h, 4, i)[k].index = Column(t, h, 4, i)[k].index
  <2>1. \A i \in 1 .. 4 : i = 1 \/ i = 2 \/ i = 3 \/ i = 4
    OBVIOUS
  <2>2. \A k \in 1 .. m : Column(r, h, 4, 1)[k].index = Column(t, h, 4, 1)[k].index
    BY <1>1 DEF Begins
  <2>3. \A k \in 1 .. m : Column(r, h, 4, 2)[k].index = Column(t, h, 4, 2)[k].index
    BY <1>1 DEF Begins
  <2>4. \A k \in 1 .. m : Column(r, h, 4, 3)[k].index = Column(t, h, 4, 3)[k].index
    BY <1>1 DEF Begins
  <2>5. \A k \in 1 .. m : Column(r, h, 4, 4)[k].index = Column(t, h, 4, 4)[k].index
    BY <1>1 DEF Begins
  <2>6. QED
    BY <2>1, <2>2, <2>3, <2>4, <2>5
<1>3. \A j \in 1 .. h : r[j].index = t[j].index
  BY <1>1 DEF Begins
<1>4. m \in Nat /\ q \in Nat /\ m <= q
  OBVIOUS
<1>5. CopyOf(r, t, h, 4) <=>
        /\ Slots(r, h, 4) \in Nat /\ q \in Nat /\ Slots(r, h, 4) <= q
        /\ Len(r) = h + 4 * Slots(r, h, 4)
        /\ \A j \in 1 .. h : r[j].index = t[j].index
        /\ \A i \in 1 .. 4, k \in 1 .. Slots(r, h, 4) : Column(r, h, 4, i)[k].index = Column(t, h, 4, i)[k].index
  BY DEF CopyOf
<1> HIDE DEF q
<1>6. CopyOf(r, t, h, 4)
  BY <1>1, <1>2, <1>3, <1>4, <1>5
<1>7. QED
  <2>1. CopyMade(S, r, t, h, 4, m)
    BY <1>1, <1>6 DEF CopyMade
  <2>2. QED
    BY <2>1 DEF r

\* The points of an entry, all of which are rows of its section.
LEMMA EntryParts ==
  ASSUME NEW S, NEW t \in Seq(S), NEW h \in Nat, NEW n \in {2, 4}, h <= Len(t)
  PROVE  /\ Slots(t, h, n) \in Nat
         /\ SubSeq(t, 1, h) \in Seq(S) /\ Len(SubSeq(t, 1, h)) = h
         /\ \A j \in 1 .. h : SubSeq(t, 1, h)[j] = t[j]
         /\ \A c \in 1 .. n : Column(t, h, n, c) \in Seq(S) /\ Len(Column(t, h, n, c)) = Slots(t, h, n)
<1>1. 1 \in 1 .. n
  OBVIOUS
<1>2. Slots(t, h, n) \in Nat
  BY <1>1, ColumnTyped
<1>3. \A c \in 1 .. n : Column(t, h, n, c) \in Seq(S) /\ Len(Column(t, h, n, c)) = Slots(t, h, n)
  BY ColumnTyped
<1>4. 1 \in Int /\ h \in Int /\ 1 <= h + 1 /\ h - 1 + 1 = h
  OBVIOUS
<1>5. SubSeq(t, 1, h) \in Seq(S) /\ Len(SubSeq(t, 1, h)) = h
  BY <1>4, PartIs
<1>6. \A i \in 1 .. h : t[i] \in S
  OBVIOUS
<1>7. \A j \in 1 .. h - 1 + 1 : SubSeq(t, 1, h)[j] = t[1 + j - 1]
  BY <1>4, <1>6, SubSeqProperties
<1>8. QED
  BY <1>2, <1>3, <1>5, <1>7

\* A curve that is scaled has the points of the curve, in the same slots.
LEMMA CurveScaledKeeps ==
  ASSUME NEW c \in Long(4), Panic \notin ToSet(CurveScaled(c))
  PROVE  CopyOf(CurveScaled(c), c, 4, 2) /\ Slots(CurveScaled(c), 4, 2) = Slots(c, 4, 2)
<1> DEFINE a == SubSeq(c, 1, 4)
           m == Slots(c, 4, 2)
           xs == Rescaled(Xs(c), XScaling(Code(c[3].value, XUnits, 0)))
           ys == Rescaled(Ys(c), YScaling(Code(c[4].value, YUnits, 0)))
<1>1. c \in Seq(AiPoints) /\ 4 <= Len(c) /\ 4 \in Nat /\ 2 \in {2, 4} /\ 1 \in 1 .. 2 /\ 2 \in 1 .. 2
  BY DEF Long
<1>2. a \in Seq(AiPoints) /\ Len(a) = 4 /\ Begins(a, c, 4) /\ m \in Nat
  BY <1>1, EntryParts DEF Begins
<1>3. /\ Xs(c) \in Seq(AiPoints) /\ Len(Xs(c)) = m /\ Ys(c) \in Seq(AiPoints) /\ Len(Ys(c)) = m
  BY <1>1, ColumnTyped DEF Xs, Ys
<1>4. xs \in Seq(Scaled) /\ Len(xs) = m /\ ys \in Seq(Scaled) /\ Len(ys) = m
  BY <1>3, RescaledTyped, UnitScaling
<1>5. CurveScaled(c) = a \o xs \o ys
  BY DEF CurveScaled
<1>6. Panic \in ToSet(xs) \/ SameIndexes(xs, Xs(c))
  BY <1>3, RescaledKeeps
<1>7. Panic \in ToSet(ys) \/ SameIndexes(ys, Ys(c))
  BY <1>3, RescaledKeeps
<1>8. m = Slots(c, 4, 2)
  OBVIOUS
<1> HIDE DEF a, xs, ys, m
<1>9. a \in Seq(Scaled)
  BY <1>2, PointsAreScaled
<1>10. a \o xs \in Seq(Scaled) /\ ToSet(xs) \subseteq ToSet(a \o xs)
  BY <1>4, <1>9, PartsOf
<1>11. ToSet(a \o xs) \subseteq ToSet(CurveScaled(c)) /\ ToSet(ys) \subseteq ToSet(CurveScaled(c))
  BY <1>4, <1>5, <1>10, PartsOf
<1>12. SameIndexes(xs, Xs(c)) /\ SameIndexes(ys, Ys(c))
  BY <1>6, <1>7, <1>10, <1>11
<1>13. Begins(xs, Column(c, 4, 2, 1), m) /\ Begins(ys, Column(c, 4, 2, 2), m)
  BY <1>3, <1>12 DEF Begins, SameIndexes, Xs, Ys
<1>14. m <= Slots(c, 4, 2) /\ Slots(c, 4, 2) \in Nat
  BY <1>2, <1>8
<1>15. CopyMade(Scaled, a \o xs \o ys, c, 4, 2, m)
  BY <1>1, <1>2, <1>4, <1>9, <1>13, <1>14, TwoRepeat
<1>16. QED
  BY <1>5, <1>8, <1>15 DEF CopyMade

\* What was read of a sheet, and the rows of the sheet: an entry that holds the
\* one holds the other.
LEMMA HoldsAlike ==
  ASSUME NEW h \in Nat, NEW n \in {2, 4}, NEW e, NEW ps, NEW rows, Len(ps) \in Nat, SameIndexes(ps, rows),
         Slots(e, h, n) \in Nat, Holds(e, ps, h, n)
  PROVE  Holds(e, rows, h, n)
<1> DEFINE m == Slots(e, h, n)
           at(c, k) == h + (k - 1) * n + c
<1>1. /\ m \in Nat /\ Len(e) = h + n * m /\ Len(e) <= Len(ps)
      /\ \A j \in 1 .. h : e[j].index = ps[j].index
      /\ \A c \in 1 .. n, k \in 1 .. m : Column(e, h, n, c)[k].index = ps[at(c, k)].index
  BY DEF Holds
<1>2. Len(rows) = Len(ps) /\ \A j \in 1 .. Len(ps) : ps[j].index = rows[j].index
  BY DEF SameIndexes
<1>3. Holds(e, rows, h, n) <=>
        /\ Len(e) = h + n * m /\ Len(e) <= Len(rows)
        /\ \A j \in 1 .. h : e[j].index = rows[j].index
        /\ \A c \in 1 .. n, k \in 1 .. m : Column(e, h, n, c)[k].index = rows[at(c, k)].index
  BY DEF Holds
<1> HIDE DEF m
<1>4. h <= Len(ps) /\ \A c \in 1 .. n, k \in 1 .. m : at(c, k) \in 1 .. Len(ps)
  <2>1. CASE n = 2
    BY <1>1, <2>1
  <2>2. CASE n = 4
    BY <1>1, <2>2
  <2>3. QED
    BY <2>1, <2>2
<1>5. \A j \in 1 .. h : e[j].index = rows[j].index
  BY <1>1, <1>2, <1>4
<1> HIDE DEF at
<1>6. \A c \in 1 .. n, k \in 1 .. m : Column(e, h, n, c)[k].index = rows[at(c, k)].index
  BY <1>1, <1>2, <1>4
<1>7. QED
  BY <1>1, <1>2, <1>3, <1>5, <1>6

\* Two sequences and four put one after the other.
LEMMA TwoFlat ==
  ASSUME NEW S, NEW ss \in [1 .. 2 -> Seq(S)]
  PROVE  FlattenSeq(ss) = ss[1] \o ss[2]
<1>1. PICK g \in [1 .. 2 -> Seq(S)] : GrowsBy(g, ss, 2) /\ FlattenSeq(ss) = g[2]
  <2>1. 2 \in Nat /\ 2 >= 1
    OBVIOUS
  <2>2. QED
    BY <2>1, FlattenByParts
<1>2. 1 \in 1 .. 2 - 1 /\ 1 + 1 = 2
  OBVIOUS
<1>3. g[1] = ss[1] /\ g[2] = g[1] \o ss[2]
  BY <1>1, <1>2 DEF GrowsBy
<1>4. QED
  BY <1>1, <1>3

LEMMA FourFlat ==
  ASSUME NEW S, NEW ss \in [1 .. 4 -> Seq(S)]
  PROVE  FlattenSeq(ss) = ss[1] \o ss[2] \o ss[3] \o ss[4]
<1>1. PICK g \in [1 .. 4 -> Seq(S)] : GrowsBy(g, ss, 4) /\ FlattenSeq(ss) = g[4]
  <2>1. 4 \in Nat /\ 4 >= 1
    OBVIOUS
  <2>2. QED
    BY <2>1, FlattenByParts
<1>2. /\ 1 \in 1 .. 4 - 1 /\ 2 \in 1 .. 4 - 1 /\ 3 \in 1 .. 4 - 1
      /\ 1 + 1 = 2 /\ 2 + 1 = 3 /\ 3 + 1 = 4
  OBVIOUS
<1>5. \A n \in 1 .. 4 - 1 : g[n + 1] = g[n] \o ss[n + 1]
  BY <1>1 DEF GrowsBy
<1>6. g[1 + 1] = g[1] \o ss[1 + 1] /\ g[2 + 1] = g[2] \o ss[2 + 1] /\ g[3 + 1] = g[3] \o ss[3 + 1]
  BY <1>2, <1>5
<1>3. g[1] = ss[1] /\ g[2] = g[1] \o ss[2] /\ g[3] = g[2] \o ss[3] /\ g[4] = g[3] \o ss[4]
  BY <1>1, <1>2, <1>6 DEF GrowsBy
<1>4. QED
  BY <1>1, <1>3

\* It does not matter which two of three are put together first.
SameBoth(s, t, u) == s \o (t \o u) = (s \o t) \o u
LEMMA EitherWay ==
  ASSUME NEW S, NEW s \in Seq(S), NEW t \in Seq(S), NEW u \in Seq(S)
  PROVE  SameBoth(s, t, u)
BY ConcatAssociative DEF SameBoth

\* An entry of a section holds the rows of the section, all but a slot that is
\* cut short.
LEMMA EntryHolds ==
  ASSUME NEW S, NEW ps \in Seq(S), NEW h \in Nat, NEW n \in {2, 4}, ~(Len(ps) < h)
  PROVE  /\ Len(Entry(ps, h, n)) = 1 /\ DOMAIN Entry(ps, h, n) = {1}
         /\ Entry(ps, h, n)[1] \in Seq(S)
         /\ Slots(Entry(ps, h, n)[1], h, n) = Slots(ps, h, n)
         /\ Holds(Entry(ps, h, n)[1], ps, h, n)
<1> DEFINE m == Slots(ps, h, n)
           at(c, k) == h + (k - 1) * n + c
           column(c) == [k \in 1 .. m |-> ps[at(c, k)]]
           columns == [c \in 1 .. n |-> column(c)]
           a == SubSeq(ps, 1, h)
           entry == a \o FlattenSeq(columns)
<1>1. Len(ps) \in Nat /\ h <= Len(ps)
  OBVIOUS
<1>2. m \in Nat /\ h + n * m <= Len(ps)
  <2>1. 1 \in 1 .. n
    OBVIOUS
  <2>2. QED
    BY <1>1, <2>1, ColumnTyped
<1>3. Entry(ps, h, n) = <<entry>>
  BY DEF Entry, Slots
<1>4. a \in Seq(S) /\ Len(a) = h /\ \A j \in 1 .. h : a[j] = ps[j]
  BY <1>1, EntryParts
<1>5. m = Slots(ps, h, n)
  OBVIOUS
<1> HIDE DEF m, a
<1>6. \A c \in 1 .. n, k \in 1 .. m : ps[at(c, k)] \in S
  <2>1. CASE n = 2
    BY <1>1, <1>2, <2>1
  <2>2. CASE n = 4
    BY <1>1, <1>2, <2>2
  <2>3. QED
    BY <2>1, <2>2
<1> HIDE DEF at
<1>7. \A c \in 1 .. n : column(c) \in Seq(S) /\ Len(column(c)) = m
  <2> TAKE c \in 1 .. n
  <2>1. column(c) \in [1 .. m -> S]
    BY <1>6
  <2> HIDE DEF column
  <2>2. QED
    BY <1>2, <2>1
<1>8. \A c \in 1 .. n, k \in 1 .. m : column(c)[k] = ps[at(c, k)]
  OBVIOUS
<1> HIDE DEF column
<1>9. columns \in [1 .. n -> Seq(S)] /\ \A c \in 1 .. n : columns[c] = column(c)
  BY <1>7
<1> HIDE DEF columns
<1>10. CASE n = 2
  <2> DEFINE x == columns[1]
             y == columns[2]
  <2>1. /\ x \in Seq(S) /\ Len(x) = m /\ \A k \in 1 .. m : x[k] = ps[at(1, k)]
        /\ y \in Seq(S) /\ Len(y) = m /\ \A k \in 1 .. m : y[k] = ps[at(2, k)]
    BY <1>7, <1>8, <1>9, <1>10
  <2>2. FlattenSeq(columns) = x \o y
    BY <1>9, <1>10, TwoFlat
  <2> HIDE DEF x, y
  <2>3. entry = a \o x \o y
    <3>1. SameBoth(a, x, y)
      BY <1>4, <2>1, EitherWay
    <3>2. QED
      BY <2>2, <3>1 DEF SameBoth
  <2> HIDE DEF entry
  <2>4. IsTwo(S, entry, h, m, a, x, y)
    BY <1>2, <1>4, <2>1, <2>3, TwoColumns
  <2>5. entry \in Seq(S) /\ Len(entry) = h + n * m /\ Slots(entry, h, n) = m
    BY <1>10, <2>4 DEF IsTwo
  <2>6. \A j \in 1 .. h : entry[j].index = ps[j].index
    BY <1>4, <2>4 DEF IsTwo
  <2>7. \A c \in 1 .. n, k \in 1 .. m : Column(entry, h, n, c)[k].index = ps[at(c, k)].index
    <3>1. \A c \in 1 .. n : c = 1 \/ c = 2
      BY <1>10
    <3>2. Column(entry, h, n, 1) = x /\ Column(entry, h, n, 2) = y
      BY <1>10, <2>4 DEF IsTwo
    <3>3. QED
      BY <2>1, <3>1, <3>2
  <2>8. Holds(entry, ps, h, n)
    BY <1>2, <2>5, <2>6, <2>7 DEF Holds, at
  <2>9. Len(<<entry>>) = 1 /\ DOMAIN <<entry>> = {1} /\ <<entry>>[1] = entry
    OBVIOUS
  <2>10. Entry(ps, h, n) = <<entry>>
    BY <1>3 DEF entry
  <2>11. QED
    BY <1>5, <2>5, <2>8, <2>9, <2>10
<1>11. CASE n = 4
  <2> DEFINE x == columns[1]
             y == columns[2]
             z == columns[3]
             w == columns[4]
  <2>1. /\ x \in Seq(S) /\ Len(x) = m /\ \A k \in 1 .. m : x[k] = ps[at(1, k)]
        /\ y \in Seq(S) /\ Len(y) = m /\ \A k \in 1 .. m : y[k] = ps[at(2, k)]
        /\ z \in Seq(S) /\ Len(z) = m /\ \A k \in 1 .. m : z[k] = ps[at(3, k)]
        /\ w \in Seq(S) /\ Len(w) = m /\ \A k \in 1 .. m : w[k] = ps[at(4, k)]
    BY <1>7, <1>8, <1>9, <1>11
  <2>2. FlattenSeq(columns) = x \o y \o z \o w
    BY <1>9, <1>11, FourFlat
  <2> HIDE DEF x, y, z, w
  <2>3. entry = a \o x \o y \o z \o w
    <3>1. x \o y \in Seq(S) /\ x \o y \o z \in Seq(S)
      BY <2>1
    <3>2. SameBoth(a, x, y) /\ SameBoth(a, x \o y, z) /\ SameBoth(a, x \o y \o z, w)
      BY <1>4, <2>1, <3>1, EitherWay
    <3>3. QED
      BY <2>2, <3>2 DEF SameBoth
  <2> HIDE DEF entry
  <2>4. IsFour(S, entry, h, m, a, x, y, z, w)
    BY <1>2, <1>4, <2>1, <2>3, FourColumns
  <2>5. entry \in Seq(S) /\ Len(entry) = h + n * m /\ Slots(entry, h, n) = m
    BY <1>11, <2>4 DEF IsFour
  <2>6. \A j \in 1 .. h : entry[j].index = ps[j].index
    BY <1>4, <2>4 DEF IsFour
  <2>7. \A c \in 1 .. n, k \in 1 .. m : Column(entry, h, n, c)[k].index = ps[at(c, k)].index
    <3>1. \A c \in 1 .. n : c = 1 \/ c = 2 \/ c = 3 \/ c = 4
      BY <1>11
    <3>2. /\ Column(entry, h, n, 1) = x /\ Column(entry, h, n, 2) = y
          /\ Column(entry, h, n, 3) = z /\ Column(entry, h, n, 4) = w
      BY <1>11, <2>4 DEF IsFour
    <3>3. QED
      BY <2>1, <3>1, <3>2
  <2>8. Holds(entry, ps, h, n)
    BY <1>2, <2>5, <2>6, <2>7 DEF Holds, at
  <2>9. Len(<<entry>>) = 1 /\ DOMAIN <<entry>> = {1} /\ <<entry>>[1] = entry
    OBVIOUS
  <2>10. Entry(ps, h, n) = <<entry>>
    BY <1>3 DEF entry
  <2>11. QED
    BY <1>5, <2>5, <2>8, <2>9, <2>10
<1>12. QED
  BY <1>10, <1>11

\* The entries with a header that hold rows.
Copies(h, n, rows) == {e \in Long(h) : Holds(e, rows, h, n)}

LEMMA CopyIs ==
  ASSUME NEW h \in Nat, NEW n \in {2, 4}, NEW rows, NEW e \in Copies(h, n, rows)
  PROVE  /\ e \in Long(h) /\ e \in Seq(AiPoints) /\ h <= Len(e) /\ Len(e) \in Nat
         /\ Slots(e, h, n) \in Nat /\ Len(e) = h + n * Slots(e, h, n) /\ Holds(e, rows, h, n)
<1>1. e \in Long(h) /\ Holds(e, rows, h, n)
  BY DEF Copies
<1>2. e \in Seq(AiPoints) /\ h <= Len(e) /\ Len(e) \in Nat
  BY <1>1 DEF Long
<1>3. Slots(e, h, n) \in Nat
  BY <1>2, EntryParts
<1>4. Len(e) = h + n * Slots(e, h, n)
  BY <1>1 DEF Holds
<1>5. QED
  BY <1>1, <1>2, <1>3, <1>4

\* What repeats one of them is one of them, and so is what has the same indexes.
LEMMA CopyKept ==
  ASSUME NEW h \in Nat, NEW n \in {2, 4}, NEW rows, Len(rows) \in Nat, NEW t \in Copies(h, n, rows),
         NEW e \in Long(h), CopyOf(e, t, h, n)
  PROVE  e \in Copies(h, n, rows)
<1>1. Holds(t, rows, h, n)
  BY DEF Copies
<1>2. Holds(e, rows, h, n)
  BY <1>1, RepeatHolds
<1>3. QED
  BY <1>2 DEF Copies

LEMMA AlikeKept ==
  ASSUME NEW h \in Nat, NEW n \in {2, 4}, NEW rows, Len(rows) \in Nat, NEW t \in Copies(h, n, rows),
         NEW e \in Long(h), SameIndexes(e, t)
  PROVE  e \in Copies(h, n, rows) /\ Slots(e, h, n) = Slots(t, h, n)
<1>1. t \in Seq(AiPoints) /\ h <= Len(t) /\ Len(t) = h + n * Slots(t, h, n)
  BY CopyIs
<1>2. e \in Seq(AiPoints)
  BY DEF Long
<1>3. CopyOf(e, t, h, n) /\ Slots(e, h, n) = Slots(t, h, n)
  BY <1>1, <1>2, SameRepeats
<1>4. QED
  BY <1>3, CopyKept

\* Setting two points of a header leaves the indexes.
LEMMA DisabledKeeps ==
  ASSUME NEW h \in Nat, NEW r \in Long(h), NEW i \in 1 .. h, NEW j \in 1 .. h, i # j
  PROVE  SameIndexes(Disabled(r, i, j), r)
<1>1. r \in Seq(AiPoints) /\ Len(r) >= h /\ Len(r) \in Nat /\ DOMAIN r = 1 .. Len(r)
  BY DEF Long
<1> DEFINE q == Disabled(r, i, j)
<1>2. /\ q = [k \in 1 .. Len(r) |-> IF k = i THEN Quietly(r[i], Unit)
                                     ELSE IF k = j THEN Quietly(r[j], Unit) ELSE r[k]]
  BY <1>1 DEF Disabled
<1>3. \A k \in 1 .. Len(r) : Quietly(r[k], Unit).index = r[k].index
  BY <1>1, QuietlyKeeps
<1>4. i \in 1 .. Len(r) /\ j \in 1 .. Len(r)
  BY <1>1
<1> HIDE DEF q
<1>5. Len(q) = Len(r) /\ \A k \in 1 .. Len(r) : q[k].index = r[k].index
  BY <1>1, <1>2, <1>3, <1>4
<1>6. QED
  BY <1>5 DEF SameIndexes, q

\* Scaling the steps of a schedule leaves its indexes.
LEMMA ScheduleScaledKeeps ==
  ASSUME NEW s \in Long(11), Len(s) = 11 + 4 * Slots(s, 11, 4), NEW outputs,
         Panic \notin ToSet(ScheduleScaled(s, outputs))
  PROVE  SameIndexes(ScheduleScaled(s, outputs), s)
<1> DEFINE types == ActionTypes(s)
           values == StepValues(s)
           m == Slots(s, 11, 4)
           n == 11 + 3 * Len(types)
           o(k) == ActionIndexes(s)[k].value \div Unit
           scaled(k) == IF types[k].value = AoAction /\ Whole(ActionIndexes(s)[k].value) /\ o(k) \in DOMAIN outputs
                        THEN WithScaling(values[k], ScalingOf(outputs[o(k)]), outputs[o(k)].off)
                        ELSE values[k]
           steps == [k \in DOMAIN types |-> scaled(k)]
           a == SubSeq(s, 1, n)
           r == a \o steps
<1>1. s \in Seq(AiPoints) /\ 11 <= Len(s) /\ Len(s) \in Nat
  BY DEF Long
<1>2. /\ m \in Nat
      /\ types \in Seq(AiPoints) /\ Len(types) = m
      /\ values \in Seq(AiPoints) /\ Len(values) = m
  BY ScheduleColumns
<1>3. ScheduleScaled(s, outputs) = r
  BY DEF ScheduleScaled
<1>4. IsColumn(values, s, 11, m, 4)
  <2>1. 11 \in Nat /\ 4 \in {2, 4} /\ 4 \in 1 .. 4
    OBVIOUS
  <2>2. IsColumn(Column(s, 11, 4, 4), s, 11, Slots(s, 11, 4), 4)
    BY <1>1, <2>1, ColumnIs
  <2>3. QED
    BY <2>2 DEF StepValues
<1>5. Len(s) = 11 + 4 * m
  OBVIOUS
<1> HIDE DEF types, values, m, o
<1>6. n \in Nat /\ n = 11 + 3 * m /\ n <= Len(s) /\ Len(s) = n + m
  BY <1>2, <1>5
<1> HIDE DEF n
<1>7. a \in Seq(AiPoints) /\ Len(a) = n /\ \A i \in 1 .. n : a[i] = s[i]
  <2>1. 1 \in Int /\ n \in Int /\ 1 <= n + 1 /\ n - 1 + 1 = n
    BY <1>6
  <2>2. \A i \in 1 .. n : s[i] \in AiPoints
    BY <1>1, <1>6
  <2>3. \A i \in 1 .. n - 1 + 1 : a[i] = s[1 + i - 1]
    BY <2>1, <2>2, SubSeqProperties
  <2>4. a \in Seq(AiPoints) /\ Len(a) = n - 1 + 1
    BY <1>1, <1>6, <2>1, PartIs
  <2>5. QED
    BY <2>1, <2>3, <2>4
<1> HIDE DEF a
<1>8. DOMAIN steps = 1 .. m /\ steps = [k \in 1 .. m |-> scaled(k)]
  BY <1>2
<1>9. steps \in Seq(ToSet(steps)) /\ Len(steps) = m
  <2> HIDE DEF steps, scaled
  <2>1. \A k \in 1 .. m : steps[k] \in ToSet(steps)
    BY <1>8 DEF ToSet
  <2>2. QED
    BY <1>2, <1>8, <2>1
<1> DEFINE T == AiPoints \cup ToSet(steps)
<1>10. a \in Seq(T) /\ steps \in Seq(T)
  BY <1>7, <1>9
<1> HIDE DEF T
<1>11. ToSet(steps) \subseteq ToSet(r) /\ Joins(r, a, steps)
  BY <1>10, PartsOf, Joined
<1>12. \A k \in 1 .. m : steps[k].index = values[k].index
  <2> SUFFICES ASSUME NEW k \in 1 .. m PROVE steps[k].index = values[k].index
    OBVIOUS
  <2>1. values[k] \in AiPoints /\ k \in 1 .. m
    BY <1>2
  <2>2. steps[k] \in ToSet(steps) /\ steps[k] = scaled(k)
    <3> HIDE DEF scaled
    <3>1. QED
      BY <1>8 DEF ToSet
  <2>3. steps[k] # Panic
    BY <1>3, <1>11, <2>2
  <2>4. \/ scaled(k) = values[k]
        \/ scaled(k) = WithScaling(values[k], ScalingOf(outputs[o(k)]), outputs[o(k)].off)
    OBVIOUS
  <2>5. QED
    BY <2>1, <2>2, <2>3, <2>4, WithScalingKeeps
<1> HIDE DEF steps, r
<1>13. Len(r) = Len(s)
  BY <1>6, <1>7, <1>9, <1>11 DEF Joins
<1>14. \A k \in 1 .. m : Place(11, m, 4, k) = n + k
  BY <1>2, <1>6 DEF Place
<1>15. \A i \in 1 .. Len(s) : r[i].index = s[i].index
  <2> TAKE i \in 1 .. Len(s)
  <2>1. CASE i <= n
    BY <1>1, <1>7, <1>11, <2>1 DEF Joins
  <2>2. CASE ~(i <= n)
    <3> DEFINE k == i - n
    <3>1. k \in 1 .. m /\ i = n + k
      BY <1>2, <1>6, <2>2
    <3> HIDE DEF k
    <3>2. r[i] = steps[k]
      BY <1>7, <1>9, <1>11, <3>1 DEF Joins
    <3>3. values[k] = s[i]
      BY <1>4, <1>14, <3>1 DEF IsColumn
    <3>4. QED
      BY <1>12, <3>1, <3>2, <3>3
  <2>3. QED
    BY <2>1, <2>2
<1>16. QED
  BY <1>3, <1>13, <1>15 DEF SameIndexes

-----------------------------------------------------------------------------
(* What the loader makes of a workbook is a profile.                       *)

\* Whose entries hold the rows of their sections, and where nothing is left out.
Sections(key, rows) == [kind \in EntryKinds |-> OfKind(key, rows, kind)]
IsSections(secs) ==
  Len(secs["curve"]) \in Nat /\ Len(secs["schedule_bc"]) \in Nat /\ Len(secs["schedule"]) \in Nat
Templates(ai, secs) ==
  /\ ai["curve"] \in Seq(Copies(4, 2, secs["curve"]))
  /\ ai["schedule_bc"] \in Seq(Copies(10, 2, secs["schedule_bc"]))
  /\ ai["schedule"] \in Seq(Copies(11, 4, secs["schedule"]))
Completes(ai, secs) ==
  /\ Complete(ai["curve"], secs["curve"], <<4, 2>>)
  /\ Complete(ai["schedule_bc"], secs["schedule_bc"], <<10, 2>>)
  /\ Complete(ai["schedule"], secs["schedule"], <<11, 4>>)

\* Entries of which none unwound.
LEMMA EntriesTyped ==
  ASSUME NEW C, NEW n \in Nat, NEW f,
         \A k \in 1 .. n : Panic \notin ToSet(f[k]) => f[k] \in C,
         f = [k \in 1 .. n |-> f[k]], ~Unwound(f)
  PROVE  f \in Seq(C)
<1>1. DOMAIN f = 1 .. n
  OBVIOUS
<1>2. \A k \in 1 .. n : f[k] \in C
  BY <1>1 DEF Unwound
<1>3. QED
  BY <1>2

\* What is complete stays so when every entry keeps its slots.
LEMMA CompleteKept ==
  ASSUME NEW h, NEW n, NEW S, NEW f \in Seq(S), NEW T, NEW g \in Seq(T), Len(g) = Len(f), NEW rows,
         \A k \in 1 .. Len(f) : Slots(g[k], h, n) = Slots(f[k], h, n), Complete(f, rows, <<h, n>>)
  PROVE  Complete(g, rows, <<h, n>>)
<1>1. Len(f) \in Nat
  OBVIOUS
<1>2. Complete(f, rows, <<h, n>>) <=>
        (Len(rows) >= h => Len(f) = 1 /\ Slots(f[1], h, n) = Slots(rows, h, n))
  BY DEF Complete
<1>3. Complete(g, rows, <<h, n>>) <=>
        (Len(rows) >= h => Len(g) = 1 /\ Slots(g[1], h, n) = Slots(rows, h, n))
  BY DEF Complete
<1>4. Len(f) = 1 => Slots(g[1], h, n) = Slots(f[1], h, n)
  BY <1>1
<1>5. QED
  BY <1>2, <1>3, <1>4

\* The entry of a section.
LEMMA EntryKept ==
  ASSUME NEW rows \in Seq(AiPoints), NEW h \in Nat, NEW n \in {2, 4}
  PROVE  Entry(rows, h, n) \in Seq(Copies(h, n, rows)) /\ Complete(Entry(rows, h, n), rows, <<h, n>>)
<1> DEFINE f == Entry(rows, h, n)
<1>0. Len(rows) \in Nat
  OBVIOUS
<1>5. f \in Seq(Long(h))
  BY EntryTyped
<1>1. f \in Seq(Long(h)) /\ Len(rows) \in Nat
  BY <1>0, <1>5
<1>2. CASE Len(rows) < h
  <2>1. f = <<>>
    BY <1>2 DEF Entry
  <2>2. ~(Len(rows) >= h)
    BY <1>1, <1>2
  <2> HIDE DEF f
  <2>3. <<h, n>>[1] = h
    OBVIOUS
  <2>4. Complete(f, rows, <<h, n>>)
    BY <2>2, <2>3 DEF Complete
  <2>5. f \in Seq(Copies(h, n, rows))
    BY <2>1
  <2>6. QED
    BY <2>4, <2>5 DEF f
<1>3. CASE ~(Len(rows) < h)
  <2>1. Len(f) = 1 /\ DOMAIN f = {1} /\ Slots(f[1], h, n) = Slots(rows, h, n) /\ Holds(f[1], rows, h, n)
    BY <1>3, EntryHolds
  <2> HIDE DEF f
  <2>6. f[1] \in Long(h) /\ DOMAIN f = 1 .. 1
    <3>1. Len(f) = 1
      BY <2>1
    <3>2. \A k \in 1 .. Len(f) : f[k] \in Long(h)
      BY <1>1
    <3>3. DOMAIN f = 1 .. Len(f)
      BY <1>1
    <3>4. QED
      BY <3>1, <3>2, <3>3
  <2>2. f[1] \in Copies(h, n, rows)
    BY <2>1, <2>6 DEF Copies
  <2>3. f \in Seq(Copies(h, n, rows))
    <3>1. \A k \in 1 .. 1 : f[k] \in Copies(h, n, rows)
      BY <2>2
    <3>2. f = [k \in 1 .. 1 |-> f[k]]
      BY <1>1, <2>6
    <3>3. QED
      BY <3>1, <3>2
  <2>4. Complete(f, rows, <<h, n>>)
    BY <2>1 DEF Complete
  <2>5. QED
    BY <2>3, <2>4 DEF f
<1>4. QED
  BY <1>2, <1>3

\* A curve, a BC schedule and a schedule that are scaled or reset hold what they
\* held.
LEMMA CurveKept ==
  ASSUME NEW rows, Len(rows) \in Nat, NEW c \in Copies(4, 2, rows), Panic \notin ToSet(CurveScaled(c))
  PROVE  CurveScaled(c) \in Copies(4, 2, rows) /\ Slots(CurveScaled(c), 4, 2) = Slots(c, 4, 2)
<1>1. c \in Long(4) /\ 4 \in Nat /\ 2 \in {2, 4}
  BY CopyIs
<1>2. CurveScaled(c) \in Long(4)
  BY <1>1, CurveScaledTyped
<1>3. CopyOf(CurveScaled(c), c, 4, 2) /\ Slots(CurveScaled(c), 4, 2) = Slots(c, 4, 2)
  BY <1>1, CurveScaledKeeps
<1>4. QED
  BY <1>1, <1>2, <1>3, CopyKept

LEMMA ResetKept ==
  ASSUME NEW rows, Len(rows) \in Nat, NEW h \in Nat, NEW n \in {2, 4}, NEW e \in Copies(h, n, rows),
         NEW i \in 1 .. h, NEW j \in 1 .. h, i # j
  PROVE  Disabled(e, i, j) \in Copies(h, n, rows) /\ Slots(Disabled(e, i, j), h, n) = Slots(e, h, n)
<1>1. e \in Long(h)
  BY CopyIs
<1>2. Disabled(e, i, j) \in Long(h) /\ SameIndexes(Disabled(e, i, j), e)
  BY <1>1, DisabledTyped, DisabledKeeps
<1>3. QED
  BY <1>2, AlikeKept

LEMMA ScheduleKept ==
  ASSUME NEW rows, Len(rows) \in Nat, NEW s \in Copies(11, 4, rows), NEW D, NEW outputs \in [D -> AoPoints],
         Panic \notin ToSet(ScheduleScaled(s, outputs))
  PROVE  /\ ScheduleScaled(s, outputs) \in Copies(11, 4, rows)
         /\ Slots(ScheduleScaled(s, outputs), 11, 4) = Slots(s, 11, 4)
<1>1. s \in Long(11) /\ 11 \in Nat /\ 4 \in {2, 4} /\ Len(s) = 11 + 4 * Slots(s, 11, 4)
  BY CopyIs
<1>2. ScheduleScaled(s, outputs) \in Long(11)
  BY <1>1, ScheduleScaledTyped
<1>3. SameIndexes(ScheduleScaled(s, outputs), s)
  BY <1>1, ScheduleScaledKeeps
<1>4. QED
  BY <1>1, <1>2, <1>3, AlikeKept

\* reclassify_ai makes records of analog inputs, those of curves and schedules
\* of the rows of their sections, unless a scaling unwinds.
LEMMA AiSorted ==
  ASSUME NEW ps \in Seq(AiPoints), NEW key, NEW D, NEW outputs \in [D -> AoPoints],
         ReclassifyAi(key, ps, outputs) # Panic
  PROVE  /\ ReclassifyAi(key, ps, outputs).records \in AiRecords
         /\ Templates(ReclassifyAi(key, ps, outputs).records, Sections(key, ps))
         /\ Completes(ReclassifyAi(key, ps, outputs).records, Sections(key, ps))
<1> DEFINE plain == OfKind(key, ps, "base")
           units(kind) == Equipment(OfKind(key, ps, kind), AiSize[kind]).records
           status == [k \in DOMAIN plain |-> StatusDefault(key, plain[k])]
           secs == Sections(key, ps)
           curve == Entry(OfKind(key, ps, "curve"), 4, 2)
           bc == Entry(OfKind(key, ps, "schedule_bc"), 10, 2)
           schedule == Entry(OfKind(key, ps, "schedule"), 11, 4)
           curves == [k \in DOMAIN curve |-> CurveScaled(curve[k])]
           bcs == [k \in DOMAIN bc |-> Disabled(bc[k], 8, 9)]
           schedules == [k \in DOMAIN schedule |-> ScheduleScaled(Disabled(schedule[k], 9, 10), outputs)]
           R == ReclassifyAi(key, ps, outputs).records
<1>1. /\ ~Unwound(curves) /\ ~Unwound(schedules)
      /\ R = [base |-> <<status>>, meter |-> units("meter"), der |-> units("der"),
              inverter |-> units("inverter"), battery |-> units("battery"),
              curve |-> curves, schedule_bc |-> bcs, schedule |-> schedules]
  BY DEF ReclassifyAi, OfKind
<1>2. \A kind : OfKind(key, ps, kind) \in Seq(AiPoints)
  BY OfKindIs
<1>3. \A kind : units(kind) \in Seq(Seq(AiPoints))
  BY <1>2, EquipmentTyped
<1>14. /\ \A kind \in EntryKinds : secs[kind] = OfKind(key, ps, kind) /\ Len(secs[kind]) \in Nat
       /\ "curve" \in EntryKinds /\ "schedule_bc" \in EntryKinds /\ "schedule" \in EntryKinds
  <2>1. \A kind : Len(OfKind(key, ps, kind)) \in Nat
    BY <1>2
  <2>2. "curve" \in EntryKinds /\ "schedule_bc" \in EntryKinds /\ "schedule" \in EntryKinds
    BY DEF EntryKinds, SelectorOf
  <2>3. secs = [kind \in EntryKinds |-> OfKind(key, ps, kind)]
    BY DEF Sections
  <2> HIDE DEF secs
  <2>4. \A kind \in EntryKinds : secs[kind] = OfKind(key, ps, kind)
    BY <2>3
  <2>5. QED
    BY <2>1, <2>2, <2>4
<1> HIDE DEF secs
<1>4. /\ curve \in Seq(Copies(4, 2, secs["curve"])) /\ Complete(curve, secs["curve"], <<4, 2>>)
      /\ bc \in Seq(Copies(10, 2, secs["schedule_bc"])) /\ Complete(bc, secs["schedule_bc"], <<10, 2>>)
      /\ schedule \in Seq(Copies(11, 4, secs["schedule"])) /\ Complete(schedule, secs["schedule"], <<11, 4>>)
  <2>1. /\ 4 \in Nat /\ 10 \in Nat /\ 11 \in Nat /\ 2 \in {2, 4} /\ 4 \in {2, 4}
    OBVIOUS
  <2>2. QED
    BY <1>2, <1>14, <2>1, EntryKept
<1>5. status \in Seq(AiPoints)
  <2>1. plain \in Seq(AiPoints)
    BY <1>2
  <2> HIDE DEF plain
  <2>2. \A k \in 1 .. Len(plain) : plain[k] \in AiPoints
    BY <2>1
  <2>3. \A k \in 1 .. Len(plain) : StatusDefault(key, plain[k]) \in AiPoints
    BY <2>2, StatusTyped
  <2>4. QED
    BY <2>1, <2>3
<1> HIDE DEF status, units, curve, bc, schedule, R
<1>6. curves \in Seq(Copies(4, 2, secs["curve"])) /\ Complete(curves, secs["curve"], <<4, 2>>)
  <2> DEFINE C == Copies(4, 2, secs["curve"])
  <2>1. Len(curve) \in Nat /\ DOMAIN curve = 1 .. Len(curve) /\ \A k \in 1 .. Len(curve) : curve[k] \in C
    BY <1>4
  <2>2. \A k \in 1 .. Len(curve) : Panic \notin ToSet(curves[k]) =>
          curves[k] \in C /\ Slots(curves[k], 4, 2) = Slots(curve[k], 4, 2)
    BY <1>14, <2>1, CurveKept
  <2>3. curves = [k \in 1 .. Len(curve) |-> curves[k]] /\ DOMAIN curves = 1 .. Len(curve)
    BY <2>1
  <2> HIDE DEF curves, C
  <2>4. curves \in Seq(C)
    BY <1>1, <2>1, <2>2, <2>3, EntriesTyped
  <2>5. \A k \in 1 .. Len(curve) : Panic \notin ToSet(curves[k])
    BY <1>1, <2>3 DEF Unwound
  <2>6. Len(curves) = Len(curve)
    BY <2>1, <2>3
  <2>7. curve \in Seq(C) /\ Complete(curve, secs["curve"], <<4, 2>>)
    BY <1>4 DEF C
  <2>8. Complete(curves, secs["curve"], <<4, 2>>)
    BY <2>2, <2>4, <2>5, <2>6, <2>7, CompleteKept
  <2>9. QED
    BY <2>4, <2>8 DEF C
<1>7. schedules \in Seq(Copies(11, 4, secs["schedule"])) /\ Complete(schedules, secs["schedule"], <<11, 4>>)
  <2> DEFINE C == Copies(11, 4, secs["schedule"])
             reset(k) == Disabled(schedule[k], 9, 10)
  <2>1. /\ Len(schedule) \in Nat /\ DOMAIN schedule = 1 .. Len(schedule)
        /\ \A k \in 1 .. Len(schedule) : schedule[k] \in C
    BY <1>4
  <2>2. \A k \in 1 .. Len(schedule) : reset(k) \in C /\ Slots(reset(k), 11, 4) = Slots(schedule[k], 11, 4)
    <3>1. 9 \in 1 .. 11 /\ 10 \in 1 .. 11 /\ 11 \in Nat /\ 4 \in {2, 4} /\ 9 # 10
      OBVIOUS
    <3>2. QED
      BY <1>14, <2>1, <3>1, ResetKept
  <2>3. schedules = [k \in 1 .. Len(schedule) |-> ScheduleScaled(reset(k), outputs)]
    BY <2>1
  <2> HIDE DEF schedules, reset, C
  <2>4. \A k \in 1 .. Len(schedule) : Panic \notin ToSet(schedules[k]) =>
          schedules[k] \in C /\ Slots(schedules[k], 11, 4) = Slots(schedule[k], 11, 4)
    <3> SUFFICES ASSUME NEW k \in 1 .. Len(schedule), Panic \notin ToSet(schedules[k])
                 PROVE  schedules[k] \in C /\ Slots(schedules[k], 11, 4) = Slots(schedule[k], 11, 4)
      OBVIOUS
    <3>1. schedules[k] = ScheduleScaled(reset(k), outputs)
      BY <2>3
    <3>2. reset(k) \in Copies(11, 4, secs["schedule"]) /\ Panic \notin ToSet(ScheduleScaled(reset(k), outputs))
      BY <2>2, <3>1 DEF C
    <3>3. /\ ScheduleScaled(reset(k), outputs) \in C
          /\ Slots(ScheduleScaled(reset(k), outputs), 11, 4) = Slots(reset(k), 11, 4)
      BY <1>14, <3>2, ScheduleKept DEF C
    <3>4. QED
      BY <2>2, <3>1, <3>3
  <2>5. schedules = [k \in 1 .. Len(schedule) |-> schedules[k]] /\ DOMAIN schedules = 1 .. Len(schedule)
    BY <2>3
  <2>6. schedules \in Seq(C)
    BY <1>1, <2>1, <2>4, <2>5, EntriesTyped
  <2>7. \A k \in 1 .. Len(schedule) : Panic \notin ToSet(schedules[k])
    BY <1>1, <2>5 DEF Unwound
  <2>8. Len(schedules) = Len(schedule)
    BY <2>1, <2>5
  <2>9. schedule \in Seq(C) /\ Complete(schedule, secs["schedule"], <<11, 4>>)
    BY <1>4 DEF C
  <2>10. Complete(schedules, secs["schedule"], <<11, 4>>)
    BY <2>4, <2>6, <2>7, <2>8, <2>9, CompleteKept
  <2>11. QED
    BY <2>6, <2>10 DEF C
<1>8. bcs \in Seq(Copies(10, 2, secs["schedule_bc"])) /\ Complete(bcs, secs["schedule_bc"], <<10, 2>>)
  <2> DEFINE C == Copies(10, 2, secs["schedule_bc"])
  <2>1. /\ Len(bc) \in Nat /\ DOMAIN bc = 1 .. Len(bc) /\ \A k \in 1 .. Len(bc) : bc[k] \in C
    BY <1>4
  <2>2. \A k \in 1 .. Len(bc) : /\ Disabled(bc[k], 8, 9) \in C
                                /\ Slots(Disabled(bc[k], 8, 9), 10, 2) = Slots(bc[k], 10, 2)
    <3>1. 8 \in 1 .. 10 /\ 9 \in 1 .. 10 /\ 10 \in Nat /\ 2 \in {2, 4} /\ 8 # 9
      OBVIOUS
    <3>2. QED
      BY <1>14, <2>1, <3>1, ResetKept
  <2>3. bcs = [k \in 1 .. Len(bc) |-> Disabled(bc[k], 8, 9)]
    BY <2>1
  <2> HIDE DEF bcs, C
  <2>4. bcs \in Seq(C) /\ Len(bcs) = Len(bc)
    BY <2>1, <2>2, <2>3
  <2>5. \A k \in 1 .. Len(bc) : Slots(bcs[k], 10, 2) = Slots(bc[k], 10, 2)
    BY <2>2, <2>3
  <2>6. bc \in Seq(C) /\ Complete(bc, secs["schedule_bc"], <<10, 2>>)
    BY <1>4 DEF C
  <2>7. Complete(bcs, secs["schedule_bc"], <<10, 2>>)
    BY <2>4, <2>5, <2>6, CompleteKept
  <2>8. QED
    BY <2>4, <2>7 DEF C
<1> HIDE DEF curves, bcs, schedules
<1>9. \A h, n, rows : Seq(Copies(h, n, rows)) \subseteq Seq(Seq(AiPoints))
  BY DEF Copies, Long
<1>10. /\ R["curve"] = curves /\ R["schedule_bc"] = bcs /\ R["schedule"] = schedules /\ R["base"] = <<status>>
       /\ R \in [ToSet(AiKinds) -> Seq(Seq(AiPoints))]
  <2>1. <<status>> \in Seq(Seq(AiPoints))
    BY <1>5
  <2>2. curves \in Seq(Seq(AiPoints)) /\ bcs \in Seq(Seq(AiPoints)) /\ schedules \in Seq(Seq(AiPoints))
    BY <1>6, <1>7, <1>8, <1>9
  <2>3. ToSet(AiKinds) = {"base", "meter", "der", "inverter", "battery", "curve", "schedule_bc", "schedule"}
    BY KindsAre
  <2> DEFINE one == <<status>>
  <2> HIDE DEF one
  <2>4. /\ one \in Seq(Seq(AiPoints))
        /\ R = [base |-> one, meter |-> units("meter"), der |-> units("der"),
                inverter |-> units("inverter"), battery |-> units("battery"),
                curve |-> curves, schedule_bc |-> bcs, schedule |-> schedules]
    BY <1>1, <2>1 DEF one
  <2>5. /\ R["curve"] = curves /\ R["schedule_bc"] = bcs /\ R["schedule"] = schedules /\ R["base"] = one
        /\ R \in [ToSet(AiKinds) -> Seq(Seq(AiPoints))]
    BY <1>3, <2>2, <2>3, <2>4
  <2>6. QED
    BY <2>5 DEF one
<1>11. Len(<<status>>) = 1
  OBVIOUS
<1>12. R \in AiRecords /\ Templates(R, secs) /\ Completes(R, secs)
  BY <1>6, <1>7, <1>8, <1>10, <1>11 DEF AiRecords, Records, Templates, Completes
<1>13. QED
  BY <1>12 DEF R, secs

IsRide(ride) ==
  /\ ride.type \in Int /\ ride.x \in Int /\ ride.y \in Int /\ ride.schedule \in Int /\ ride.bo \in Int
  /\ \A k \in 1 .. 4 : ride.points[k][1] \in Int /\ ride.points[k][2] \in Int

\* The rows of RIDE_THROUGH_MODES are numbers.
LEMMA RidesAre ==
  ASSUME NEW number \in 1 .. 4
  PROVE  IsRide(RideThrough[number])
<1>1. number = 1 \/ number = 2 \/ number = 3 \/ number = 4
  OBVIOUS
<1>2. CASE number = 1
  BY <1>2 DEF RideThrough, Ride, IsRide, Unit
<1>3. CASE number = 2
  BY <1>3 DEF RideThrough, Ride, IsRide, Unit
<1>4. CASE number = 3
  BY <1>4 DEF RideThrough, Ride, IsRide, Unit
<1>5. CASE number = 4
  BY <1>5 DEF RideThrough, Ride, IsRide, Unit
<1>6. QED
  BY <1>1, <1>2, <1>3, <1>4, <1>5

\* The twelve values of a curve.
LEMMA ValuesTyped ==
  ASSUME NEW ride, IsRide(ride)
  PROVE  /\ Values(ride) \in Seq(Int) /\ Len(Values(ride)) = 12
         /\ SubSeq(Values(ride), 1, 4) \in Seq(Int) /\ Len(SubSeq(Values(ride), 1, 4)) = 4
<1> DEFINE head == <<ride.type, 4 * Unit, ride.x, ride.y>>
           xs == [k \in 1 .. 4 |-> ride.points[k][1]]
           ys == [k \in 1 .. 4 |-> ride.points[k][2]]
<1>1. head \in Seq(Int) /\ Len(head) = 4
  BY DEF IsRide, Unit
<1>2. xs \in Seq(Int) /\ Len(xs) = 4 /\ ys \in Seq(Int) /\ Len(ys) = 4
  BY DEF IsRide
<1>3. Values(ride) = (head \o xs) \o ys
  BY DEF Values
<1> HIDE DEF head, xs, ys
<1> DEFINE both == head \o xs
<1>4. both \in Seq(Int) /\ Len(both) = 8
  <2>1. both \in Seq(Int) /\ Len(both) = Len(head) + Len(xs)
    BY <1>1, <1>2, ConcatParts
  <2> HIDE DEF both
  <2>2. QED
    BY <1>1, <1>2, <2>1
<1> HIDE DEF both
<1>5. both \o ys \in Seq(Int) /\ Len(both \o ys) = 12
  <2>1. both \o ys \in Seq(Int) /\ Len(both \o ys) = Len(both) + Len(ys)
    BY <1>2, <1>4, ConcatParts
  <2>2. QED
    BY <1>2, <1>4, <2>1
<1>6. Values(ride) \in Seq(Int) /\ Len(Values(ride)) = 12
  BY <1>3, <1>5 DEF both
<1>7. SubSeq(Values(ride), 1, 4) \in Seq(Int) /\ Len(SubSeq(Values(ride), 1, 4)) = 4
  <2>1. 4 <= Len(Values(ride)) /\ 1 \in Int /\ 4 \in Int /\ 4 - 1 + 1 = 4
    BY <1>6
  <2>2. QED
    BY <1>6, <2>1, PartIs
<1>8. QED
  BY <1>6, <1>7

\* What one step of a mode makes: an entry of those in C.
IsMade(m, C) == m.entry \in C /\ m.err \in BOOLEAN

\* n points that have the indexes of the first of a column, or an unwinding.
IsPlaced(m, col, n) ==
  m = Panic \/ (m.points \in Seq(AiPoints) /\ m.err \in BOOLEAN /\ Len(m.points) = n /\ Begins(m.points, col, n))

\* A column of a ride-through curve: as many points as there are values.
LEMMA PlacedTyped ==
  ASSUME NEW col \in Seq(AiPoints), NEW n \in Nat, n <= Len(col), NEW s, s = None \/ IsScaling(s),
         NEW values \in Seq(Int), Len(values) = n
  PROVE  IsPlaced(Placed(Rescaled(SubSeq(col, 1, n), s), values), col, n)
<1> DEFINE part == SubSeq(col, 1, n)
           scaled == Rescaled(part, s)
<1>1. part \in Seq(AiPoints) /\ Len(part) = n /\ \A k \in 1 .. n : part[k] = col[k]
  <2>1. 1 \in Int /\ n \in Int /\ 1 <= n + 1 /\ n - 1 + 1 = n
    OBVIOUS
  <2>2. part \in Seq(AiPoints) /\ Len(part) = n
    BY <2>1, PartIs
  <2>3. \A i \in 1 .. n : col[i] \in AiPoints
    OBVIOUS
  <2>4. \A i \in 1 .. n - 1 + 1 : part[i] = col[1 + i - 1]
    BY <2>1, <2>3, SubSeqProperties
  <2>5. QED
    BY <2>1, <2>2, <2>4
<1> HIDE DEF part
<1>2. scaled \in Seq(Scaled) /\ Len(scaled) = n
  BY <1>1, RescaledTyped
<1>3. CASE Panic \in ToSet(scaled)
  BY <1>3 DEF Placed, IsPlaced, part
<1>4. CASE Panic \notin ToSet(scaled)
  <2>1. SameIndexes(scaled, part)
    BY <1>1, <1>4, RescaledKeeps
  <2> HIDE DEF scaled
  <2>2. scaled \in Seq(AiPoints)
    BY <1>2, <1>4, NonePanics
  <2>3. /\ Cloned(scaled, values) \in Seq(AiPoints) /\ Len(Cloned(scaled, values)) = n
        /\ Unset(scaled, values) \in BOOLEAN
    BY <1>2, <2>2, ClonedTyped
  <2>4. \A k \in 1 .. n : Cloned(scaled, values)[k].index = scaled[k].index
    BY <1>2, <2>2, ClonedKeeps
  <2>5. \A k \in 1 .. n : scaled[k].index = col[k].index
    BY <1>1, <1>2, <2>1 DEF SameIndexes
  <2>6. Begins(Cloned(scaled, values), col, n)
    BY <2>4, <2>5 DEF Begins
  <2>7. Placed(scaled, values) = [points |-> Cloned(scaled, values), err |-> Unset(scaled, values)]
    BY <1>4 DEF Placed
  <2>8. IsPlaced(Placed(scaled, values), col, n)
    BY <2>3, <2>6, <2>7 DEF IsPlaced
  <2>9. QED
    BY <2>8 DEF scaled, part
<1>5. QED
  BY <1>3, <1>4

\* A ride-through curve holds the rows its template holds, or its scaling unwinds.
LEMMA RideCurveTyped ==
  ASSUME NEW rows, Len(rows) \in Nat, NEW t \in Copies(4, 2, rows), NEW ride, IsRide(ride)
  PROVE  RideCurve(t, ride) = Panic \/ IsMade(RideCurve(t, ride), Copies(4, 2, rows))
<1> DEFINE n == Lesser(4, Slots(t, 4, 2))
           column(c) == [k \in 1 .. n |-> ride.points[k][c]]
           xs == Placed(Rescaled(SubSeq(Xs(t), 1, n), XScaling(ride.x \div Unit)), column(1))
           ys == Placed(Rescaled(SubSeq(Ys(t), 1, n), YScaling(ride.y \div Unit)), column(2))
           head == SubSeq(Values(ride), 1, 4)
           curve == Cloned(t, head) \o xs.points \o ys.points
           err == n < 4 \/ Unset(t, head) \/ xs.err \/ ys.err
<1>1. RideCurve(t, ride) = IF xs = Panic \/ ys = Panic THEN Panic ELSE CurveMade(CurveScaled(curve), err)
  BY DEF RideCurve
<1>20. 4 \in Nat /\ 2 \in {2, 4} /\ 1 \in 1 .. 2 /\ 2 \in 1 .. 2
  OBVIOUS
<1>2. t \in Seq(AiPoints) /\ 4 <= Len(t) /\ Len(t) \in Nat
  BY <1>20, CopyIs
<1>3. /\ Slots(t, 4, 2) \in Nat
      /\ Xs(t) \in Seq(AiPoints) /\ Len(Xs(t)) = Slots(t, 4, 2)
      /\ Ys(t) \in Seq(AiPoints) /\ Len(Ys(t)) = Slots(t, 4, 2)
  BY <1>2, <1>20, ColumnTyped DEF Xs, Ys
<1>4. n \in Nat /\ n <= 4 /\ n <= Slots(t, 4, 2)
  BY <1>3 DEF Lesser
<1> HIDE DEF n
<1>6. column(1) \in Seq(Int) /\ Len(column(1)) = n /\ column(2) \in Seq(Int) /\ Len(column(2)) = n
  <2>6. \A k \in 1 .. n : k \in 1 .. 4
    BY <1>4
  <2>1. \A k \in 1 .. n : ride.points[k][1] \in Int /\ ride.points[k][2] \in Int
    BY <2>6 DEF IsRide
  <2>2. column(1) = [k \in 1 .. n |-> ride.points[k][1]] /\ column(2) = [k \in 1 .. n |-> ride.points[k][2]]
    OBVIOUS
  <2> HIDE DEF column
  <2>3. column(1) \in [1 .. n -> Int] /\ column(2) \in [1 .. n -> Int]
    BY <2>1, <2>2
  <2>4. \A f \in [1 .. n -> Int] : f \in Seq(Int) /\ Len(f) = n
    BY <1>4
  <2>5. QED
    BY <2>3, <2>4
<1> HIDE DEF column
<1>7. IsPlaced(xs, Xs(t), n)
  BY <1>3, <1>4, <1>6, PlacedTyped, UnitScaling
<1>8. IsPlaced(ys, Ys(t), n)
  BY <1>3, <1>4, <1>6, PlacedTyped, UnitScaling
<1> HIDE DEF xs, ys
<1>9. CASE ~(xs = Panic \/ ys = Panic)
  <2> DEFINE first == Cloned(t, head)
  <2>1. first \in Seq(AiPoints) /\ Len(first) = 4 /\ Unset(t, head) \in BOOLEAN /\ Begins(first, t, 4)
    <3>1. head \in Seq(Int) /\ Len(head) = 4
      BY ValuesTyped
    <3> HIDE DEF head
    <3>2. Cloned(t, head) \in Seq(AiPoints) /\ Len(Cloned(t, head)) = 4 /\ Unset(t, head) \in BOOLEAN
      BY <1>2, <3>1, ClonedTyped
    <3>3. \A k \in 1 .. 4 : Cloned(t, head)[k].index = t[k].index
      BY <1>2, <3>1, ClonedKeeps
    <3>4. QED
      BY <3>2, <3>3 DEF Begins
  <2>2. /\ xs.points \in Seq(AiPoints) /\ Len(xs.points) = n /\ Begins(xs.points, Column(t, 4, 2, 1), n)
        /\ ys.points \in Seq(AiPoints) /\ Len(ys.points) = n /\ Begins(ys.points, Column(t, 4, 2, 2), n)
    BY <1>7, <1>8, <1>9 DEF IsPlaced, Xs, Ys
  <2>6. err \in BOOLEAN
    BY <1>7, <1>8, <1>9, <2>1 DEF IsPlaced
  <2> HIDE DEF first, head
  <2>3. CopyMade(AiPoints, first \o xs.points \o ys.points, t, 4, 2, n)
    BY <1>3, <1>4, <1>20, <2>1, <2>2, TwoRepeat
  <2>4. curve \in Seq(AiPoints) /\ CopyOf(curve, t, 4, 2) /\ Slots(curve, 4, 2) = n
    BY <2>3 DEF CopyMade, first
  <2> HIDE DEF curve, err
  <2>13. curve \in Long(4)
    <3>1. Len(curve) = 4 + 2 * n
      BY <2>4 DEF CopyOf
    <3>2. QED
      BY <1>4, <2>4, <3>1 DEF Long
  <2>5. curve \in Copies(4, 2, rows)
    BY <1>20, <2>4, <2>13, CopyKept
  <2>7. RideCurve(t, ride) = CurveMade(CurveScaled(curve), err)
    BY <1>1, <1>9 DEF curve, err
  <2>8. Panic \notin ToSet(CurveScaled(curve)) => CurveScaled(curve) \in Copies(4, 2, rows)
    BY <2>5, CurveKept
  <2> DEFINE scaled == CurveScaled(curve)
             made == [entry |-> scaled, err |-> err \/ ~CurveValid(scaled)]
  <2>9. CASE Panic \in ToSet(scaled)
    BY <2>7, <2>9 DEF CurveMade
  <2>11. CASE Panic \notin ToSet(scaled)
    <3>1. RideCurve(t, ride) = made
      BY <2>7, <2>11 DEF CurveMade
    <3>2. made.entry = scaled /\ made.err = (err \/ ~CurveValid(scaled))
      OBVIOUS
    <3>3. (err \/ ~CurveValid(scaled)) \in BOOLEAN
      OBVIOUS
    <3> HIDE DEF made
    <3>4. QED
      BY <2>8, <2>11, <3>1, <3>2, <3>3 DEF IsMade
  <2>12. QED
    BY <2>9, <2>11
<1>10. QED
  BY <1>1, <1>9

\* So does a ride-through BC schedule, or there is no slot and it unwinds.
LEMMA RideBcTyped ==
  ASSUME NEW rows, Len(rows) \in Nat, NEW t \in Copies(10, 2, rows), NEW ride, IsRide(ride), NEW id \in Int
  PROVE  RideBc(t, ride, id) = Panic \/ IsMade(RideBc(t, ride, id), Copies(10, 2, rows))
<1> DEFINE head == <<id, Unit, ride.schedule, 0, 0, 0, 0, 2 * Unit, 2 * Unit, Unit>>
           slot == <<Column(t, 10, 2, 1)[1], Column(t, 10, 2, 2)[1]>>
           given == <<0, Unit>>
<1>1. RideBc(t, ride, id) = IF Slots(t, 10, 2) = 0 THEN Panic
                            ELSE [entry |-> Cloned(t, head) \o Cloned(slot, given),
                                  err |-> Unset(t, head) \/ Unset(slot, given)]
  BY DEF RideBc
<1>2. CASE Slots(t, 10, 2) # 0
  <2>20. 10 \in Nat /\ 2 \in {2, 4} /\ 1 \in 1 .. 2 /\ 2 \in 1 .. 2 /\ 1 \in Nat
    OBVIOUS
  <2>1. t \in Seq(AiPoints) /\ 10 <= Len(t)
    BY <2>20, CopyIs
  <2>2. /\ Slots(t, 10, 2) \in Nat
        /\ Column(t, 10, 2, 1) \in Seq(AiPoints) /\ Len(Column(t, 10, 2, 1)) = Slots(t, 10, 2)
        /\ Column(t, 10, 2, 2) \in Seq(AiPoints) /\ Len(Column(t, 10, 2, 2)) = Slots(t, 10, 2)
    BY <2>1, <2>20, ColumnTyped
  <2>21. 1 <= Slots(t, 10, 2)
    BY <1>2, <2>2
  <2>3. Column(t, 10, 2, 1)[1] \in AiPoints /\ Column(t, 10, 2, 2)[1] \in AiPoints
    BY <2>2, <2>21
  <2>4. slot \in Seq(AiPoints) /\ Len(slot) = 2 /\ slot[1] = Column(t, 10, 2, 1)[1] /\ slot[2] = Column(t, 10, 2, 2)[1]
    BY <2>3
  <2>5. head \in Seq(Int) /\ Len(head) = 10 /\ given \in Seq(Int) /\ Len(given) = 2
    BY DEF IsRide, Unit
  <2> HIDE DEF head, slot, given
  <2> DEFINE first == Cloned(t, head)
             last == Cloned(slot, given)
             x == <<last[1]>>
             y == <<last[2]>>
  <2>6. first \in Seq(AiPoints) /\ Len(first) = 10 /\ Begins(first, t, 10)
    <3>1. Cloned(t, head) \in Seq(AiPoints) /\ Len(Cloned(t, head)) = 10
      BY <2>1, <2>5, ClonedTyped
    <3>2. \A k \in 1 .. 10 : Cloned(t, head)[k].index = t[k].index
      BY <2>1, <2>5, ClonedKeeps
    <3>3. QED
      BY <3>1, <3>2 DEF Begins
  <2>7. last \in Seq(AiPoints) /\ Len(last) = 2 /\ \A k \in 1 .. 2 : last[k].index = slot[k].index
    <3>1. Cloned(slot, given) \in Seq(AiPoints) /\ Len(Cloned(slot, given)) = 2
      BY <2>4, <2>5, ClonedTyped
    <3>2. Len(given) <= Len(slot)
      BY <2>4, <2>5
    <3>3. \A k \in 1 .. Len(given) : Cloned(slot, given)[k].index = slot[k].index
      BY <2>4, <2>5, <3>2, ClonedKeeps
    <3>4. QED
      BY <2>5, <3>1, <3>3
  <2> HIDE DEF first, last
  <2>8. x \in Seq(AiPoints) /\ Len(x) = 1 /\ y \in Seq(AiPoints) /\ Len(y) = 1
    <3>4. last \in Seq(AiPoints) /\ Len(last) = 2
      BY <2>7
    <3>1. \A k \in 1 .. Len(last) : last[k] \in AiPoints
      BY <3>4
    <3>2. last[1] \in AiPoints /\ last[2] \in AiPoints
      BY <2>20, <3>1, <3>4
    <3>3. QED
      BY <3>2
  <2>9. Begins(x, Column(t, 10, 2, 1), 1) /\ Begins(y, Column(t, 10, 2, 2), 1)
    <3>1. last[1].index = slot[1].index /\ last[2].index = slot[2].index
      BY <2>7, <2>20
    <3>2. \A k \in 1 .. 1 : k = 1
      OBVIOUS
    <3>3. x[1] = last[1] /\ y[1] = last[2]
      OBVIOUS
    <3> HIDE DEF x, y
    <3>4. QED
      BY <2>4, <3>1, <3>2, <3>3 DEF Begins
  <2>10. last = x \o y
    BY <2>7
  <2> HIDE DEF x, y
  <2>11. CopyMade(AiPoints, first \o x \o y, t, 10, 2, 1)
    BY <2>2, <2>6, <2>8, <2>9, <2>20, <2>21, TwoRepeat
  <2> DEFINE entry == first \o last
             err == Unset(t, head) \/ Unset(slot, given)
  <2>19. SameBoth(first, x, y)
    BY <2>6, <2>8, EitherWay
  <2>12. entry = first \o x \o y
    BY <2>10, <2>19 DEF SameBoth
  <2>13. entry \in Seq(AiPoints) /\ CopyOf(entry, t, 10, 2) /\ Slots(entry, 10, 2) = 1
    BY <2>11, <2>12 DEF CopyMade
  <2> HIDE DEF entry
  <2>14. entry \in Long(10)
    <3>1. Len(entry) = 10 + 2 * Slots(entry, 10, 2)
      BY <2>13 DEF CopyOf
    <3>4. Slots(entry, 10, 2) = 1
      BY <2>13
    <3>2. Len(entry) = 12
      BY <3>1, <3>4
    <3>5. entry \in Seq(AiPoints) /\ Len(entry) >= 10
      BY <2>13, <3>2
    <3>3. QED
      BY <3>5 DEF Long
  <2>15. entry \in Copies(10, 2, rows)
    BY <2>13, <2>14, <2>20, CopyKept
  <2>16. err \in BOOLEAN
    OBVIOUS
  <2> HIDE DEF err
  <2>17. RideBc(t, ride, id) = [entry |-> entry, err |-> err]
    BY <1>1, <1>2 DEF entry, err, first, last
  <2>18. QED
    BY <2>15, <2>16, <2>17 DEF IsMade
<1>3. QED
  BY <1>1, <1>2

\* What a function of numbers gives.
LEMMA FunctionGives ==
  ASSUME NEW f \in Functions, NEW i \in DOMAIN f
  PROVE  i \in Int /\ f[i] \in Int
BY DEF Functions

\* The selector that edits the curves is a point, or there is none.
LEMMA SelectorTyped ==
  ASSUME NEW index, index.toAo \in Functions, index.toBo \in Functions, NEW start
  PROVE  Selector(index, start) = Panic \/ Selector(index, start) \in Int \X Int
<1>1. start \in DOMAIN index.toAo => index.toAo[start] \in Int
  BY FunctionGives
<1>2. start \in DOMAIN index.toBo => index.toBo[start] \in Int
  BY FunctionGives
<1>3. AoAction \in Int /\ BoAction \in Int
  BY DEF AoAction, BoAction, Unit
<1>4. QED
  BY <1>1, <1>2, <1>3 DEF Selector

\* A step of a schedule: what is written, where, and the value.
StepsOf == Int \X Int \X Int

\* The steps that write a curve: an action, a point and a value each.
LEMMA StepsTyped ==
  ASSUME NEW c, NEW ride, IsRide(ride), NEW id \in Int, NEW index, index.toAo \in Functions,
         NEW selector \in Int \X Int
  PROVE  Steps(c, ride, id, index, selector) \in Seq(StepsOf)
<1> DEFINE value == Values(ride)
           target(k) == index.toAo[c[k].index] * Unit
           write(k) == IF c[k].index \in DOMAIN index.toAo THEN <<<<AoAction, target(k), value[k]>>>> ELSE <<>>
           writes == [k \in 1 .. 12 |-> write(k)]
           first == <<<<selector[1], selector[2] * Unit, id>>>>
           last == IF ride.bo \in index.bo THEN <<<<BoAction, ride.bo * Unit, Unit>>>> ELSE <<>>
<1>1. Steps(c, ride, id, index, selector) = (first \o FlattenSeq(writes)) \o last
  BY DEF Steps
<1>2. AoAction \in Int /\ BoAction \in Int /\ Unit \in Int /\ \A k \in 1 .. 12 : value[k] \in Int
  <2>1. value \in Seq(Int) /\ Len(value) = 12
    BY ValuesTyped
  <2>2. \A k \in 1 .. 12 : value[k] \in Int
    <3>1. \A s \in Seq(Int) : \A k \in 1 .. Len(s) : s[k] \in Int
      OBVIOUS
    <3>2. \A k \in 1 .. Len(value) : value[k] \in Int
      BY <2>1, <3>1
    <3>3. QED
      BY <2>1, <3>2
  <2>3. QED
    BY <2>2 DEF AoAction, BoAction, Unit
<1> HIDE DEF value
<1>3. ASSUME NEW k \in 1 .. 12
      PROVE  write(k) \in Seq(StepsOf)
  <2>1. CASE c[k].index \in DOMAIN index.toAo
    <3>1. target(k) \in Int
      BY <1>2, <2>1, FunctionGives
    <3> HIDE DEF target
    <3> DEFINE step == <<AoAction, target(k), value[k]>>
    <3>2. step \in StepsOf
      BY <1>2, <3>1 DEF StepsOf
    <3> HIDE DEF step
    <3>3. <<step>> \in Seq(StepsOf)
      BY <3>2
    <3>4. QED
      BY <2>1, <3>3 DEF step
  <2>2. CASE c[k].index \notin DOMAIN index.toAo
    BY <2>2
  <2>3. QED
    BY <2>1, <2>2
<1>4. writes \in Seq(Seq(StepsOf))
  <2> HIDE DEF write
  <2>1. QED
    BY <1>3
<1> HIDE DEF writes
<1>5. FlattenSeq(writes) \in Seq(StepsOf)
  BY <1>4, FirstOfFlat
<1>6. first \in Seq(StepsOf)
  <2> DEFINE step == <<selector[1], selector[2] * Unit, id>>
  <2>1. step \in StepsOf
    BY <1>2 DEF StepsOf
  <2> HIDE DEF step
  <2>2. <<step>> \in Seq(StepsOf)
    BY <2>1
  <2>3. QED
    BY <2>2 DEF step
<1>7. last \in Seq(StepsOf)
  <2> DEFINE step == <<BoAction, ride.bo * Unit, Unit>>
  <2>1. step \in StepsOf
    BY <1>2 DEF StepsOf, IsRide
  <2> HIDE DEF step
  <2>2. <<step>> \in Seq(StepsOf)
    BY <2>1
  <2>3. QED
    BY <2>2 DEF step
<1> HIDE DEF first, last
<1>8. first \o FlattenSeq(writes) \in Seq(StepsOf)
  BY <1>5, <1>6
<1>9. QED
  BY <1>1, <1>7, <1>8

\* The steps there is room for in the template.
LEMMA FittingTyped ==
  ASSUME NEW t \in Long(11), NEW steps \in Seq(StepsOf)
  PROVE  Fitting(t, steps) \in Seq(StepsOf) /\ Len(Fitting(t, steps)) <= Slots(t, 11, 4)
<1> DEFINE n == Lesser(Len(steps), Slots(t, 11, 4))
<1>1. Slots(t, 11, 4) \in Nat
  <2>1. t \in Seq(AiPoints) /\ 11 <= Len(t) /\ 11 \in Nat /\ 4 \in {2, 4} /\ 1 \in 1 .. 4
    BY DEF Long
  <2>2. QED
    BY <2>1, ColumnTyped
<1>2. n \in Nat /\ n <= Len(steps) /\ n <= Slots(t, 11, 4)
  BY <1>1 DEF Lesser
<1> HIDE DEF n
<1>3. 1 \in Int /\ n \in Int /\ 1 <= n + 1 /\ n - 1 + 1 = n
  BY <1>2
<1>4. SubSeq(steps, 1, n) \in Seq(StepsOf) /\ Len(SubSeq(steps, 1, n)) = n - 1 + 1
  BY <1>2, <1>3, PartIs
<1>5. Fitting(t, steps) = SubSeq(steps, 1, n)
  BY DEF Fitting, n
<1>6. QED
  BY <1>2, <1>3, <1>4, <1>5

\* The parts of steps are numbers.
LEMMA StepsAre ==
  ASSUME NEW steps \in Seq(StepsOf)
  PROVE  /\ Len(steps) \in Nat /\ DOMAIN steps = 1 .. Len(steps)
         /\ \A k \in 1 .. Len(steps) : steps[k][1] \in Int /\ steps[k][2] \in Int /\ steps[k][3] \in Int
<1>1. \A k \in 1 .. Len(steps) : steps[k] \in StepsOf
  OBVIOUS
<1>2. QED
  BY <1>1 DEF StepsOf

\* The values of a schedule, scaled like the outputs they write.
LEMMA WritingTyped ==
  ASSUME NEW t \in Long(11), NEW steps \in Seq(StepsOf), Len(steps) <= Slots(t, 11, 4),
         NEW D, NEW outputs \in [D -> AoPoints]
  PROVE  /\ Writing(t, steps, outputs) \in Seq(Scaled) /\ Len(Writing(t, steps, outputs)) = Len(steps)
         /\ Panic \notin ToSet(Writing(t, steps, outputs)) =>
              Begins(Writing(t, steps, outputs), StepValues(t), Len(steps))
<1> DEFINE values == StepValues(t)
           o(k) == steps[k][2] \div Unit
           value(k) == IF steps[k][1] = AoAction /\ o(k) \in DOMAIN outputs
                       THEN WithScaling(values[k], ScalingOf(outputs[o(k)]), outputs[o(k)].off)
                       ELSE values[k]
<1>1. Len(steps) \in Nat /\ DOMAIN steps = 1 .. Len(steps)
  BY StepsAre
<1>2. \A k \in 1 .. Len(steps) : values[k] \in AiPoints
  BY <1>1, ScheduleColumns
<1> HIDE DEF values
<1>3. ASSUME NEW k \in 1 .. Len(steps)
      PROVE  value(k) \in Scaled
  <2>1. CASE steps[k][1] = AoAction /\ o(k) \in DOMAIN outputs
    <3>1. outputs[o(k)] \in AoPoints
      BY <2>1
    <3>2. IsScaling(ScalingOf(outputs[o(k)])) /\ outputs[o(k)].off \in Int
      BY <3>1, OutputScaling
    <3>3. WithScaling(values[k], ScalingOf(outputs[o(k)]), outputs[o(k)].off) \in Scaled
      BY <1>2, <3>2, WithScalingTyped
    <3>4. QED
      BY <2>1, <3>3
  <2>2. CASE ~(steps[k][1] = AoAction /\ o(k) \in DOMAIN outputs)
    BY <1>2, <2>2 DEF Scaled
  <2>3. QED
    BY <2>1, <2>2
<1>4. Writing(t, steps, outputs) = [k \in 1 .. Len(steps) |-> value(k)]
  BY <1>1 DEF Writing, values
<1>6. \A k \in 1 .. Len(steps) : value(k) # Panic => value(k).index = values[k].index
  BY <1>2, WithScalingKeeps
<1> HIDE DEF value
<1> DEFINE written == Writing(t, steps, outputs)
<1>5. written \in Seq(Scaled) /\ Len(written) = Len(steps)
  BY <1>1, <1>3, <1>4
<1>7. \A k \in 1 .. Len(steps) : written[k] = value(k) /\ k \in DOMAIN written
  BY <1>4
<1> HIDE DEF written
<1>8. Panic \notin ToSet(written) => Begins(written, values, Len(steps))
  BY <1>6, <1>7 DEF Begins, ToSet
<1>9. QED
  BY <1>5, <1>8 DEF written, values

\* A schedule filled with steps holds the rows its template holds, as many slots
\* as there are steps, or its scaling unwinds.
LEMMA FilledTyped ==
  ASSUME NEW rows, Len(rows) \in Nat, NEW t \in Copies(11, 4, rows), NEW id \in Int,
         NEW steps \in Seq(StepsOf), Len(steps) <= Slots(t, 11, 4),
         NEW values \in Seq(Scaled), Len(values) = Len(steps),
         Panic \notin ToSet(values) => Begins(values, StepValues(t), Len(steps)),
         NEW D, NEW outputs \in [D -> AoPoints]
  PROVE  \/ Filled(t, id, steps, values, outputs) = Panic
         \/ IsMade(Filled(t, id, steps, values, outputs), Copies(11, 4, rows))
<1> DEFINE given(j) == [k \in DOMAIN steps |-> steps[k][j]]
           head == <<id, Unit, 0, 0, 0, 0, 0, 0, 2 * Unit, 2 * Unit, Len(steps) * Unit>>
           zeros == [k \in DOMAIN steps |-> 0]
           a == Cloned(t, head)
           b == Cloned(Offsets(t), zeros)
           c == Cloned(ActionTypes(t), given(1))
           d == Cloned(ActionIndexes(t), given(2))
           e == Cloned(values, given(3))
           made == a \o b \o c \o d \o e
           err == \/ Unset(t, head) \/ Unset(Offsets(t), zeros) \/ Unset(ActionTypes(t), given(1))
                  \/ Unset(ActionIndexes(t), given(2)) \/ Unset(values, given(3))
<1>1. Filled(t, id, steps, values, outputs) =
        IF Panic \in ToSet(values) THEN Panic ELSE ScheduleMade(ScheduleScaled(made, outputs), err)
  BY DEF Filled
<1>2. CASE Panic \notin ToSet(values)
  <2>1. values \in Seq(AiPoints)
    BY <1>2, NonePanics
  <2>2. /\ given(1) \in Seq(Int) /\ Len(given(1)) = Len(steps)
        /\ given(2) \in Seq(Int) /\ Len(given(2)) = Len(steps)
        /\ given(3) \in Seq(Int) /\ Len(given(3)) = Len(steps)
        /\ zeros \in Seq(Int) /\ Len(zeros) = Len(steps)
    <3>1. /\ given(1) \in [1 .. Len(steps) -> Int] /\ given(2) \in [1 .. Len(steps) -> Int]
          /\ given(3) \in [1 .. Len(steps) -> Int] /\ zeros \in [1 .. Len(steps) -> Int]
      BY StepsAre
    <3>2. Len(steps) \in Nat
      OBVIOUS
    <3>3. \A f \in [1 .. Len(steps) -> Int] : f \in Seq(Int) /\ Len(f) = Len(steps)
      BY <3>2
    <3> HIDE DEF given, zeros
    <3>4. QED
      BY <3>1, <3>3
  <2>3. head \in Seq(Int) /\ Len(head) = 11
    BY DEF Unit
  <2> HIDE DEF given, zeros, head
  <2>20. 11 \in Nat /\ 4 \in {2, 4} /\ Len(steps) \in Nat /\ t \in Long(11) /\ Slots(t, 11, 4) \in Nat
    <3>1. 11 \in Nat /\ 4 \in {2, 4} /\ Len(steps) \in Nat
      OBVIOUS
    <3>2. QED
      BY <3>1, CopyIs
  <2>4. t \in Seq(AiPoints) /\ Len(t) \in Nat /\ 11 <= Len(t)
    BY <2>20 DEF Long
  <2>5. a \in Seq(AiPoints) /\ Len(a) = 11 /\ Unset(t, head) \in BOOLEAN /\ Begins(a, t, 11)
    <3>1. a \in Seq(AiPoints) /\ Len(a) = 11 /\ Unset(t, head) \in BOOLEAN
      BY <2>3, <2>4, ClonedTyped
    <3>2. \A k \in 1 .. 11 : a[k].index = t[k].index
      BY <2>3, <2>4, ClonedKeeps
    <3> HIDE DEF a
    <3>3. QED
      BY <3>1, <3>2 DEF Begins
  <2>6. /\ b \in Seq(AiPoints) /\ Len(b) = Len(steps) /\ Unset(Offsets(t), zeros) \in BOOLEAN
        /\ Begins(b, Column(t, 11, 4, 1), Len(steps))
    <3>1. Offsets(t) \in Seq(AiPoints) /\ zeros \in Seq(Int) /\ Len(zeros) = Len(steps) /\ Len(zeros) <= Len(Offsets(t))
      BY <2>2, <2>20, ScheduleColumns
    <3>2. b \in Seq(AiPoints) /\ Len(b) = Len(steps) /\ Unset(Offsets(t), zeros) \in BOOLEAN
      BY <3>1, ClonedTyped
    <3>3. \A k \in 1 .. Len(steps) : b[k].index = Offsets(t)[k].index
      BY <3>1, ClonedKeeps
    <3> HIDE DEF b
    <3>4. QED
      BY <3>2, <3>3 DEF Begins, Offsets
  <2>7. /\ c \in Seq(AiPoints) /\ Len(c) = Len(steps) /\ Unset(ActionTypes(t), given(1)) \in BOOLEAN
        /\ Begins(c, Column(t, 11, 4, 2), Len(steps))
    <3>1. ActionTypes(t) \in Seq(AiPoints) /\ given(1) \in Seq(Int) /\ Len(given(1)) = Len(steps) /\ Len(given(1)) <= Len(ActionTypes(t))
      BY <2>2, <2>20, ScheduleColumns
    <3>2. c \in Seq(AiPoints) /\ Len(c) = Len(steps) /\ Unset(ActionTypes(t), given(1)) \in BOOLEAN
      BY <3>1, ClonedTyped
    <3>3. \A k \in 1 .. Len(steps) : c[k].index = ActionTypes(t)[k].index
      BY <3>1, ClonedKeeps
    <3> HIDE DEF c
    <3>4. QED
      BY <3>2, <3>3 DEF Begins, ActionTypes
  <2>8. /\ d \in Seq(AiPoints) /\ Len(d) = Len(steps) /\ Unset(ActionIndexes(t), given(2)) \in BOOLEAN
        /\ Begins(d, Column(t, 11, 4, 3), Len(steps))
    <3>1. ActionIndexes(t) \in Seq(AiPoints) /\ given(2) \in Seq(Int) /\ Len(given(2)) = Len(steps) /\ Len(given(2)) <= Len(ActionIndexes(t))
      BY <2>2, <2>20, ScheduleColumns
    <3>2. d \in Seq(AiPoints) /\ Len(d) = Len(steps) /\ Unset(ActionIndexes(t), given(2)) \in BOOLEAN
      BY <3>1, ClonedTyped
    <3>3. \A k \in 1 .. Len(steps) : d[k].index = ActionIndexes(t)[k].index
      BY <3>1, ClonedKeeps
    <3> HIDE DEF d
    <3>4. QED
      BY <3>2, <3>3 DEF Begins, ActionIndexes
  <2>9. /\ e \in Seq(AiPoints) /\ Len(e) = Len(steps) /\ Unset(values, given(3)) \in BOOLEAN
        /\ Begins(e, Column(t, 11, 4, 4), Len(steps))
    <3>1. given(3) \in Seq(Int) /\ Len(given(3)) = Len(steps) /\ Len(given(3)) <= Len(values)
      BY <2>2, <2>20
    <3>2. e \in Seq(AiPoints) /\ Len(e) = Len(steps) /\ Unset(values, given(3)) \in BOOLEAN
      BY <2>1, <3>1, ClonedTyped
    <3>3. \A k \in 1 .. Len(steps) : e[k].index = values[k].index
      BY <2>1, <3>1, ClonedKeeps
    <3> HIDE DEF e
    <3>4. \A k \in 1 .. Len(steps) : values[k].index = StepValues(t)[k].index
      BY <1>2 DEF Begins
    <3>5. QED
      BY <3>2, <3>3, <3>4 DEF Begins, StepValues
  <2> HIDE DEF a, b, c, d, e
  <2>10. err \in BOOLEAN
    BY <2>5, <2>6, <2>7, <2>8, <2>9
  <2> HIDE DEF err
  <2>11. CopyMade(AiPoints, a \o b \o c \o d \o e, t, 11, 4, Len(steps))
    BY <2>5, <2>6, <2>7, <2>8, <2>9, <2>20, FourRepeat
  <2>12. made \in Seq(AiPoints) /\ CopyOf(made, t, 11, 4) /\ Slots(made, 11, 4) = Len(steps)
    BY <2>11 DEF CopyMade
  <2> HIDE DEF made
  <2>13. made \in Long(11)
    <3>1. Len(made) = 11 + 4 * Slots(made, 11, 4) /\ Slots(made, 11, 4) \in Nat
      BY <2>12 DEF CopyOf
    <3>2. made \in Seq(AiPoints) /\ Len(made) >= 11
      BY <2>12, <3>1
    <3>3. QED
      BY <3>2 DEF Long
  <2>16. made \in Copies(11, 4, rows)
    BY <2>12, <2>13, <2>20, CopyKept
  <2> DEFINE s == ScheduleScaled(made, outputs)
  <2>17. Panic \notin ToSet(s) => s \in Copies(11, 4, rows)
    BY <2>16, ScheduleKept
  <2>18. Filled(t, id, steps, values, outputs) = ScheduleMade(s, err)
    BY <1>1, <1>2 DEF made, err, a, b, c, d, e
  <2> HIDE DEF s
  <2>19. QED
    BY <2>10, <2>17, <2>18 DEF ScheduleMade, IsMade
<1>3. QED
  BY <1>1, <1>2

\* The schedule of a mode holds the rows its template holds, or it unwinds.
LEMMA RideScheduleTyped ==
  ASSUME NEW rows, Len(rows) \in Nat, NEW t \in Copies(11, 4, rows), NEW c, NEW ride, IsRide(ride), NEW id \in Int,
         NEW index, index.toAo \in Functions, index.toBo \in Functions,
         NEW D, NEW outputs \in [D -> AoPoints], NEW start
  PROVE  \/ RideSchedule(t, c, ride, id, index, outputs, start) = Panic
         \/ IsMade(RideSchedule(t, c, ride, id, index, outputs, start), Copies(11, 4, rows))
<1> DEFINE selector == Selector(index, start)
           steps == Fitting(t, Steps(c, ride, id, index, selector))
           values == Writing(t, steps, outputs)
<1>1. CASE selector # Panic
  <2>1. selector \in Int \X Int
    BY <1>1, SelectorTyped
  <2> HIDE DEF selector
  <2>2. Steps(c, ride, id, index, selector) \in Seq(StepsOf)
    BY <2>1, StepsTyped
  <2>9. t \in Long(11)
    BY DEF Copies
  <2>3. steps \in Seq(StepsOf) /\ Len(steps) <= Slots(t, 11, 4)
    BY <2>2, <2>9, FittingTyped
  <2> HIDE DEF steps
  <2>4. /\ values \in Seq(Scaled) /\ Len(values) = Len(steps)
        /\ Panic \notin ToSet(values) => Begins(values, StepValues(t), Len(steps))
    BY <2>3, <2>9, WritingTyped
  <2>5. Scheduled(t, id, steps, outputs) = Filled(t, id, steps, values, outputs)
    BY DEF Scheduled
  <2> HIDE DEF values
  <2>6. \/ Filled(t, id, steps, values, outputs) = Panic
        \/ IsMade(Filled(t, id, steps, values, outputs), Copies(11, 4, rows))
    BY <2>3, <2>4, FilledTyped
  <2>7. RideSchedule(t, c, ride, id, index, outputs, start) =
          IF selector = Panic \/ Len(c) < 12 THEN Panic ELSE Scheduled(t, id, steps, outputs)
    BY DEF RideSchedule, steps, selector
  <2>8. QED
    BY <2>5, <2>6, <2>7
<1>2. QED
  BY <1>1 DEF RideSchedule

\* What the modes before have made.
Makings(D, secs) ==
  [curve : Seq(Copies(4, 2, secs["curve"])), schedule_bc : Seq(Copies(10, 2, secs["schedule_bc"])),
   schedule : Seq(Copies(11, 4, secs["schedule"])), outputs : Own(D), err : BOOLEAN]
IsEntry(m, C) == (m.entry = <<>> \/ m.entry \in C) /\ m.err \in BOOLEAN

\* What a mode makes, or leaves out, is an entry or nothing.
LEMMA EntriesAre ==
  ASSUME NEW C
  PROVE  IsEntry(NothingMade, C) /\ \A m : IsMade(m, C) => IsEntry(m, C)
BY DEF IsEntry, NothingMade, IsMade

\* Adding an entry to those of the modes before.
LEMMA PushedTyped ==
  ASSUME NEW C, NEW entries \in Seq(C), NEW one, IsEntry(one, C)
  PROVE  Pushed(entries, one) \in Seq(C)
BY DEF Pushed, IsEntry

\* Adding the curve and the schedules of a mode.
LEMMA GrownTyped ==
  ASSUME NEW D, NEW secs, NEW made \in Makings(D, secs),
         NEW curve, IsEntry(curve, Copies(4, 2, secs["curve"])),
         NEW bc, IsEntry(bc, Copies(10, 2, secs["schedule_bc"])),
         NEW schedule, schedule = Panic \/ IsEntry(schedule, Copies(11, 4, secs["schedule"])),
         NEW outputs \in Own(D)
  PROVE  Grown(made, curve, bc, schedule, outputs) \in Makings(D, secs) \cup {Panic}
<1> DEFINE A == Copies(4, 2, secs["curve"])
           B == Copies(10, 2, secs["schedule_bc"])
           C == Copies(11, 4, secs["schedule"])
<1>1. CASE schedule = Panic
  BY <1>1 DEF Grown
<1>2. CASE schedule # Panic
  <2>1. /\ made.curve \in Seq(A) /\ made.schedule_bc \in Seq(B) /\ made.schedule \in Seq(C)
        /\ made.err \in BOOLEAN
    BY DEF Makings
  <2>6. IsEntry(curve, A) /\ IsEntry(bc, B) /\ IsEntry(schedule, C)
    BY <1>2
  <2>7. Makings(D, secs) = [curve : Seq(A), schedule_bc : Seq(B), schedule : Seq(C), outputs : Own(D), err : BOOLEAN]
    BY DEF Makings
  <2> HIDE DEF A, B, C
  <2> DEFINE a == Pushed(made.curve, curve)
             b == Pushed(made.schedule_bc, bc)
             c == Pushed(made.schedule, schedule)
             err == made.err \/ curve.err \/ bc.err \/ schedule.err
  <2>2. a \in Seq(A) /\ b \in Seq(B) /\ c \in Seq(C)
    BY <2>1, <2>6, PushedTyped
  <2>3. err \in BOOLEAN
    BY <2>1, <2>6 DEF IsEntry
  <2>4. Grown(made, curve, bc, schedule, outputs) =
          [curve |-> a, schedule_bc |-> b, schedule |-> c, outputs |-> outputs, err |-> err]
    BY <1>2 DEF Grown
  <2> HIDE DEF a, b, c, err
  <2>5. QED
    BY <2>2, <2>3, <2>4, <2>7
<1>3. QED
  BY <1>1, <1>2

\* The templates of a section, if there are any.
LEMMA TemplatesAre ==
  ASSUME NEW C, NEW f \in Seq(C), f # <<>>
  PROVE  f[1] \in C
OBVIOUS

\* A mode adds an entry of each kind, or nothing, or panics.
LEMMA AddRideTyped ==
  ASSUME NEW D, NEW secs, IsSections(secs), NEW made \in Makings(D, secs) \cup {Panic}, NEW t, Templates(t, secs),
         NEW number \in 1 .. 4, NEW index, index.toAo \in Functions, index.toBo \in Functions, NEW start
  PROVE  AddRide(made, t, number, index, start) \in Makings(D, secs) \cup {Panic}
<1> DEFINE ride == RideThrough[number]
           id == number * Unit
           A == Copies(4, 2, secs["curve"])
           B == Copies(10, 2, secs["schedule_bc"])
           C == Copies(11, 4, secs["schedule"])
           curve == IF t.curve = <<>> THEN NothingMade ELSE RideCurve(t.curve[1], ride)
           bc == IF t.schedule_bc = <<>> THEN NothingMade ELSE RideBc(t.schedule_bc[1], ride, id)
           outputs == IF t.curve = <<>> THEN made.outputs
                      ELSE OutputsScaled(made.outputs, index.toAo, curve.entry)
           schedule == IF t.curve = <<>> \/ t.schedule = <<>> THEN NothingMade
                       ELSE RideSchedule(t.schedule[1], curve.entry, ride, id, index, outputs, start)
<1>1. AddRide(made, t, number, index, start) =
        IF made = Panic \/ curve = Panic \/ bc = Panic THEN Panic ELSE Grown(made, curve, bc, schedule, outputs)
  BY DEF AddRide
<1>2. IsRide(ride)
  BY RidesAre
<1>3. id \in Int
  BY DEF Unit
<1> HIDE DEF ride, id
<1>4. /\ t.curve # <<>> => t.curve[1] \in A
      /\ t.schedule_bc # <<>> => t.schedule_bc[1] \in B
      /\ t.schedule # <<>> => t.schedule[1] \in C
  <2>1. t.curve \in Seq(A) /\ t.schedule_bc \in Seq(B) /\ t.schedule \in Seq(C)
    BY DEF Templates
  <2> HIDE DEF A, B, C
  <2>2. QED
    BY <2>1, TemplatesAre
<1>7. Len(secs["curve"]) \in Nat /\ Len(secs["schedule_bc"]) \in Nat /\ Len(secs["schedule"]) \in Nat
  BY DEF IsSections
<1>5. CASE ~(made = Panic \/ curve = Panic \/ bc = Panic)
  <2>1. made \in Makings(D, secs) /\ made.outputs \in Own(D)
    BY <1>5 DEF Makings
  <2>2. IF t.curve = <<>> THEN curve = NothingMade ELSE IsMade(curve, A)
    <3>1. CASE t.curve # <<>>
      <4>1. curve = RideCurve(t.curve[1], ride)
        BY <3>1
      <4>2. RideCurve(t.curve[1], ride) = Panic \/ IsMade(RideCurve(t.curve[1], ride), A)
        BY <1>2, <1>4, <1>7, <3>1, RideCurveTyped
      <4> HIDE DEF curve
      <4>3. QED
        BY <1>5, <3>1, <4>1, <4>2
    <3>2. QED
      BY <3>1
  <2>3. IsEntry(bc, B)
    <3>1. CASE t.schedule_bc # <<>>
      <4>1. bc = RideBc(t.schedule_bc[1], ride, id)
        BY <3>1
      <4>2. RideBc(t.schedule_bc[1], ride, id) = Panic \/ IsMade(RideBc(t.schedule_bc[1], ride, id), B)
        BY <1>2, <1>3, <1>4, <1>7, <3>1, RideBcTyped
      <4> HIDE DEF bc, B
      <4>3. QED
        BY <1>5, <4>1, <4>2, EntriesAre
    <3>2. CASE t.schedule_bc = <<>>
      BY <3>2, EntriesAre
    <3>3. QED
      BY <3>1, <3>2
  <2> HIDE DEF curve, bc
  <2>4. IsEntry(curve, A)
    BY <2>2, EntriesAre
  <2>5. outputs \in Own(D)
    <3>1. CASE t.curve # <<>>
      <4>1. curve.entry \in Long(4)
        BY <2>2, <3>1 DEF IsMade, Copies
      <4>2. OutputsScaled(made.outputs, index.toAo, curve.entry) \in Own(D)
        BY <2>1, <4>1, OutputsScaledTyped
      <4>3. QED
        BY <3>1, <4>2
    <3>2. QED
      BY <2>1, <3>1
  <2> HIDE DEF outputs
  <2>9. outputs \in [D -> AoPoints]
    BY <2>5, OwnIs
  <2>6. schedule = Panic \/ IsEntry(schedule, C)
    <3>1. CASE t.curve # <<>> /\ t.schedule # <<>>
      <4> DEFINE s == RideSchedule(t.schedule[1], curve.entry, ride, id, index, outputs, start)
      <4>1. s = Panic \/ IsMade(s, C)
        BY <1>2, <1>3, <1>4, <1>7, <2>9, <3>1, RideScheduleTyped
      <4>2. schedule = s
        BY <3>1
      <4> HIDE DEF s, C
      <4>3. QED
        BY <4>1, <4>2, EntriesAre
    <3>2. CASE ~(t.curve # <<>> /\ t.schedule # <<>>)
      BY <3>2, EntriesAre
    <3>3. QED
      BY <3>1, <3>2
  <2> HIDE DEF schedule
  <2>7. Grown(made, curve, bc, schedule, outputs) \in Makings(D, secs) \cup {Panic}
    BY <2>1, <2>3, <2>4, <2>5, <2>6, GrownTyped
  <2>8. QED
    BY <1>1, <1>5, <2>7
<1>6. QED
  BY <1>1, <1>5

\* What the modes make.
Rides(none, t, index, start) ==
  FoldLeft(LAMBDA m, number : AddRide(m, t, number, index, start), none, <<1, 2, 3, 4>>)

\* The four modes one after the other (synthesize_ride_through_profile).
LEMMA RidesTyped ==
  ASSUME NEW D, NEW secs, IsSections(secs), NEW none \in Makings(D, secs), NEW t, Templates(t, secs),
         NEW index, index.toAo \in Functions, index.toBo \in Functions, NEW start
  PROVE  Rides(none, t, index, start) \in Makings(D, secs) \cup {Panic}
<1> DEFINE numbers == <<1, 2, 3, 4>>
           N == 4
           K == Makings(D, secs) \cup {Panic}
           Add(m, n) == AddRide(m, t, n, index, start)
           F == [x \in K \X (1 .. N) |-> Add(x[1], x[2])]
           Eq(f) == f = [s \in SUBSET (DOMAIN numbers) |->
                           IF s = {} THEN none ELSE LET x == Max(s) IN Add(f[s \ {x}], numbers[x])]
           it == CHOOSE f : Eq(f)
<1>1. N \in Nat /\ DOMAIN numbers = 1 .. N /\ none \in K /\ \A n \in 1 .. N : numbers[n] = n
  OBVIOUS
<1>2. Rides(none, t, index, start) = it[DOMAIN numbers]
  BY DEF Rides, FoldLeft, MapThenFoldSet
<1> HIDE DEF it, numbers
<1>3. F \in [K \X (1 .. N) -> K] /\ \A a \in K, n \in 1 .. N : F[<<a, n>>] = Add(a, numbers[n])
  <2>1. \A m \in K, n \in 1 .. N : Add(m, n) \in K
    BY AddRideTyped
  <2> HIDE DEF Add
  <2>2. QED
    BY <1>1, <2>1
<1> HIDE DEF F, K, N, Add
<1>4. \E f : Eq(f)
  <2>1. PICK f \in [SUBSET (1 .. N) -> K] : Folds(f, F, none, N)
    BY <1>1, <1>3, FoldExists
  <2>2. ASSUME NEW s \in SUBSET (1 .. N), s # {}
        PROVE  f[s] = Add(f[s \ {Max(s)}], numbers[Max(s)])
    <3>1. Max(s) \in 1 .. N
      BY <1>1, <2>2, MaxIn
    <3>2. f[s \ {Max(s)}] \in K
      OBVIOUS
    <3>3. f[s] = F[<<f[s \ {Max(s)}], Max(s)>>]
      BY <2>1, <2>2 DEF Folds
    <3>4. QED
      BY <1>3, <3>1, <3>2, <3>3
  <2>3. f[{}] = none
    BY <2>1 DEF Folds
  <2>4. \A s \in SUBSET (1 .. N) : f[s] = IF s = {} THEN none ELSE Add(f[s \ {Max(s)}], numbers[Max(s)])
    BY <2>2, <2>3
  <2>5. Eq(f)
    BY <1>1, <2>4
  <2> HIDE DEF Eq
  <2>6. QED
    BY <2>5
<1>5. Eq(it)
  <2> HIDE DEF Eq
  <2>1. QED
    BY <1>4 DEF it
<1>6. \A s \in SUBSET (1 .. N) : it[s] = IF s = {} THEN none ELSE Add(it[s \ {Max(s)}], numbers[Max(s)])
  <2>1. it = [s \in SUBSET (1 .. N) |-> IF s = {} THEN none ELSE Add(it[s \ {Max(s)}], numbers[Max(s)])]
    BY <1>1, <1>5
  <2>2. QED
    BY <2>1
<1> HIDE DEF Eq
<1>7. ASSUME NEW s \in SUBSET (1 .. N), s # {}, it[s \ {Max(s)}] \in K
      PROVE  it[s] = F[<<it[s \ {Max(s)}], Max(s)>>]
  <2>1. Max(s) \in 1 .. N
    BY <1>1, <1>7, MaxIn
  <2>2. it[s] = Add(it[s \ {Max(s)}], numbers[Max(s)])
    BY <1>6, <1>7
  <2>3. QED
    BY <1>3, <1>7, <2>1, <2>2
<1>8. it[{}] = none
  BY <1>6
<1>9. Iterates(it, K, none, N, F)
  BY <1>7, <1>8 DEF Iterates
<1>10. it[1 .. N] \in K
  BY <1>1, <1>3, <1>9, FoldWithin
<1>11. QED
  BY <1>1, <1>2, <1>10 DEF K

\* What the curves make of the outputs.
Scaling(outputs, toAo, curves) == FoldLeft(LAMBDA m, c : OutputsScaled(m, toAo, c), outputs, curves)

\* One curve after the other scales outputs, and they remain outputs of the same
\* indexes.
LEMMA ScaledOutputsTyped ==
  ASSUME NEW D, NEW outputs \in Own(D), NEW toAo, NEW curves \in Seq(Long(4))
  PROVE  Scaling(outputs, toAo, curves) \in Own(D)
<1> DEFINE N == Len(curves)
           K == Own(D)
           Scale(m, c) == OutputsScaled(m, toAo, c)
           F == [x \in K \X (1 .. N) |-> Scale(x[1], curves[x[2]])]
           Eq(f) == f = [s \in SUBSET (DOMAIN curves) |->
                           IF s = {} THEN outputs ELSE LET x == Max(s) IN Scale(f[s \ {x}], curves[x])]
           it == CHOOSE f : Eq(f)
<1>1. N \in Nat /\ DOMAIN curves = 1 .. N /\ outputs \in K /\ \A n \in 1 .. N : curves[n] \in Long(4)
  OBVIOUS
<1>2. Scaling(outputs, toAo, curves) = it[DOMAIN curves]
  BY DEF Scaling, FoldLeft, MapThenFoldSet
<1> HIDE DEF it
<1>3. F \in [K \X (1 .. N) -> K] /\ \A a \in K, n \in 1 .. N : F[<<a, n>>] = Scale(a, curves[n])
  <2>1. \A m \in K, n \in 1 .. N : Scale(m, curves[n]) \in K
    BY <1>1, OutputsScaledTyped
  <2> HIDE DEF Scale, K, N
  <2>2. QED
    BY <1>1, <2>1
<1> HIDE DEF F, K, N, Scale
<1>4. \E f : Eq(f)
  <2>1. PICK f \in [SUBSET (1 .. N) -> K] : Folds(f, F, outputs, N)
    BY <1>1, <1>3, FoldExists
  <2>2. ASSUME NEW s \in SUBSET (1 .. N), s # {}
        PROVE  f[s] = Scale(f[s \ {Max(s)}], curves[Max(s)])
    <3>1. Max(s) \in 1 .. N
      BY <1>1, <2>2, MaxIn
    <3>2. f[s \ {Max(s)}] \in K
      OBVIOUS
    <3>3. f[s] = F[<<f[s \ {Max(s)}], Max(s)>>]
      BY <2>1, <2>2 DEF Folds
    <3>4. QED
      BY <1>3, <3>1, <3>2, <3>3
  <2>3. f[{}] = outputs
    BY <2>1 DEF Folds
  <2>4. \A s \in SUBSET (1 .. N) : f[s] = IF s = {} THEN outputs ELSE Scale(f[s \ {Max(s)}], curves[Max(s)])
    BY <2>2, <2>3
  <2>5. Eq(f)
    BY <1>1, <2>4
  <2> HIDE DEF Eq
  <2>6. QED
    BY <2>5
<1>5. Eq(it)
  <2> HIDE DEF Eq
  <2>1. QED
    BY <1>4 DEF it
<1>6. \A s \in SUBSET (1 .. N) : it[s] = IF s = {} THEN outputs ELSE Scale(it[s \ {Max(s)}], curves[Max(s)])
  <2>1. it = [s \in SUBSET (1 .. N) |-> IF s = {} THEN outputs ELSE Scale(it[s \ {Max(s)}], curves[Max(s)])]
    BY <1>1, <1>5
  <2>2. QED
    BY <2>1
<1> HIDE DEF Eq
<1>7. ASSUME NEW s \in SUBSET (1 .. N), s # {}, it[s \ {Max(s)}] \in K
      PROVE  it[s] = F[<<it[s \ {Max(s)}], Max(s)>>]
  <2>1. Max(s) \in 1 .. N
    BY <1>1, <1>7, MaxIn
  <2>2. it[s] = Scale(it[s \ {Max(s)}], curves[Max(s)])
    BY <1>6, <1>7
  <2>3. QED
    BY <1>3, <1>7, <2>1, <2>2
<1>8. it[{}] = outputs
  BY <1>6
<1>9. Iterates(it, K, outputs, N, F)
  BY <1>7, <1>8 DEF Iterates
<1>10. it[1 .. N] \in K
  BY <1>1, <1>3, <1>9, FoldWithin
<1>11. QED
  BY <1>1, <1>2, <1>10 DEF K

\* What leads from inputs to the binary outputs that name them.
LEMMA BinaryTyped ==
  ASSUME NEW p, p.bo \in Seq([index : Int, bi : Association])
  PROVE  BinaryPairs(p).toBo \in Functions
<1> DEFINE S == [index : Int, bi : Association]
           own == {o \in ToSet(p.bo) : o.bi # None}
           E == {x.bi : x \in own}
           to == [i \in E |-> LastWith(p.bo, LAMBDA x : x.bi = i).index]
<1>1. BinaryPairs(p).toBo = to
  BY DEF BinaryPairs
<1>5. p.bo \in Seq(S) /\ \A o \in S : o.index \in Int /\ o.bi \in Association
  OBVIOUS
<1> HIDE DEF S
<1>2. ASSUME NEW i \in E
      PROVE  i \in Int /\ LastWith(p.bo, LAMBDA x : x.bi = i).index \in Int
  <2> DEFINE I == {k \in 1 .. Len(p.bo) : p.bo[k].bi = i}
  <2>1. PICK o \in own : o.bi = i
    OBVIOUS
  <2>2. PICK k \in 1 .. Len(p.bo) : p.bo[k] = o
    BY DEF ToSet
  <2>3. o \in S
    BY <1>5, <2>2
  <2>4. i \in Int
    BY <1>5, <2>1, <2>3 DEF Association
  <2>5. I # {} /\ I \in SUBSET (1 .. Len(p.bo))
    BY <2>1, <2>2
  <2>6. LastWith(p.bo, LAMBDA x : x.bi = i) = p.bo[Max(I)]
    BY <2>5 DEF LastWith, SelectLastInSeq
  <2> HIDE DEF I
  <2>7. p.bo[Max(I)] \in S
    BY <1>5, <2>5, LastPlace
  <2>8. QED
    BY <1>5, <2>4, <2>6, <2>7
<1>3. to \in [E -> Int] /\ E \in SUBSET Int
  <2> HIDE DEF E
  <2>1. QED
    BY <1>2
<1> HIDE DEF to, E
<1>4. QED
  BY <1>1, <1>3, FunctionIs

\* Outputs with the same indexes at the same places.
SameOutputs(new, old) ==
  \A kind \in ToSet(AoKinds) :
    DOMAIN new[kind] = DOMAIN old[kind] /\ \A r \in DOMAIN old[kind] : SameIndexes(new[kind][r], old[kind][r])

LEMMA SameAsOthers ==
  ASSUME NEW a, NEW b, NEW c, SameOutputs(a, b), SameOutputs(b, c)
  PROVE  SameOutputs(a, c)
BY DEF SameOutputs, SameIndexes

\* Writing outputs back leaves outputs, and their indexes.
LEMMA WrittenBackTyped ==
  ASSUME NEW ao \in AoRecords, NEW outputs \in Own(Indices(Flat(ao, AoKinds)))
  PROVE  WrittenBack(ao, outputs) \in AoRecords /\ SameOutputs(WrittenBack(ao, outputs), ao)
<1> DEFINE rs == ao["base"]
           back(r) == [k \in DOMAIN rs[r] |-> outputs[rs[r][k].index]]
           new == [r \in DOMAIN rs |-> back(r)]
<1>1. /\ "base" \in ToSet(AoKinds) /\ ao \in [ToSet(AoKinds) -> Seq(Seq(AoPoints))]
      /\ rs \in Seq(Seq(AoPoints)) /\ Len(rs) = 1 /\ DOMAIN rs = 1 .. 1
  <2>1. "base" \in ToSet(AoKinds) /\ ao \in [ToSet(AoKinds) -> Seq(Seq(AoPoints))] /\ Len(ao["base"]) = 1
    BY KindsAre DEF AoRecords, Records
  <2>2. QED
    BY <2>1
<1>2. WrittenBack(ao, outputs) = [ao EXCEPT !["base"] = new]
  BY DEF WrittenBack
<1>3. ASSUME NEW r \in DOMAIN rs
      PROVE  back(r) \in Seq(AoPoints) /\ SameIndexes(back(r), rs[r])
  <2>1. rs[r] \in Seq(AoPoints) /\ DOMAIN rs[r] = 1 .. Len(rs[r]) /\ Len(rs[r]) \in Nat
    BY <1>1
  <2>2. \A k \in DOMAIN rs[r] : outputs[rs[r][k].index] \in AoPoints /\ outputs[rs[r][k].index].index = rs[r][k].index
    <3> SUFFICES ASSUME NEW k \in DOMAIN rs[r]
                 PROVE  rs[r][k].index \in Indices(Flat(ao, AoKinds))
      BY DEF Own
    <3>1. rs[r][k] \in ToSet(rs[r])
      BY DEF ToSet
    <3>2. rs[r][k] \in ToSet(Flat(ao, AoKinds))
      BY <1>1, <3>1, AllOutputs
    <3>3. QED
      BY <3>2 DEF ToSet, Indices
  <2>3. back(r) \in Seq(AoPoints) /\ Len(back(r)) = Len(rs[r])
    BY <2>1, <2>2
  <2>4. \A k \in 1 .. Len(rs[r]) : back(r)[k].index = rs[r][k].index
    BY <2>1, <2>2
  <2>5. QED
    BY <2>3, <2>4 DEF SameIndexes
<1>4. /\ new \in Seq(Seq(AoPoints)) /\ Len(new) = 1
      /\ DOMAIN new = DOMAIN rs /\ \A r \in DOMAIN rs : SameIndexes(new[r], rs[r])
  <2> HIDE DEF back
  <2>1. QED
    BY <1>1, <1>3
<1> HIDE DEF new, rs
<1>5. /\ [ao EXCEPT !["base"] = new] \in [ToSet(AoKinds) -> Seq(Seq(AoPoints))]
      /\ [ao EXCEPT !["base"] = new]["base"] = new
      /\ \A kind \in ToSet(AoKinds) : kind # "base" => [ao EXCEPT !["base"] = new][kind] = ao[kind]
  BY <1>1, <1>4
<1>6. \A kind \in ToSet(AoKinds) : \A r \in DOMAIN ao[kind] : SameIndexes(ao[kind][r], ao[kind][r])
  BY DEF SameIndexes
<1>7. SameOutputs([ao EXCEPT !["base"] = new], ao)
  BY <1>1, <1>4, <1>5, <1>6 DEF SameOutputs, rs
<1>8. QED
  BY <1>2, <1>4, <1>5, <1>7 DEF AoRecords, Records

\* A profile with other records of inputs and outputs is a profile.
LEMMA OtherRecords ==
  ASSUME NEW p \in Profiles, NEW ai \in AiRecords, NEW ao \in AoRecords
  PROVE  [p EXCEPT !.ai = ai, !.ao = ao] \in Profiles
BY DEF Profiles, AiRecords, AoRecords

\* What the last steps make of a profile: its entries still hold their rows, its
\* outputs stay where they were, and nothing is left out, unless it becomes a
\* ride-through profile.
Derived(q, p, name, secs) ==
  /\ q \in Profiles /\ Templates(q.ai, secs) /\ SameOutputs(q.ao, p.ao)
  /\ name \notin RideThroughNames /\ Completes(p.ai, secs) => Completes(q.ai, secs)

\* The ride-through profile that is made of one.
LEMMA SynthesizeTyped ==
  ASSUME NEW secs, IsSections(secs), NEW p \in Profiles, Templates(p.ai, secs), NEW name
  PROVE  \/ Synthesize(p, name) = Panic \/ Synthesize(p, name).profile = Refused
         \/ Derived(Synthesize(p, name).profile, p, name, secs)
<1> DEFINE index == [toAo |-> AnalogPairs(p).toAo, toBo |-> BinaryPairs(p).toBo, bo |-> Indices(p.bo)]
           D == Indices(AllAo(p))
           none == [curve |-> <<>>, schedule_bc |-> <<>>, schedule |-> <<>>, outputs |-> ByIndex(AllAo(p)), err |-> FALSE]
           start == p.key.curves
           t == p.ai
           made == Rides(none, t, index, start)
<1>1. p.ai \in AiRecords /\ p.ao \in AoRecords /\ p.bo \in Seq([index : Int, bi : Association])
  BY DEF Profiles, AiRecords, AoRecords
<1>2. Synthesize(p, name) = IF name \notin RideThroughNames THEN [profile |-> p, err |-> FALSE] ELSE Roomed(p, made)
  BY DEF Synthesize, Rides
<1>3. AllAo(p) \in Seq(AoPoints) /\ AllAo(p) = Flat(p.ao, AoKinds)
  BY <1>1, AllOutputs DEF AllAo
<1>4. ByIndex(AllAo(p)) \in Own(D)
  BY <1>3, ByIndexTyped, OwnIs DEF Own
<1>5. index.toAo \in Functions /\ index.toBo \in Functions
  <2>1. AnalogPairs(p).toAo \in Functions
    BY <1>1, PairsTyped DEF Pairs, AoRecords
  <2>2. BinaryPairs(p).toBo \in Functions
    BY <1>1, BinaryTyped
  <2>3. QED
    BY <2>1, <2>2
<1> HIDE DEF index, D, start
<1>6. none \in Makings(D, secs)
  BY <1>4 DEF Makings
<1>11. Templates(t, secs)
  OBVIOUS
<1> HIDE DEF none, t
<1>7. made \in Makings(D, secs) \cup {Panic}
  BY <1>5, <1>6, <1>11, RidesTyped
<1> HIDE DEF made
<1>12. CASE name \notin RideThroughNames
  <2>1. SameOutputs(p.ao, p.ao)
    BY DEF SameOutputs, SameIndexes
  <2>2. Synthesize(p, name).profile = p
    BY <1>2, <1>12
  <2>3. Derived(p, p, name, secs)
    BY <2>1 DEF Derived
  <2>4. QED
    BY <2>2, <2>3
<1>8. CASE name \in RideThroughNames /\ made \in Makings(D, secs)
  <2> DEFINE ai == [p.ai EXCEPT !["curve"] = made.curve, !["schedule_bc"] = made.schedule_bc, !["schedule"] = made.schedule]
             ao == WrittenBack(p.ao, made.outputs)
             q == [p EXCEPT !.ai["curve"] = made.curve, !.ai["schedule_bc"] = made.schedule_bc,
                            !.ai["schedule"] = made.schedule, !.ao = WrittenBack(@, made.outputs)]
             A == Copies(4, 2, secs["curve"])
             B == Copies(10, 2, secs["schedule_bc"])
             C == Copies(11, 4, secs["schedule"])
  <2>1. made.curve \in Seq(A) /\ made.schedule_bc \in Seq(B) /\ made.schedule \in Seq(C) /\ made.outputs \in Own(D)
    BY <1>8 DEF Makings
  <2>12. A \in SUBSET Seq(AiPoints) /\ B \in SUBSET Seq(AiPoints) /\ C \in SUBSET Seq(AiPoints)
    BY DEF Copies, Long
  <2> HIDE DEF A, B, C
  <2>13. /\ made.curve \in Seq(Seq(AiPoints)) /\ made.schedule_bc \in Seq(Seq(AiPoints))
         /\ made.schedule \in Seq(Seq(AiPoints))
    BY <2>1, <2>12
  <2>14. /\ p.ai \in [ToSet(AiKinds) -> Seq(Seq(AiPoints))] /\ Len(p.ai["base"]) = 1
         /\ "base" \in ToSet(AiKinds) /\ "curve" \in ToSet(AiKinds) /\ "schedule_bc" \in ToSet(AiKinds)
         /\ "schedule" \in ToSet(AiKinds)
    BY <1>1, KindsAre DEF AiRecords, Records
  <2>2. /\ ai \in [ToSet(AiKinds) -> Seq(Seq(AiPoints))] /\ ai["base"] = p.ai["base"]
        /\ ai.curve = made.curve /\ ai.schedule_bc = made.schedule_bc /\ ai.schedule = made.schedule
    BY <2>13, <2>14
  <2>3. ao \in AoRecords /\ SameOutputs(ao, p.ao)
    BY <1>1, <1>3, <2>1, WrittenBackTyped DEF D
  <2>4. q = [p EXCEPT !.ai = ai, !.ao = ao]
    BY DEF Profiles
  <2> HIDE DEF ai, ao, q
  <2>15. ai \in AiRecords
    BY <2>2, <2>14 DEF AiRecords, Records
  <2>5. q \in Profiles
    BY <2>3, <2>4, <2>15, OtherRecords
  <2>16. q.ai = ai /\ q.ao = ao
    BY <2>4 DEF Profiles
  <2>17. Templates(q.ai, secs)
    BY <2>1, <2>2, <2>16 DEF Templates, A, B, C
  <2>18. Derived(q, p, name, secs)
    BY <1>8, <2>3, <2>5, <2>16, <2>17 DEF Derived
  <2>6. Roomed(p, made) = Panic \/ Roomed(p, made) = [profile |-> Validated(q), err |-> made.err]
    BY DEF Roomed, q
  <2>7. Validated(q) \in {q, Refused}
    BY DEF Validated
  <2>8. Roomed(p, made) = Panic \/ Roomed(p, made).profile = Validated(q)
    BY <2>6
  <2>9. QED
    BY <1>2, <1>8, <2>7, <2>8, <2>18
<1>9. CASE name \in RideThroughNames /\ made = Panic
  BY <1>2, <1>9 DEF Roomed
<1>10. QED
  BY <1>7, <1>8, <1>9, <1>12

\* What is left of a profile at the end.
LEMMA ConcludedTyped ==
  ASSUME NEW secs, IsSections(secs), NEW p \in Profiles, Templates(p.ai, secs), NEW name, NEW err
  PROVE  Completed(p, name, err) \in {Refused, Panic} \/ Derived(Completed(p, name, err), p, name, secs)
<1> DEFINE final == Synthesize(p, name)
<1>1. final = Panic \/ final.profile = Refused \/ Derived(final.profile, p, name, secs)
  BY SynthesizeTyped
<1>2. Completed(p, name, err) \in {Refused, Panic} \/ (final # Panic /\ Completed(p, name, err) = final.profile)
  BY DEF Completed, Concluded
<1> HIDE DEF final
<1>3. QED
  BY <1>1, <1>2

\* The outputs are scaled and written back, and the schedules scaled with them.
LEMMA SortedTyped ==
  ASSUME NEW secs, IsSections(secs), NEW p \in Profiles, Templates(p.ai, secs), NEW name, NEW err
  PROVE  Sorted(p, name, err) \in {Refused, Panic} \/ Derived(Sorted(p, name, err), p, name, secs)
<1> DEFINE D == Indices(AllAo(p))
           outputs == ScaledOutputs(p)
           old == p.ai["schedule"]
           schedules == [k \in DOMAIN old |-> RescaledSchedule(old[k], outputs)]
           ao == WrittenBack(p.ao, outputs)
           ai == [p.ai EXCEPT !["schedule"] = schedules]
           second == [p EXCEPT !.ao = WrittenBack(@, outputs), !.ai["schedule"] = schedules]
           C == Copies(11, 4, secs["schedule"])
<1>1. p.ai \in AiRecords /\ p.ao \in AoRecords
  BY DEF Profiles, AiRecords, AoRecords
<1>2. AllAo(p) \in Seq(AoPoints) /\ AllAo(p) = Flat(p.ao, AoKinds)
  BY <1>1, AllOutputs DEF AllAo
<1>3. outputs \in Own(D)
  <2>1. ByIndex(AllAo(p)) \in Own(D)
    BY <1>2, ByIndexTyped, OwnIs DEF Own
  <2>2. p.ai["curve"] \in Seq(Long(4))
    <3> DEFINE A == Copies(4, 2, secs["curve"])
    <3>1. p.ai["curve"] \in Seq(A)
      BY DEF Templates
    <3>2. A \in SUBSET Long(4)
      BY DEF Copies
    <3> HIDE DEF A
    <3>3. QED
      BY <3>1, <3>2
  <2>3. ScaledOutputs(p) = Scaling(ByIndex(AllAo(p)), AnalogPairs(p).toAo, p.ai["curve"])
    BY DEF ScaledOutputs, Scaling
  <2> HIDE DEF D
  <2>4. Scaling(ByIndex(AllAo(p)), AnalogPairs(p).toAo, p.ai["curve"]) \in Own(D)
    BY <2>1, <2>2, ScaledOutputsTyped
  <2>5. QED
    BY <2>3, <2>4
<1>4. Sorted(p, name, err) \in {Refused, Panic} \cup (IF Unwound(schedules) THEN {} ELSE {Completed(second, name, err)})
  BY DEF Sorted, Rewritten
<1> HIDE DEF outputs, D
<1>5. ao \in AoRecords /\ SameOutputs(ao, p.ao)
  BY <1>1, <1>2, <1>3, WrittenBackTyped DEF D
<1>6. CASE ~Unwound(schedules)
  <2>14. old \in Seq(C)
    BY DEF Templates
  <2>15. Len(secs["schedule"]) \in Nat
    BY DEF IsSections
  <2> HIDE DEF old, C
  <2>1. Len(old) \in Nat /\ DOMAIN old = 1 .. Len(old) /\ \A k \in 1 .. Len(old) : old[k] \in C
    BY <2>14
  <2>2. ASSUME NEW k \in 1 .. Len(old)
        PROVE  Panic \notin ToSet(schedules[k]) =>
                 schedules[k] \in C /\ Slots(schedules[k], 11, 4) = Slots(old[k], 11, 4)
    <3>1. schedules[k] = ScheduleScaled(old[k], outputs) /\ old[k] \in C
      BY <2>1 DEF RescaledSchedule
    <3>2. outputs \in [D -> AoPoints]
      BY <1>3, OwnIs
    <3> HIDE DEF schedules
    <3>3. QED
      BY <2>15, <3>1, <3>2, ScheduleKept DEF C
  <2>3. DOMAIN schedules = 1 .. Len(old) /\ schedules = [k \in 1 .. Len(old) |-> schedules[k]]
    BY <2>1
  <2> HIDE DEF schedules
  <2>16. \A k \in 1 .. Len(old) : Panic \notin ToSet(schedules[k])
    BY <1>6, <2>3 DEF Unwound
  <2>4. schedules \in Seq(C) /\ Len(schedules) = Len(old)
    BY <2>1, <2>2, <2>3, <2>16
  <2>17. \A k \in 1 .. Len(old) : Slots(schedules[k], 11, 4) = Slots(old[k], 11, 4)
    BY <2>2, <2>16
  <2>5. schedules \in Seq(Seq(AiPoints))
    <3>1. C \in SUBSET Seq(AiPoints)
      BY DEF Copies, Long, C
    <3>2. QED
      BY <2>4, <3>1
  <2>6. /\ p.ai \in [ToSet(AiKinds) -> Seq(Seq(AiPoints))] /\ Len(p.ai["base"]) = 1
        /\ "base" \in ToSet(AiKinds) /\ "curve" \in ToSet(AiKinds) /\ "schedule_bc" \in ToSet(AiKinds)
        /\ "schedule" \in ToSet(AiKinds)
    BY <1>1, KindsAre DEF AiRecords, Records
  <2>7. /\ ai \in [ToSet(AiKinds) -> Seq(Seq(AiPoints))] /\ ai["base"] = p.ai["base"] /\ ai["curve"] = p.ai["curve"]
        /\ ai["schedule_bc"] = p.ai["schedule_bc"] /\ ai["schedule"] = schedules
    BY <2>5, <2>6
  <2>8. second = [p EXCEPT !.ai = ai, !.ao = ao]
    BY DEF Profiles
  <2> HIDE DEF ai, ao, second
  <2>9. ai \in AiRecords /\ Templates(ai, secs)
    BY <2>4, <2>6, <2>7 DEF AiRecords, Records, Templates, C
  <2>18. Completes(p.ai, secs) => Completes(ai, secs)
    <3>1. Complete(old, secs["schedule"], <<11, 4>>) => Complete(schedules, secs["schedule"], <<11, 4>>)
      BY <2>4, <2>14, <2>17, CompleteKept
    <3>2. QED
      BY <2>7, <3>1 DEF Completes, old
  <2>10. second \in Profiles
    BY <1>5, <2>8, <2>9, OtherRecords
  <2>11. second.ai = ai /\ second.ao = ao
    BY <2>8 DEF Profiles
  <2> DEFINE q == Completed(second, name, err)
  <2>12. q \in {Refused, Panic} \/ Derived(q, second, name, secs)
    BY <2>9, <2>10, <2>11, ConcludedTyped
  <2> HIDE DEF q
  <2>19. Derived(q, second, name, secs) => Derived(q, p, name, secs)
    BY <1>5, <2>11, <2>18, SameAsOthers DEF Derived
  <2>13. QED
    BY <1>4, <1>6, <2>12, <2>19 DEF q
<1>7. QED
  BY <1>4, <1>6

\* The sections of the rows.
LEMMA SectionsTyped ==
  ASSUME NEW key, NEW S, NEW ps \in Seq(S)
  PROVE  IsSections(Sections(key, ps)) /\ \A kind \in EntryKinds : Sections(key, ps)[kind] = OfKind(key, ps, kind)
<1>1. \A kind : Len(OfKind(key, ps, kind)) \in Nat
  BY OfKindIs
<1>2. \A kind \in EntryKinds : Sections(key, ps)[kind] = OfKind(key, ps, kind)
  BY DEF Sections
<1>3. "curve" \in EntryKinds /\ "schedule_bc" \in EntryKinds /\ "schedule" \in EntryKinds
  BY DEF EntryKinds, SelectorOf
<1>4. QED
  BY <1>1, <1>2, <1>3 DEF IsSections

\* A profile that is made of points of analog inputs and outputs.
SortedOut(q, key, ao, ai, name) ==
  /\ q \in Profiles /\ Templates(q.ai, Sections(key, ai))
  /\ SameOutputs(q.ao, ReclassifyAo(key, ao).records)
  /\ name \notin RideThroughNames => Completes(q.ai, Sections(key, ai))

\* The sorted points are a profile.
LEMMA ReclassifyTyped ==
  ASSUME NEW key \in Keys, NEW bo \in Seq([index : Int, bi : Association]),
         NEW bi \in Seq([index : Int, bo : Association]), NEW ao \in Seq(AoPoints), NEW ai \in Seq(AiPoints), NEW name
  PROVE  \/ Reclassify(key, bo, bi, ao, ai, name) \in {Refused, Panic}
         \/ SortedOut(Reclassify(key, bo, bi, ao, ai, name), key, ao, ai, name)
<1> DEFINE newAo == ReclassifyAo(key, ao)
           newBi == ReclassifyBi(key, bi)
           outputs == ByIndex(Flat(newAo.records, AoKinds))
           newAi == ReclassifyAi(key, ai, outputs)
           p == [key |-> key, bo |-> bo, bi |-> newBi.records, ao |-> newAo.records, ai |-> newAi.records]
           secs == Sections(key, ai)
           q == Reclassify(key, bo, bi, ao, ai, name)
<1>1. newAo.records \in AoRecords
  BY AoSorted DEF AoRecords
<1>2. newBi.records \in Records(BiKinds, [index : Int, bo : Association])
  BY BiSorted
<1>3. Flat(newAo.records, AoKinds) \in Seq(AoPoints)
  <2> HIDE DEF newAo
  <2>1. QED
    BY <1>1, AllOutputs
<1>4. outputs \in [Indices(Flat(newAo.records, AoKinds)) -> AoPoints]
  <2> HIDE DEF newAo
  <2>1. QED
    BY <1>3, ByIndexTyped
<1>5. q = IF newAi = Panic THEN Panic ELSE Sorted(p, name, newBi.err \/ newAo.err \/ newAi.err)
  BY DEF Reclassify, Filed
<1>8. IsSections(secs)
  BY SectionsTyped
<1>6. CASE newAi # Panic
  <2>1. newAi.records \in AiRecords /\ Templates(newAi.records, secs) /\ Completes(newAi.records, secs)
    <3> HIDE DEF outputs
    <3>1. QED
      BY <1>4, <1>6, AiSorted
  <2> HIDE DEF newAo, newBi, newAi, secs, q
  <2>2. p \in Profiles /\ p.ai = newAi.records /\ p.ao = newAo.records
    BY <1>1, <1>2, <2>1 DEF Profiles, AiRecords, AoRecords
  <2> HIDE DEF p
  <2>3. Templates(p.ai, secs)
    BY <2>1, <2>2
  <2>4. q \in {Refused, Panic} \/ Derived(q, p, name, secs)
    BY <1>5, <1>6, <1>8, <2>2, <2>3, SortedTyped
  <2>5. Derived(q, p, name, secs) => SortedOut(q, key, ao, ai, name)
    BY <2>1, <2>2 DEF Derived, SortedOut, secs, newAo
  <2>6. QED
    BY <2>4, <2>5 DEF q
<1>7. CASE newAi = Panic
  BY <1>5, <1>7
<1>9. QED
  BY <1>6, <1>7

\* The key sheet gives every section a start.
LEMMA KeyTyped ==
  ASSUME NEW wb, \A s \in DOMAIN DefaultKey : wb.key[s] \in Cells
  PROVE  KeySheet(wb) \in Keys
<1> DEFINE K == {"curves", "system_meter", "experimental", "schedules_bc", "schedules_bc_status",
                 "schedules", "schedules_status", "meter", "der", "inverter", "battery"}
<1>1. DOMAIN DefaultKey = K
  BY DEF DefaultKey
<1>2. \A s \in K : DefaultKey[s] \in Int
  BY DEF DefaultKey
<1>3. \A s \in K : Cell(wb.key[s], DefaultKey[s]) \in Int
  BY <1>1, <1>2 DEF Cell, Cells
<1>4. KeySheet(wb) = [s \in K |-> Cell(wb.key[s], DefaultKey[s])]
  BY <1>1 DEF KeySheet
<1>5. KeySheet(wb) \in [K -> Int]
  <2> HIDE DEF K
  <2>1. QED
    BY <1>3, <1>4
<1>6. QED
  BY <1>5 DEF Keys

\* The rows that are read have an index.
LEMMA DataTyped ==
  ASSUME NEW R, NEW rows, IsSheet(rows, R)
  PROVE  DataRows(rows) \in Seq(R)
<1> DEFINE S == ToSet(rows)
           data == DataRows(rows)
<1>1. rows \in Seq(S) /\ \A r \in S : r.index # None => r \in R
  BY DEF IsSheet
<1> HIDE DEF S
<1>2. data \in Seq(S) /\ \A k \in DOMAIN data : data[k].index # None
  BY <1>1, RowsAre
<1> HIDE DEF data
<1>3. \A k \in 1 .. Len(data) : data[k] \in R
  BY <1>1, <1>2
<1>4. data \in Seq(R)
  BY <1>2, <1>3
<1>5. QED
  BY <1>4 DEF data

\* A sheet that is not refused has the points of its rows.
LEMMA SheetTyped ==
  ASSUME NEW T, NEW data, NEW n \in Nat, DOMAIN data = 1 .. n, Len(data) = n, NEW points, NEW wrong,
         points = [k \in 1 .. n |-> points[k]],
         \A k \in 1 .. n : points[k] = Refused \/ (points[k] \in T /\ points[k].index = data[k].index),
         Sheet(data, points, wrong) # Refused
  PROVE  /\ Sheet(data, points, wrong).points \in Seq(T)
         /\ SameIndexes(Sheet(data, points, wrong).points, data)
<1>1. Sheet(data, points, wrong) = [points |-> points, err |-> wrong # {}] /\ \A k \in 1 .. n : points[k] # Refused
  BY DEF Sheet
<1>2. points \in Seq(T) /\ Len(points) = n
  BY <1>1
<1>3. SameIndexes(points, data)
  BY <1>1, <1>2 DEF SameIndexes
<1>4. Sheet(data, points, wrong).points = points
  BY <1>1
<1>5. QED
  BY <1>2, <1>3, <1>4

\* A cell, or the default that stands for a blank one.
LEMMA CellTyped ==
  ASSUME NEW v \in Cells, NEW default \in Int
  PROVE  Cell(v, default) \in Int
BY DEF Cell, Cells

\* A limit is read as a 32-bit value.
LEMMA LimitTyped ==
  ASSUME NEW v \in Cells, NEW default \in I32, NEW cells, v \in cells, FitsI32(cells)
  PROVE  Cell(v, default) \in I32
BY DEF Cell, FitsI32

\* load_bo_sheet makes binary outputs of its rows.
LEMMA BinaryOutputsTyped ==
  ASSUME NEW rows, IsSheet(rows, BinaryOutputRows), BoSheet(rows) # Refused
  PROVE  /\ BoSheet(rows).points \in Seq([index : Int, bi : Association])
         /\ SameIndexes(BoSheet(rows).points, DataRows(rows))
<1> DEFINE data == DataRows(rows)
           points == [k \in DOMAIN data |-> [index |-> data[k].index, bi |-> data[k].bi]]
           T == [index : Int, bi : Association]
<1>1. data \in Seq(BinaryOutputRows)
  BY DataTyped
<1> HIDE DEF data
<1>2. Len(data) \in Nat /\ DOMAIN data = 1 .. Len(data) /\ \A k \in 1 .. Len(data) : data[k] \in BinaryOutputRows
  BY <1>1
<1>3. points = [k \in 1 .. Len(data) |-> points[k]]
  BY <1>2
<1>4. ASSUME NEW r \in BinaryOutputRows
      PROVE  [index |-> r.index, bi |-> r.bi] \in T
  BY DEF BinaryOutputRows
<1>5. \A k \in 1 .. Len(data) : points[k] \in T /\ points[k].index = data[k].index
  BY <1>2, <1>4
<1>6. BoSheet(rows) = Sheet(data, points, {})
  BY DEF BoSheet, data
<1> HIDE DEF points, T
<1>7. \A k \in 1 .. Len(data) : points[k] = Refused \/ (points[k] \in T /\ points[k].index = data[k].index)
  BY <1>5
<1>8. Sheet(data, points, {}).points \in Seq(T) /\ SameIndexes(Sheet(data, points, {}).points, data)
  BY <1>2, <1>3, <1>6, <1>7, SheetTyped
<1>9. QED
  BY <1>6, <1>8 DEF T, data

\* load_bi_sheet makes binary inputs of its rows.
LEMMA BinaryInputsTyped ==
  ASSUME NEW rows, IsSheet(rows, BinaryInputRows), BiSheet(rows) # Refused
  PROVE  /\ BiSheet(rows).points \in Seq([index : Int, bo : Association])
         /\ SameIndexes(BiSheet(rows).points, DataRows(rows))
<1> DEFINE data == DataRows(rows)
           points == [k \in DOMAIN data |-> [index |-> data[k].index, bo |-> data[k].bo]]
           wrong == {k \in DOMAIN data : ~data[k].class}
           T == [index : Int, bo : Association]
<1>1. data \in Seq(BinaryInputRows)
  BY DataTyped
<1> HIDE DEF data
<1>2. Len(data) \in Nat /\ DOMAIN data = 1 .. Len(data) /\ \A k \in 1 .. Len(data) : data[k] \in BinaryInputRows
  BY <1>1
<1>3. points = [k \in 1 .. Len(data) |-> points[k]]
  BY <1>2
<1>4. ASSUME NEW r \in BinaryInputRows
      PROVE  [index |-> r.index, bo |-> r.bo] \in T
  BY DEF BinaryInputRows
<1>5. \A k \in 1 .. Len(data) : points[k] \in T /\ points[k].index = data[k].index
  BY <1>2, <1>4
<1>6. BiSheet(rows) = Sheet(data, points, wrong)
  BY DEF BiSheet, data
<1> HIDE DEF points, T, wrong
<1>7. \A k \in 1 .. Len(data) : points[k] = Refused \/ (points[k] \in T /\ points[k].index = data[k].index)
  BY <1>5
<1>8. Sheet(data, points, wrong).points \in Seq(T) /\ SameIndexes(Sheet(data, points, wrong).points, data)
  BY <1>2, <1>3, <1>6, <1>7, SheetTyped
<1>9. QED
  BY <1>6, <1>8 DEF T, data

\* load_ao_sheet makes analog outputs of its rows, or refuses one.
LEMMA AnalogOutputsTyped ==
  ASSUME NEW rows, IsSheet(rows, AnalogOutputRows), AoSheet(rows) # Refused
  PROVE  /\ AoSheet(rows).points \in Seq(AoPoints)
         /\ SameIndexes(AoSheet(rows).points, DataRows(rows))
<1> DEFINE data == DataRows(rows)
           points == [k \in DOMAIN data |-> ReadAo(data[k])]
           wrong == {k \in DOMAIN data : AnalogErrors(data[k])}
<1>1. data \in Seq(AnalogOutputRows)
  BY DataTyped
<1> HIDE DEF data
<1>2. Len(data) \in Nat /\ DOMAIN data = 1 .. Len(data) /\ \A k \in 1 .. Len(data) : data[k] \in AnalogOutputRows
  BY <1>1
<1>3. ASSUME NEW r \in AnalogOutputRows
      PROVE  ReadAo(r) = Refused \/ (ReadAo(r) \in AoPoints /\ ReadAo(r).index = r.index)
  <2>1. /\ r.index \in Int /\ r.min \in Cells /\ r.max \in Cells /\ r.mult \in Cells
        /\ r.off \in Cells /\ r.ai \in Association /\ FitsI32({r.min, r.max})
    BY DEF AnalogOutputRows
  <2>2. MinI32 \in I32 /\ MaxI32 \in I32 /\ 0 \in Int /\ Unit \in Int
    BY WidthAssumption DEF I32, Unit
  <2>3. /\ Cell(r.min, MinI32) \in I32 /\ Cell(r.max, MaxI32) \in I32 /\ Cell(r.mult, 0) \in Int
        /\ Cell(r.off, 0) \in Int
    BY <2>1, <2>2, CellTyped, LimitTyped
  <2>4. ReadMultiplier(r) \in Int
    BY <2>2, <2>3 DEF ReadMultiplier
  <2>5. QED
    BY <2>1, <2>3, <2>4 DEF ReadAo, AoNew, AoPoints
<1>4. points = [k \in 1 .. Len(data) |-> points[k]]
  BY <1>2
<1>5. \A k \in 1 .. Len(data) :
        points[k] = Refused \/ (points[k] \in AoPoints /\ points[k].index = data[k].index)
  BY <1>2, <1>3
<1>6. AoSheet(rows) = Sheet(data, points, wrong)
  BY DEF AoSheet, data
<1> HIDE DEF points, wrong
<1>7. Sheet(data, points, wrong).points \in Seq(AoPoints) /\ SameIndexes(Sheet(data, points, wrong).points, data)
  BY <1>2, <1>4, <1>5, <1>6, SheetTyped
<1>8. QED
  BY <1>6, <1>7 DEF data

\* load_ai_sheet makes analog inputs of its rows, or refuses one.
LEMMA AnalogInputsTyped ==
  ASSUME NEW rows, IsSheet(rows, AnalogInputRows), AiSheet(rows) # Refused
  PROVE  /\ AiSheet(rows).points \in Seq(AiPoints)
         /\ SameIndexes(AiSheet(rows).points, DataRows(rows))
<1> DEFINE data == DataRows(rows)
           points == [k \in DOMAIN data |-> ReadAi(data[k])]
           wrong == {k \in DOMAIN data : AnalogErrors(data[k]) \/ data[k].value = Blank}
<1>1. data \in Seq(AnalogInputRows)
  BY DataTyped
<1> HIDE DEF data
<1>2. Len(data) \in Nat /\ DOMAIN data = 1 .. Len(data) /\ \A k \in 1 .. Len(data) : data[k] \in AnalogInputRows
  BY <1>1
<1>3. ASSUME NEW r \in AnalogInputRows
      PROVE  ReadAi(r) = Refused \/ (ReadAi(r) \in AiPoints /\ ReadAi(r).index = r.index)
  <2>1. /\ r.index \in Int /\ r.min \in Cells /\ r.max \in Cells /\ r.mult \in Cells
        /\ r.off \in Cells /\ r.value \in Cells /\ r.ao \in Association /\ FitsI32({r.min, r.max})
    BY DEF AnalogInputRows
  <2>2. MinI32 \in I32 /\ MaxI32 \in I32 /\ 0 \in Int /\ Unit \in Int
    BY WidthAssumption DEF I32, Unit
  <2>3. /\ Cell(r.min, MinI32) \in I32 /\ Cell(r.max, MaxI32) \in I32 /\ Cell(r.mult, 0) \in Int
        /\ Cell(r.off, 0) \in Int /\ Cell(r.value, 0) \in Int
    BY <2>1, <2>2, CellTyped, LimitTyped
  <2>4. ReadMultiplier(r) \in Int
    BY <2>2, <2>3 DEF ReadMultiplier
  <2>5. QED
    BY <2>1, <2>3, <2>4 DEF ReadAi, AiNew, Validly, AiPoints
<1>4. points = [k \in 1 .. Len(data) |-> points[k]]
  BY <1>2
<1>5. \A k \in 1 .. Len(data) :
        points[k] = Refused \/ (points[k] \in AiPoints /\ points[k].index = data[k].index)
  BY <1>2, <1>3
<1>6. AiSheet(rows) = Sheet(data, points, wrong)
  BY DEF AiSheet, data
<1> HIDE DEF points, wrong
<1>7. Sheet(data, points, wrong).points \in Seq(AiPoints) /\ SameIndexes(Sheet(data, points, wrong).points, data)
  BY <1>2, <1>4, <1>5, <1>6, SheetTyped
<1>8. QED
  BY <1>6, <1>7 DEF data

\* The loader makes a profile of a workbook, or refuses it, or unwinds.
LEMMA LoadTyped ==
  ASSUME NEW wb, IsWorkbook(wb)
  PROVE  \/ Load(wb) \in {Refused, Panic}
         \/ /\ BoSheet(wb.bo) # Refused /\ BiSheet(wb.bi) # Refused
            /\ AoSheet(wb.ao) # Refused /\ AiSheet(wb.ai) # Refused
            /\ SortedOut(Load(wb), KeySheet(wb), AoSheet(wb.ao).points, AiSheet(wb.ai).points, wb.name)
<1> DEFINE key == KeySheet(wb)
           bo == BoSheet(wb.bo)
           bi == BiSheet(wb.bi)
           ao == AoSheet(wb.ao)
           ai == AiSheet(wb.ai)
           result == Reclassify(key, bo.points, bi.points, ao.points, ai.points, wb.name)
<1>1. Load(wb) \in {Refused, Panic, result}
  BY DEF Load
<1>2. Load(wb) = Refused \/ (bo # Refused /\ bi # Refused /\ ao # Refused /\ ai # Refused)
  BY DEF Load
<1>3. CASE bo # Refused /\ bi # Refused /\ ao # Refused /\ ai # Refused
  <2>1. /\ IsSheet(wb.bo, BinaryOutputRows) /\ IsSheet(wb.bi, BinaryInputRows)
        /\ IsSheet(wb.ao, AnalogOutputRows) /\ IsSheet(wb.ai, AnalogInputRows)
        /\ key \in Keys
    BY KeyTyped DEF IsWorkbook
  <2>2. /\ bo.points \in Seq([index : Int, bi : Association]) /\ bi.points \in Seq([index : Int, bo : Association])
        /\ ao.points \in Seq(AoPoints) /\ ai.points \in Seq(AiPoints)
    BY <1>3, <2>1, BinaryOutputsTyped, BinaryInputsTyped, AnalogOutputsTyped, AnalogInputsTyped
  <2> HIDE DEF key, bo, bi, ao, ai
  <2>3. result \in {Refused, Panic} \/ SortedOut(result, key, ao.points, ai.points, wb.name)
    BY <2>1, <2>2, ReclassifyTyped
  <2> HIDE DEF result
  <2>4. Load(wb) \in {Refused, Panic} \/ SortedOut(Load(wb), key, ao.points, ai.points, wb.name)
    BY <1>1, <2>3
  <2>5. QED
    BY <1>3, <2>4 DEF key, bo, bi, ao, ai
<1>4. QED
  BY <1>2, <1>3

-----------------------------------------------------------------------------
(* The way of a profile.                                                   *)

\* How far a profile comes: before it is loaded, until a job, after its creation.
Before == {"empty", "not_loaded"}
Uploaded == {"loaded", "edited"}
Prepared == {"created", "updating", "updated", "not_updated"}

\* The inductive invariant: what is loaded is sound; what is prepared is sound
\* or was refused; a profile being updated is sound, keeps the selectors of the
\* prepared one and, while its points are moved, has the same points in the
\* same places, those still to be moved among them.
Stages == stage \in Before \cup Uploaded \cup Prepared \cup {"not_created"}
Loads == stage \notin Before => Sound(profile)
Creates ==
  /\ stage = "not_created" => base = Refused /\ base = PrepareBase(profile, chosen)
  /\ stage \in Prepared => Sound(base)
Updates ==
  /\ stage \in {"updating", "updated"} =>
       /\ Sound(current)
       /\ scenario # Unsupported => SelectorsOf(current) = SelectorsOf(base)
  /\ stage = "updating" =>
       \/ scenario \in Moving /\ draw \in {"high", "inner"}
            /\ Alike(current.ai, base.ai) /\ toMove \in Seq(ToSet(AllAi(base)))
       \/ scenario \notin Moving /\ toMove = <<>>
IInv == Stages /\ Loads /\ Creates /\ Updates /\ ScenariosCanBegin

\* A sound profile has the type of a profile and is no refusal.
LEMMA SoundTyped ==
  ASSUME NEW p, Sound(p)
  PROVE  p \in Profiles /\ p # Refused /\ p.ai \in AiRecords
  BY ProfilesAssumption DEF Sound, Profiles, AiRecords

\* Import: the stages, and the loader makes valid profiles.
LEMMA ImportStep ==
  ASSUME NEW w \in DOMAIN Workbooks, Import(w)
  PROVE  IInv'
<1>1. profile' = Load(Workbooks[w]) /\ stage' = IF profile' \in NoProfile THEN "not_loaded" ELSE "loaded"
  BY DEF Import
<1>2. CASE profile' \in NoProfile
  BY <1>1, <1>2 DEF IInv, Stages, Loads, Creates, Updates, ScenariosCanBegin, Before, Uploaded, Prepared
<1>3. CASE profile' \notin NoProfile
  <2>1. profile' \notin {Refused, Panic} /\ profile' \in Profiles /\ stage' = "loaded"
    <3>1. Load(Workbooks[w]) \in Profiles \cup {Refused, Panic}
      BY ProfilesAssumption, LoadTyped DEF SortedOut
    <3>2. QED
      BY <1>1, <1>3, <3>1 DEF NoProfile
  <2>2. Sound(profile)'
    BY <1>1, <2>1, LoadedIsValid DEF Sound
  <2>3. QED
    BY <2>1, <2>2 DEF IInv, Stages, Loads, Creates, Updates, ScenariosCanBegin, Before, Uploaded, Prepared
<1>4. QED
  BY <1>2, <1>3

\* AddCurve: more curves, or none, make a sound profile.
LEMMA AddCurveStep ==
  ASSUME IInv, AddCurve
  PROVE  IInv'
<1>1. stage = "loaded" /\ stage' = "edited" /\ Sound(profile)
      /\ profile' \in {profile, AddDefaultCurves(profile, Extra)}
      /\ (profile' # profile => AddDefaultCurves(profile, Extra) # Refused)
  BY DEF AddCurve, IInv, Loads, Before
<1>2. profile \in Profiles /\ Extra \in Nat /\ DefaultCurve \in Seq(AiPoints)
  BY <1>1, SoundTyped, ProfilesAssumption
<1>3. Sound(profile')
  <2>1. CASE profile' = profile
    BY <1>1, <2>1
  <2>2. CASE profile' # profile
    BY <1>1, <1>2, <2>2, AddedIsSound
  <2>3. QED
    BY <2>1, <2>2
<1>4. QED
  BY <1>1, <1>3 DEF IInv, Stages, Loads, Creates, Updates, ScenariosCanBegin, Before, Uploaded, Prepared

\* CreateJob: preparing makes a sound profile or fails for want of room.
LEMMA CreateStep ==
  ASSUME IInv, NEW selection \in Selections, CreateJob(selection)
  PROVE  IInv'
<1>1. /\ Sound(profile) /\ profile' = profile /\ chosen' = selection /\ base' = PrepareBase(profile, selection)
      /\ stage' = IF base' = Refused THEN "not_created" ELSE "created"
  BY DEF CreateJob, IInv, Loads, Before
<1>2. base' # Refused => Sound(base')
  BY <1>1, PreparedIsSound, ProfilesAssumption
<1>3. base' = PrepareBase(profile', chosen')
  BY <1>1
<1>4. Loads' /\ Creates'
  BY <1>1, <1>2, <1>3 DEF Loads, Creates, Prepared
<1>5. Stages' /\ Updates' /\ ScenariosCanBegin'
  BY <1>1 DEF Stages, Updates, ScenariosCanBegin, Before, Uploaded, Prepared
<1>6. QED
  BY <1>4, <1>5 DEF IInv

\* BeginScenario: each scenario makes a sound profile of the prepared one, or
\* there was nothing to repeat.
LEMMA BeginStep ==
  ASSUME IInv, NEW s \in ScenarioIds, NEW d \in Draws, BeginScenario(s, d)
  PROVE  IInv'
<1>1. /\ stage = "created" /\ Sound(base) /\ Sound(profile)
      /\ scenario' = s /\ draw' = d /\ current' = UpdateProfile(s, base, Full)
      /\ toMove' = IF s \in Moving THEN AllAi(base) ELSE <<>>
      /\ stage' = IF current' = Refused THEN "not_updated" ELSE "updating"
      /\ profile' = profile /\ base' = base
  BY DEF BeginScenario, IInv, Loads, Creates, Before, Prepared
<1>2. base \in Profiles /\ base # Refused /\ base.ai \in AiRecords /\ d \in {"high", "inner"}
  BY <1>1, SoundTyped, ProfilesAssumption
<1>3. s \in Moving => s \notin {Unsupported, MaxCurves, MaxSchedules}
  BY DEF Moving, Unsupported, MaxCurves, MaxSchedules, ModifyPoints, LowerBounds, UpperBounds
<1>4. MaxCurves # Unsupported /\ MaxSchedules # Unsupported /\ MaxSchedules # MaxCurves
  BY DEF Unsupported, MaxCurves, MaxSchedules
<1>5. CASE s \notin {Unsupported, MaxCurves, MaxSchedules}
  <2>1. current' = base
    BY <1>1, <1>5 DEF UpdateProfile
  <2>2. stage' = "updating"
    BY <1>1, <1>2, <2>1
  <2>3. Alike(base.ai, base.ai)
    BY DEF Alike, Aligned
  <2>4. AllAi(base) \in Seq(ToSet(AllAi(base)))
    <3>1. AllAi(base) \in Seq(AiPoints)
      BY <1>2, AllInputs DEF AllAi
    <3> DEFINE all == AllAi(base)
    <3>2. all \in Seq(AiPoints)
      BY <3>1
    <3> HIDE DEF all
    <3>3. all \in Seq(ToSet(all))
      BY <3>2 DEF ToSet
    <3>4. QED
      BY <3>3 DEF all
  <2>5. Updates'
    BY <1>1, <1>2, <2>1, <2>2, <2>3, <2>4 DEF Updates
  <2>6. QED
    BY <1>1, <2>2, <2>5 DEF IInv, Stages, Loads, Creates, ScenariosCanBegin, Before, Uploaded, Prepared
<1>6. ASSUME s \in {Unsupported, MaxCurves, MaxSchedules}, Sound(current'),
             s # Unsupported => SelectorsOf(current') = SelectorsOf(base)
      PROVE  IInv'
  <2>1. stage' = "updating" /\ toMove' = <<>>
    BY <1>1, <1>3, <1>6, SoundTyped
  <2>2. Updates'
    BY <1>1, <1>3, <1>6, <2>1 DEF Updates
  <2>3. QED
    BY <1>1, <2>1, <2>2 DEF IInv, Stages, Loads, Creates, ScenariosCanBegin, Before, Uploaded, Prepared
<1>7. ASSUME current' = Refused, ScenariosCanBegin'
      PROVE  IInv'
  <2>1. stage' = "not_updated"
    BY <1>1, <1>7
  <2>2. QED
    BY <1>1, <1>7, <2>1 DEF IInv, Stages, Loads, Creates, Updates, Before, Uploaded, Prepared
<1>8. CASE s = Unsupported
  <2>1. current' = UnsupportedProfile(base, Full)
    BY <1>1, <1>4, <1>8 DEF UpdateProfile
  <2>2. QED
    BY <1>2, <1>6, <1>8, <2>1, UnsupportedIsSound
<1>9. CASE s = MaxCurves
  <2>1. current' = OneCurveMore(base)
    BY <1>1, <1>4, <1>9 DEF UpdateProfile
  <2>2. CASE base.ai["curve"] = <<>>
    BY <1>1, <1>7, <1>9, <2>1, <2>2 DEF OneCurveMore, ScenariosCanBegin
  <2>3. CASE base.ai["curve"] # <<>>
    BY <1>1, <1>6, <1>9, <2>1, <2>3, MoreIsSound
  <2>4. QED
    BY <2>2, <2>3
<1>10. CASE s = MaxSchedules
  <2>1. current' = OneScheduleMore(base)
    BY <1>1, <1>4, <1>10 DEF UpdateProfile
  <2>2. CASE base.ai["schedule"] = <<>> /\ base.ai["schedule_bc"] = <<>>
    BY <1>1, <1>7, <1>10, <2>1, <2>2 DEF OneScheduleMore, ScenariosCanBegin
  <2>3. CASE ~(base.ai["schedule"] = <<>> /\ base.ai["schedule_bc"] = <<>>)
    BY <1>1, <1>6, <1>10, <2>1, <2>3, MoreIsSound
  <2>4. QED
    BY <2>2, <2>3
<1>11. QED
  BY <1>5, <1>8, <1>9, <1>10

\* MovePoint: a moved input is one like the others, and none is a selector.
LEMMA MoveStep ==
  ASSUME IInv, MovePoint
  PROVE  IInv'
<1> DEFINE a == Head(toMove)
<1>1. /\ stage = "updating" /\ stage' = stage /\ toMove # <<>> /\ toMove' = Tail(toMove)
      /\ Sound(current) /\ Sound(base) /\ Sound(profile)
      /\ profile' = profile /\ base' = base /\ scenario' = scenario /\ draw' = draw
  BY DEF MovePoint, IInv, Loads, Creates, Updates, Before, Prepared
<1>2. /\ scenario \in Moving /\ draw \in {"high", "inner"} /\ Alike(current.ai, base.ai)
      /\ toMove \in Seq(ToSet(AllAi(base)))
  BY <1>1 DEF IInv, Updates
<1>3. a \in ToSet(AllAi(base)) /\ toMove' \in Seq(ToSet(AllAi(base)))
  BY <1>1, <1>2
<1>4. base \in Profiles
  BY <1>1, SoundTyped
<1>5. Sound(current') /\ Alike(current'.ai, base.ai)
  <2>1. CASE PassedOver(a)
    BY <1>1, <1>2, <2>1 DEF MovePoint
  <2>2. CASE ~PassedOver(a) /\ scenario = ModifyPoints
    <3>1. current' = ModifyPoint(current, a, Drawn(draw, AiPoint(current, a.index)))
      BY <2>2 DEF MovePoint
    <3> HIDE DEF a
    <3>2. QED
      BY <1>1, <1>2, <1>3, <1>4, <2>2, <3>1, RoundKeepsAlike
  <2>3. CASE ~PassedOver(a) /\ scenario # ModifyPoints
    <3>1. current' = OutOfBounds(current, a, scenario)
      BY <2>3 DEF MovePoint
    <3> HIDE DEF a
    <3>2. QED
      BY <1>1, <1>2, <1>3, <1>4, <2>3, <3>1, RoundKeepsAlike
  <2>4. QED
    BY <2>1, <2>2, <2>3
<1>6. SelectorsOf(current') = SelectorsOf(base)
  BY <1>4, <1>5, SoundTyped, AlikeSelectors
<1> HIDE DEF a
<1>7. Updates'
  BY <1>1, <1>2, <1>3, <1>5, <1>6 DEF Updates
<1>8. QED
  BY <1>1, <1>7 DEF IInv, Stages, Loads, Creates, ScenariosCanBegin, Before, Uploaded, Prepared

\* EndUpdate: the validation after the update succeeds.
LEMMA EndStep ==
  ASSUME IInv, EndUpdate
  PROVE  IInv'
<1>1. /\ stage = "updating" /\ Sound(current) /\ Sound(base) /\ Sound(profile)
      /\ scenario # Unsupported => SelectorsOf(current) = SelectorsOf(base)
  BY DEF EndUpdate, IInv, Loads, Creates, Updates, Before, Prepared
<1>2. ProfileValid(current)
  BY <1>1 DEF Sound
<1>3. stage' = "updated" /\ UNCHANGED <<profile, chosen, base, scenario, current>>
  BY <1>2 DEF EndUpdate
<1>4. QED
  BY <1>1, <1>3 DEF IInv, Stages, Loads, Creates, Updates, ScenariosCanBegin, Before, Uploaded, Prepared

\* Each step keeps the inductive invariant.
LEMMA IInvKept == PipelineSpec => []IInv
<1>1. PipelineInit => IInv
  BY DEF PipelineInit, IInv, Stages, Loads, Creates, Updates, ScenariosCanBegin, Before, Uploaded, Prepared
<1>2. IInv /\ [PipelineNext]_PipelineVars => IInv'
  <2> SUFFICES ASSUME IInv, [PipelineNext]_PipelineVars PROVE IInv'
    OBVIOUS
  <2>1. CASE UNCHANGED PipelineVars
    BY <2>1 DEF PipelineVars, IInv, Stages, Loads, Creates, Updates, ScenariosCanBegin
  <2>2. CASE PipelineNext
    BY <2>2, ImportStep, AddCurveStep, CreateStep, BeginStep, MoveStep, EndStep DEF PipelineNext
  <2>3. QED
    BY <2>1, <2>2
<1>3. QED
  BY <1>1, <1>2, PTL DEF PipelineSpec

\* From the workbook to the scenario every profile obeys all rules of validate():
\* the loaded and edited one, the prepared one both stations are started with, and
\* the one the control station is given for a scenario, whatever the workbook, the
\* bundled profile, the scenarios, the values drawn and the order of the steps.
THEOREM ProfilesSound ==
  PipelineSpec => [](/\ Loads
                     /\ stage \in Prepared => Sound(base)
                     /\ stage = "updated" => Sound(current))
<1>1. IInv => /\ Loads
              /\ stage \in Prepared => Sound(base)
              /\ stage = "updated" => Sound(current)
  BY DEF IInv, Creates, Updates
<1>2. QED
  BY <1>1, IInvKept, PTL

\* create_job refuses a profile it has loaded only for a point whose limits leave
\* no value, or an input whose value sits at a 32-bit limit: no other rule is broken
\* by prepare_base_profile_for_scenarios.
THEOREM RoomMade == PipelineSpec => []RoomIsMade
<1>1. IInv => RoomIsMade
  <2> SUFFICES ASSUME IInv, stage = "not_created" PROVE NoRoom(profile)
    BY DEF RoomIsMade, NoRoom
  <2>1. Sound(profile) /\ PrepareBase(profile, chosen) = Refused
    BY DEF IInv, Loads, Creates, Before
  <2>2. QED
    BY <2>1, PreparedIsSound, ProfilesAssumption
<1>2. QED
  BY <1>1, IInvKept, PTL

\* update_profile_for_scenario never fails for a job that was created, except
\* when there is no curve or schedule to repeat: every point that is moved, rescaled
\* or set out of its limits leaves a profile that validate() accepts.
THEOREM ScenariosBegin == PipelineSpec => []ScenariosCanBegin
<1>1. IInv => ScenariosCanBegin
  BY DEF IInv
<1>2. QED
  BY <1>1, IInvKept, PTL

\* A scenario that moves points leaves the selectors of curves and schedules as
\* they were in the prepared profile (modify_points and set_ai_out_of_bounds pass
\* over them), so that the station still shows the entry the other points are of.
THEOREM SelectorsKept == PipelineSpec => []SelectorsStay
<1>1. IInv => SelectorsStay
  <2> SUFFICES ASSUME IInv, stage = "updated", scenario # Unsupported, NEW i \in SelectorAis
               PROVE  {a \in ToSet(AllAi(current)) : a.index = i} = {a \in ToSet(AllAi(base)) : a.index = i}
    BY DEF SelectorsStay
  <2>1. SelectorsOf(current) = SelectorsOf(base)
    BY DEF IInv, Updates
  <2>2. QED
    BY <2>1 DEF SelectorsOf, PassedOver
<1>2. QED
  BY <1>1, IInvKept, PTL

\* A profile that was loaded and not yet edited is what its workbook became.
Origin ==
  stage = "loaded" => /\ workbook \in DOMAIN Workbooks /\ profile = Load(Workbooks[workbook])
                      /\ profile \notin {Refused, Panic}
\* Only an import makes a profile "loaded".
LEMMA OriginKept == PipelineSpec => []Origin
<1>1. PipelineInit => Origin
  BY DEF PipelineInit, Origin
<1>2. Origin /\ [PipelineNext]_PipelineVars => Origin'
  <2> SUFFICES ASSUME Origin, [PipelineNext]_PipelineVars PROVE Origin'
    OBVIOUS
  <2>1. CASE UNCHANGED PipelineVars
    BY <2>1 DEF PipelineVars, Origin
  <2>2. ASSUME NEW w \in DOMAIN Workbooks, Import(w) PROVE Origin'
    BY <2>2 DEF Import, Origin, NoProfile
  <2>3. ASSUME AddCurve \/ MovePoint \/ EndUpdate PROVE stage' # "loaded"
    BY <2>3 DEF AddCurve, MovePoint, EndUpdate
  <2>4. ASSUME NEW selection \in Selections, CreateJob(selection) PROVE stage' # "loaded"
    BY <2>4 DEF CreateJob
  <2>5. ASSUME NEW s \in ScenarioIds, NEW d \in Draws, BeginScenario(s, d) PROVE stage' # "loaded"
    BY <2>5 DEF BeginScenario
  <2>6. QED
    BY <2>1, <2>2, <2>3, <2>4, <2>5 DEF PipelineNext, Origin
<1>3. QED
  BY <1>1, <1>2, PTL DEF PipelineSpec

\* A row of a sheet has a point with its index.
LEMMA RowHasPoint ==
  ASSUME NEW S, NEW points \in Seq(S), NEW T, NEW data \in Seq(T), SameIndexes(points, data), NEW r \in ToSet(data)
  PROVE  \E p \in ToSet(points) : p.index = r.index
<1>1. Len(points) = Len(data) /\ \A k \in 1 .. Len(points) : points[k].index = data[k].index
  BY DEF SameIndexes
<1>2. PICK k \in 1 .. Len(data) : data[k] = r
  BY DEF ToSet
<1>3. k \in DOMAIN points /\ points[k].index = r.index
  BY <1>1, <1>2
<1>4. points[k] \in ToSet(points)
  BY <1>3 DEF ToSet
<1>5. QED
  BY <1>3, <1>4

\* Rescaling the outputs loses none.
LEMMA OutputsKeep ==
  ASSUME NEW new \in AoRecords, NEW old \in AoRecords, SameOutputs(new, old), NEW kind \in ToSet(AoKinds), NEW i,
         Keeps(old[kind], i)
  PROVE  Keeps(new[kind], i)
<1>1. PICK r \in DOMAIN old[kind] : HasIndex(old[kind][r], i)
  BY DEF Keeps
<1>2. old[kind] \in Seq(Seq(AoPoints)) /\ new[kind] \in Seq(Seq(AoPoints))
  BY DEF AoRecords, Records
<1>3. r \in DOMAIN new[kind] /\ SameIndexes(new[kind][r], old[kind][r])
  BY <1>1 DEF SameOutputs
<1> DEFINE f == old[kind][r]
           g == new[kind][r]
<1>4. f \in Seq(AoPoints) /\ g \in Seq(AoPoints)
  BY <1>1, <1>2, <1>3
<1>5. SameIndexes(g, f) /\ HasIndex(f, i)
  BY <1>1, <1>3
<1> HIDE DEF f, g
<1>6. PICK k \in 1 .. Len(f) : f[k].index = i
  BY <1>4, <1>5 DEF HasIndex, Indices, ToSet
<1>7. k \in DOMAIN g /\ g[k].index = i
  BY <1>4, <1>5, <1>6 DEF SameIndexes
<1>8. HasIndex(g, i)
  BY <1>7 DEF HasIndex, Indices, ToSet
<1>9. QED
  BY <1>3, <1>8 DEF Keeps, g

\* Entries that hold what was read of a section hold the section's rows.
LEMMA SectionKept ==
  ASSUME NEW h \in Nat, NEW n \in {2, 4}, NEW ps, NEW rows, Len(ps) \in Nat, SameIndexes(ps, rows),
         NEW entries \in Seq(Copies(h, n, ps))
  PROVE  /\ Dealt(entries, rows, <<h, n>>)
         /\ Complete(entries, ps, <<h, n>>) => Complete(entries, rows, <<h, n>>)
<1>1. \A e \in ToSet(entries) : e \in Copies(h, n, ps)
  BY DEF ToSet
<1>2. ASSUME NEW e \in ToSet(entries)
      PROVE  Holds(e, rows, h, n)
  <2>1. e \in Copies(h, n, ps)
    BY <1>1
  <2>2. Slots(e, h, n) \in Nat /\ Holds(e, ps, h, n)
    BY <2>1, CopyIs
  <2>3. QED
    BY <2>2, HoldsAlike
<1>3. Len(rows) = Len(ps)
  BY DEF SameIndexes
<1>4. Slots(rows, h, n) = Slots(ps, h, n)
  BY <1>3 DEF Slots
<1>5. QED
  BY <1>2, <1>3, <1>4 DEF Dealt, Complete

\* The sections of a workbook's inputs, in a profile made of it.
LEMMA SectionsKept ==
  ASSUME NEW ai, NEW key, NEW S, NEW ps \in Seq(S), NEW T, NEW rows \in Seq(T), SameIndexes(ps, rows),
         Templates(ai, Sections(key, ps)), NEW kind \in EntryKinds
  PROVE  /\ Dealt(ai[kind], OfKind(key, rows, kind), Layout[kind])
         /\ Completes(ai, Sections(key, ps)) => Complete(ai[kind], OfKind(key, rows, kind), Layout[kind])
<1> DEFINE secs == Sections(key, ps)
<1>1. \A kd \in EntryKinds : secs[kd] = OfKind(key, ps, kd)
  BY SectionsTyped
<1>2. \A kd : Len(OfKind(key, ps, kd)) \in Nat /\ SameIndexes(OfKind(key, ps, kd), OfKind(key, rows, kd))
  BY OfKindIs, SectionsAlike
<1>3. kind \in {"curve", "schedule_bc", "schedule"}
  BY DEF EntryKinds, SelectorOf
<1>4. /\ Layout["curve"] = <<4, 2>> /\ Layout["schedule_bc"] = <<10, 2>> /\ Layout["schedule"] = <<11, 4>>
      /\ 4 \in Nat /\ 10 \in Nat /\ 11 \in Nat /\ 2 \in {2, 4} /\ 4 \in {2, 4}
  BY DEF Layout
<1>5. Len(secs[kind]) \in Nat /\ SameIndexes(secs[kind], OfKind(key, rows, kind))
  BY <1>1, <1>2
<1> DEFINE own == OfKind(key, rows, kind)
<1>6. Templates(ai, secs)
  OBVIOUS
<1> HIDE DEF secs, own
<1>7. CASE kind = "curve"
  <2>1. ai["curve"] \in Seq(Copies(4, 2, secs["curve"]))
    BY <1>6 DEF Templates
  <2>2. Len(secs["curve"]) \in Nat /\ SameIndexes(secs["curve"], own)
    BY <1>5, <1>7 DEF own
  <2>3. Dealt(ai["curve"], own, <<4, 2>>)
        /\ (Complete(ai["curve"], secs["curve"], <<4, 2>>) => Complete(ai["curve"], own, <<4, 2>>))
    BY <1>4, <2>1, <2>2, SectionKept
  <2>4. QED
    BY <1>4, <1>7, <2>3 DEF Completes, secs, own
<1>8. CASE kind = "schedule_bc"
  <2>1. ai["schedule_bc"] \in Seq(Copies(10, 2, secs["schedule_bc"]))
    BY <1>6 DEF Templates
  <2>2. Len(secs["schedule_bc"]) \in Nat /\ SameIndexes(secs["schedule_bc"], own)
    BY <1>5, <1>8 DEF own
  <2>3. Dealt(ai["schedule_bc"], own, <<10, 2>>)
        /\ (Complete(ai["schedule_bc"], secs["schedule_bc"], <<10, 2>>) => Complete(ai["schedule_bc"], own, <<10, 2>>))
    BY <1>4, <2>1, <2>2, SectionKept
  <2>4. QED
    BY <1>4, <1>8, <2>3 DEF Completes, secs, own
<1>9. CASE kind = "schedule"
  <2>1. ai["schedule"] \in Seq(Copies(11, 4, secs["schedule"]))
    BY <1>6 DEF Templates
  <2>2. Len(secs["schedule"]) \in Nat /\ SameIndexes(secs["schedule"], own)
    BY <1>5, <1>9 DEF own
  <2>3. Dealt(ai["schedule"], own, <<11, 4>>)
        /\ (Complete(ai["schedule"], secs["schedule"], <<11, 4>>) => Complete(ai["schedule"], own, <<11, 4>>))
    BY <1>4, <2>1, <2>2, SectionKept
  <2>4. QED
    BY <1>4, <1>9, <2>3 DEF Completes, secs, own
<1>10. QED
  BY <1>3, <1>7, <1>8, <1>9

\* Whatever the workbook: when read_all_points and reclassify_by_key end without
\* an error, every row of the sheets of binary outputs, binary inputs and analog
\* outputs, and of analog inputs outside the curves and schedules, is in a record
\* of the kind the key sheet gives it; and every curve and schedule holds the
\* rows of its section at their places, also after it was rescaled and, in the
\* bundled profiles, made into four.  The three classifications drop equipment of
\* a wrong size each by a path of its own, and each must record the error.
THEOREM NoRowLost == PipelineSpec => []RowsKept
<1>1. Origin /\ IInv => RowsKept
  <2> SUFFICES ASSUME Origin, IInv, stage = "loaded"
               PROVE  RowsKept
    BY DEF RowsKept
  <2> DEFINE wb == Workbooks[workbook]
             key == KeySheet(wb)
             bos == BoSheet(wb.bo).points
             bis == BiSheet(wb.bi).points
             aos == AoSheet(wb.ao).points
             ais == AiSheet(wb.ai).points
             bi == ReclassifyBi(key, bis)
             ao == ReclassifyAo(key, aos)
  <2>1. IsWorkbook(wb) /\ profile = Load(wb) /\ Load(wb) \notin {Refused, Panic}
    BY ProfilesAssumption DEF Origin
  <2>2. /\ IsSheet(wb.bo, BinaryOutputRows) /\ IsSheet(wb.bi, BinaryInputRows)
        /\ IsSheet(wb.ao, AnalogOutputRows) /\ IsSheet(wb.ai, AnalogInputRows)
    BY <2>1 DEF IsWorkbook
  <2>3. /\ BoSheet(wb.bo) # Refused /\ BiSheet(wb.bi) # Refused /\ AoSheet(wb.ao) # Refused /\ AiSheet(wb.ai) # Refused
        /\ SortedOut(profile, key, aos, ais, wb.name)
    BY <2>1, LoadTyped
  <2>4. /\ bos \in Seq([index : Int, bi : Association]) /\ SameIndexes(bos, DataRows(wb.bo))
        /\ bis \in Seq([index : Int, bo : Association]) /\ SameIndexes(bis, DataRows(wb.bi))
        /\ aos \in Seq(AoPoints) /\ SameIndexes(aos, DataRows(wb.ao))
        /\ ais \in Seq(AiPoints) /\ SameIndexes(ais, DataRows(wb.ai))
    BY <2>2, <2>3, BinaryOutputsTyped, BinaryInputsTyped, AnalogOutputsTyped, AnalogInputsTyped
  <2>5. /\ DataRows(wb.bo) \in Seq(BinaryOutputRows) /\ DataRows(wb.bi) \in Seq(BinaryInputRows)
        /\ DataRows(wb.ao) \in Seq(AnalogOutputRows) /\ DataRows(wb.ai) \in Seq(AnalogInputRows)
    BY <2>2, DataTyped
  <2>6. /\ profile.key = key /\ profile.bo = bos /\ profile.bi = bi.records /\ ~bi.err /\ ~ao.err
        /\ \A r \in ToSet(DataRows(wb.ai)) :
             AiKindOf(key, r.index) \in EntryKinds \/ Keeps(profile.ai[AiKindOf(key, r.index)], r.index)
    <3>1. wb.ai \in Seq(ToSet(wb.ai))
      BY <2>2 DEF IsSheet
    <3>2. QED
      BY <2>1, <3>1, LoadKeeps
  <2> HIDE DEF wb, key, bos, bis, aos, ais, bi, ao
  <2>7. ASSUME NEW r \in ToSet(DataRows(wb.bo)) PROVE HasIndex(profile.bo, r.index)
    <3>1. \E p \in ToSet(bos) : p.index = r.index
      BY <2>4, <2>5, RowHasPoint
    <3>2. QED
      BY <2>6, <3>1 DEF HasIndex, Indices, ToSet
  <2>8. ASSUME NEW r \in ToSet(DataRows(wb.bi)) PROVE Keeps(profile.bi[BiKindOf(key, r.index)], r.index)
    <3>1. PICK p \in ToSet(bis) : p.index = r.index
      BY <2>4, <2>5, RowHasPoint
    <3>2. Keeps(bi.records[BiKindOf(key, p.index)], p.index)
      BY <2>4, <2>6, BiKeeps DEF bi
    <3>3. QED
      BY <2>6, <3>1, <3>2
  <2>9. ASSUME NEW r \in ToSet(DataRows(wb.ao)) PROVE Keeps(profile.ao[AoKindOf(key, r.index)], r.index)
    <3>1. PICK p \in ToSet(aos) : p.index = r.index
      BY <2>4, <2>5, RowHasPoint
    <3>2. Keeps(ao.records[AoKindOf(key, p.index)], p.index)
      BY <2>4, <2>6, AoKeeps DEF ao
    <3>3. ao.records \in AoRecords /\ AoKindOf(key, p.index) \in ToSet(AoKinds)
      BY <2>4, AoSorted, KindOfIs DEF AoRecords, ao
    <3>4. profile.ao \in AoRecords /\ SameOutputs(profile.ao, ao.records)
      BY <2>3 DEF SortedOut, Profiles, AoRecords, ao
    <3>5. Keeps(profile.ao[AoKindOf(key, p.index)], p.index)
      BY <3>2, <3>3, <3>4, OutputsKeep
    <3>6. QED
      BY <3>1, <3>5
  <2>10. ASSUME NEW kind \in EntryKinds
         PROVE  /\ Dealt(profile.ai[kind], OfKind(key, DataRows(wb.ai), kind), Layout[kind])
                /\ wb.name \notin RideThroughNames =>
                     Complete(profile.ai[kind], OfKind(key, DataRows(wb.ai), kind), Layout[kind])
    <3>1. /\ Templates(profile.ai, Sections(key, ais))
          /\ wb.name \notin RideThroughNames => Completes(profile.ai, Sections(key, ais))
      BY <2>3 DEF SortedOut
    <3>2. QED
      BY <2>4, <2>5, <3>1, SectionsKept
  <2>11. ASSUME NEW kind
         PROVE  Where(DataRows(wb.ai), LAMBDA r : AiKindOf(profile.key, r.index) = kind)
                  = OfKind(key, DataRows(wb.ai), kind)
    BY <2>6 DEF OfKind, Where
  <2> DEFINE section(kind) == Where(DataRows(wb.ai), LAMBDA r : AiKindOf(profile.key, r.index) = kind)
  <2>12. RowsKept <=>
           /\ \A r \in ToSet(DataRows(wb.bo)) : HasIndex(profile.bo, r.index)
           /\ \A r \in ToSet(DataRows(wb.bi)) : Keeps(profile.bi[BiKindOf(profile.key, r.index)], r.index)
           /\ \A r \in ToSet(DataRows(wb.ao)) : Keeps(profile.ao[AoKindOf(profile.key, r.index)], r.index)
           /\ \A r \in ToSet(DataRows(wb.ai)) :
                AiKindOf(profile.key, r.index) \notin EntryKinds
                => Keeps(profile.ai[AiKindOf(profile.key, r.index)], r.index)
           /\ \A kind \in EntryKinds :
                /\ Dealt(profile.ai[kind], section(kind), Layout[kind])
                /\ wb.name \notin RideThroughNames => Complete(profile.ai[kind], section(kind), Layout[kind])
    BY DEF RowsKept, Where, wb
  <2>13. \A kind \in EntryKinds : section(kind) = OfKind(key, DataRows(wb.ai), kind)
    BY <2>11
  <2> HIDE DEF section
  <2>14. QED
    BY <2>6, <2>7, <2>8, <2>9, <2>10, <2>12, <2>13
<1>2. QED
  BY <1>1, OriginKept, IInvKept, PTL

-----------------------------------------------------------------------------
(* The profiles on disk.                                                   *)

(* The shape of the state.                                                 *)

Fields == {"op", "at", "name", "content", "looked", "listed", "answer"}

\* What is left to copy is shipped and is no user's profile, one file at a time
\* is open for copying, and a seeding and a request never run together.
Shape ==
  /\ program \in {"down", "seeding", "up"}
  /\ toCopy \subseteq ToCopy(version)
  /\ copying = {} \/ \E f \in ToCopy(version) : copying = {f}
  /\ program # "seeding" => toCopy = {} /\ copying = {}
  /\ program # "up" => client = [c \in Clients |-> Idle]
  /\ DOMAIN disk = Dirs /\ \A d \in Dirs : DOMAIN disk[d] = Names
  /\ DOMAIN client = Clients /\ \A c \in Clients : DOMAIN client[c] = Fields
  /\ DOMAIN touched = Clients /\ DOMAIN settled = Names

\* A step of the launcher or the installer.
Launcher ==
  \/ Launch \/ CopyEnds \/ Start \/ Stop \/ Upgrade
  \/ \E f \in Dirs \X Names : CopyBegins(f)

\* The steps of a request of client c.
Asks(c) ==
  \/ Ask(c, "list", Nothing, Nothing, "working")
  \/ \E n \in Names \cup BadNames : Ask(c, "get", n, Nothing, "look")
  \/ \E n \in SavedNames : \/ \E x \in Contents : Ask(c, "save", n, x, "open")
                           \/ Ask(c, "delete", n, Nothing, "look")
Lists(c) == ListWorking(c) \/ ListSeeds(c) \/ ListTemplate(c)
Gets(c) == GetLooks(c) \/ GetReads(c)
Edits(c) ==
  SaveOpens(c) \/ SaveWrites(c) \/ SaveWritesInVain(c) \/ DeleteLooks(c) \/ DeleteRefuses(c) \/ DeleteRemoves(c)
Requests(c) == Asks(c) \/ Lists(c) \/ Gets(c) \/ Edits(c)

\* Every step is of the launcher, the installer or a request.
LEMMA StoreSteps == Next <=> Launcher \/ \E c \in Clients : Requests(c)
BY DEF Next, Launcher, Requests, Asks, Lists, Gets, Edits

\* What is copied is shipped, and is not a user's profile.
LEMMA CopiedIsShipped ==
  ASSUME NEW v, NEW f \in ToCopy(v)
  PROVE  /\ f[1] \in Dirs \ {"working"} /\ f[2] \in Names /\ f = <<f[1], f[2]>>
         /\ Shipped[v][f[1]][f[2]] # Absent
BY DEF ToCopy

\* The fields of a client that asks nothing.
LEMMA IdleFields ==
  /\ DOMAIN Idle = Fields
  /\ Idle.op = "none" /\ Idle.at = "done" /\ Idle.looked = 0 /\ Idle.answer = Nothing
BY DEF Idle, Fields

\* What the launcher may change on disk: the file it copies.
LEMMA LauncherShape ==
  ASSUME Shape, Launcher
  PROVE  Shape' /\ disk'["working"] = disk["working"] /\ UNCHANGED settled
<1>1. CASE Launch
  BY <1>1 DEF Launch, Shape, history
<1>2. CASE CopyEnds
  <2>1. PICK f \in copying :
          disk' = [disk EXCEPT ![f[1]][f[2]] = WholeFile(Shipped[version][f[1]][f[2]])]
    BY <1>2 DEF CopyEnds
  <2>2. f[1] \in Dirs \ {"working"} /\ f[2] \in Names
    BY <2>1, CopiedIsShipped DEF Shape
  <2>3. QED
    BY <1>2, <2>1, <2>2 DEF CopyEnds, Shape, history, Dirs
<1>3. CASE Start
  BY <1>3 DEF Start, Shape, history
<1>4. CASE Stop
  BY <1>4, IdleFields DEF Stop, Shape
<1>5. CASE Upgrade
  BY <1>5 DEF Upgrade, Shape, history
<1>6. ASSUME NEW f \in Dirs \X Names, CopyBegins(f)
      PROVE  Shape' /\ disk'["working"] = disk["working"] /\ UNCHANGED settled
  <2>1. f \in ToCopy(version) /\ f[1] \in Dirs \ {"working"} /\ f[2] \in Names
    BY <1>6, CopiedIsShipped DEF CopyBegins, Shape
  <2>2. QED
    BY <1>6, <2>1 DEF CopyBegins, Shape, history, Dirs
<1>7. QED
  BY <1>1, <1>2, <1>3, <1>4, <1>5, <1>6 DEF Launcher

\* A request leaves the files alone, or makes one of the user's profiles what it
\* is to be.
Saved == UNCHANGED <<disk, settled>> /\ DOMAIN touched' = Clients
Changing(c) == \E n, file, last : Changes(c, n, file, last)

\* An edit changes one of the users' profiles, and every other client is told of it.
LEMMA EditedFiles ==
  ASSUME Shape, NEW c \in Clients, NEW n, NEW file, NEW last, Changes(c, n, file, last)
  PROVE  /\ DOMAIN disk' = Dirs /\ \A d \in Dirs : DOMAIN disk'[d] = Names
         /\ \A d \in Dirs \ {"working"} : disk'[d] = disk[d]
         /\ \A m \in Names : disk'["working"][m] = IF m = n THEN file ELSE disk["working"][m]
         /\ DOMAIN touched' = Clients /\ DOMAIN settled' = Names
         /\ \A k \in Clients : touched'[k] = IF k = c THEN touched[k] ELSE touched[k] \cup {n}
BY DEF Changes, Shape, Dirs

\* What client c is answered changes nobody else's request, but that a file which
\* somebody is about to write may be gone.
OthersGoOn(c) ==
  /\ DOMAIN client' = Clients /\ \A k \in Clients : DOMAIN client'[k] = Fields
  /\ \A k \in Clients \ {c} : client[k].op = client'[k].op /\ (client[k].at # "write" => client'[k] = client[k])

\* A client that only moves on disturbs nobody.
LEMMA ClientGoes ==
  ASSUME Shape, NEW c \in Clients,
         \/ \E at : Goes(c, at)
         \/ \E answer : Answers(c, answer)
         \/ \E at, listed : client' = [client EXCEPT ![c].at = at, ![c].listed = listed]
         \/ \E at, looked : client' = [client EXCEPT ![c].at = at, ![c].looked = looked]
         \/ \E looked : client' = [client EXCEPT ![c].looked = looked]
  PROVE  OthersGoOn(c) /\ client'[c].op = client[c].op /\ client'[c].name = client[c].name
<1> USE DEF Shape, OthersGoOn, Fields
<1>1. ASSUME NEW at, Goes(c, at)
      PROVE  OthersGoOn(c) /\ client'[c].op = client[c].op /\ client'[c].name = client[c].name
  BY <1>1 DEF Goes
<1>2. ASSUME NEW answer, Answers(c, answer)
      PROVE  OthersGoOn(c) /\ client'[c].op = client[c].op /\ client'[c].name = client[c].name
  BY <1>2 DEF Answers
<1>3. ASSUME NEW at, NEW listed, client' = [client EXCEPT ![c].at = at, ![c].listed = listed]
      PROVE  OthersGoOn(c) /\ client'[c].op = client[c].op /\ client'[c].name = client[c].name
  BY <1>3
<1>4. ASSUME NEW at, NEW looked, client' = [client EXCEPT ![c].at = at, ![c].looked = looked]
      PROVE  OthersGoOn(c) /\ client'[c].op = client[c].op /\ client'[c].name = client[c].name
  BY <1>4
<1>5. ASSUME NEW looked, client' = [client EXCEPT ![c].looked = looked]
      PROVE  OthersGoOn(c) /\ client'[c].op = client[c].op /\ client'[c].name = client[c].name
  BY <1>5
<1>6. QED
  BY <1>1, <1>2, <1>3, <1>4, <1>5

\* What a request of client c does.
StepEffect(c) ==
  /\ program = "up" /\ UNCHANGED launch /\ OthersGoOn(c)
  /\ \/ Saved /\ \A k \in Clients \ {c} : touched'[k] = touched[k]
     \/ Changing(c) /\ client[c].op \in {"save", "delete"}

\* A request that begins touches no file.
LEMMA AskEffect ==
  ASSUME Shape, NEW c \in Clients, NEW op, NEW n, NEW x, NEW first, Ask(c, op, n, x, first)
  PROVE  /\ StepEffect(c)
         /\ client'[c].op = op /\ client'[c].name = n /\ client'[c].looked = 0
         /\ IF n \in BadNames THEN client'[c].at = "done" /\ client'[c].answer = "bad_name"
            ELSE client'[c].at = first
<1> DEFINE new == IF n \in BadNames THEN [Idle EXCEPT !.op = op, !.name = n, !.answer = "bad_name"]
                  ELSE [Idle EXCEPT !.op = op, !.name = n, !.content = x, !.at = first]
<1>1. /\ DOMAIN new = Fields /\ new.op = op /\ new.name = n /\ new.looked = 0
      /\ IF n \in BadNames THEN new.at = "done" /\ new.answer = "bad_name" ELSE new.at = first
  BY IdleFields DEF Fields
<1>2. client' = [client EXCEPT ![c] = new]
  BY DEF Ask
<1> HIDE DEF new
<1>3. client'[c] = new /\ OthersGoOn(c)
  BY <1>1, <1>2 DEF Shape, OthersGoOn
<1>4. Saved /\ \A k \in Clients \ {c} : touched'[k] = touched[k]
  BY DEF Ask, Saved, Shape
<1>5. program = "up" /\ UNCHANGED launch
  BY DEF Ask
<1>6. QED
  BY <1>1, <1>3, <1>4, <1>5 DEF StepEffect

\* Whatever is asked.
LEMMA AsksEffect == ASSUME Shape, NEW c \in Clients, Asks(c) PROVE StepEffect(c)
BY AskEffect DEF Asks

\* A list touches no file.
LEMMA ListsEffect ==
  ASSUME Shape, NEW c \in Clients, Lists(c)
  PROVE  StepEffect(c) /\ client'[c].op = "list" /\ client[c].op = "list"
<1>1. program = "up" /\ OnlyClient /\ client[c].op = "list"
  BY DEF Lists, ListWorking, ListSeeds, ListTemplate, At
<1>2. \E at, listed : client' = [client EXCEPT ![c].at = at, ![c].listed = listed]
  BY DEF Lists, ListWorking, ListSeeds, ListTemplate
<1>3. QED
  BY <1>1, <1>2, ClientGoes DEF StepEffect, Saved, OnlyClient, history, launch, Shape

\* A load touches no file.
LEMMA GetsEffect ==
  ASSUME Shape, NEW c \in Clients, Gets(c)
  PROVE  StepEffect(c) /\ client'[c].op = "get" /\ client[c].op = "get" /\ client'[c].name = client[c].name
<1>1. program = "up" /\ OnlyClient /\ client[c].op = "get"
  BY DEF Gets, GetLooks, GetReads, At
<1>2. \/ \E answer : Answers(c, answer)
      \/ \E at, looked : client' = [client EXCEPT ![c].at = at, ![c].looked = looked]
      \/ \E looked : client' = [client EXCEPT ![c].looked = looked]
  BY DEF Gets, GetLooks, GetReads
<1>3. QED
  BY <1>1, <1>2, ClientGoes DEF StepEffect, Saved, OnlyClient, history, launch, Shape

\* A save or a deletion touches at most one of the users' profiles.
LEMMA EditsEffect ==
  ASSUME Shape, NEW c \in Clients, Edits(c)
  PROVE  StepEffect(c) /\ client'[c].op = client[c].op /\ client[c].op \in {"save", "delete"}
<1>1. program = "up" /\ client[c].op \in {"save", "delete"}
  BY DEF Edits, SaveOpens, SaveWrites, SaveWritesInVain, DeleteLooks, DeleteRefuses, DeleteRemoves, At
<1>2. Changing(c) \/ OnlyClient
  BY DEF Edits, SaveOpens, SaveWrites, SaveWritesInVain, DeleteLooks, DeleteRefuses, DeleteRemoves, Changing
<1>3. UNCHANGED launch
  BY <1>2 DEF Changing, Changes, OnlyClient
<1>4. OthersGoOn(c) /\ client'[c].op = client[c].op
  <2>1. CASE DeleteRemoves(c)
    <3>1. CASE \E answer : Answers(c, answer)
      BY <3>1, ClientGoes
    <3>2. CASE ~\E answer : Answers(c, answer)
      <4>1. client' = [k \in Clients |->
              IF k = c THEN [client[c] EXCEPT !.at = "done", !.answer = "deleted"]
              ELSE IF client[k].name = client[c].name /\ client[k].at = "write"
                   THEN [client[k] EXCEPT !.at = "write_deleted"] ELSE client[k]]
        BY <2>1, <3>2 DEF DeleteRemoves
      <4>2. QED
        BY <4>1 DEF OthersGoOn, Shape, Fields
    <3>3. QED
      BY <3>1, <3>2
  <2>2. CASE ~DeleteRemoves(c)
    <3>1. \/ \E at : Goes(c, at)
          \/ \E answer : Answers(c, answer)
      BY <2>2 DEF Edits, SaveOpens, SaveWrites, SaveWritesInVain, DeleteLooks, DeleteRefuses
    <3>2. QED
      BY <3>1, ClientGoes
  <2>3. QED
    BY <2>1, <2>2
<1>5. QED
  BY <1>1, <1>2, <1>3, <1>4 DEF StepEffect, OnlyClient, history, Saved, Shape

\* The same of all requests.
LEMMA RequestEffect == ASSUME Shape, NEW c \in Clients, Requests(c) PROVE StepEffect(c)
BY AsksEffect, ListsEffect, GetsEffect, EditsEffect DEF Requests

\* No request touches the seeds.
LEMMA EffectShape ==
  ASSUME Shape, NEW c \in Clients, StepEffect(c)
  PROVE  Shape' /\ \A d \in Dirs \ {"working"} : disk'[d] = disk[d]
<1>1. CASE Saved
  BY <1>1 DEF StepEffect, Saved, OthersGoOn, Shape, launch
<1>2. CASE Changing(c)
  <2>1. PICK n, file, last : Changes(c, n, file, last)
    BY <1>2 DEF Changing
  <2>2. /\ DOMAIN disk' = Dirs /\ \A d \in Dirs : DOMAIN disk'[d] = Names
        /\ \A d \in Dirs \ {"working"} : disk'[d] = disk[d]
        /\ DOMAIN touched' = Clients /\ DOMAIN settled' = Names
    BY <2>1, EditedFiles
  <2>3. QED
    BY <2>2 DEF StepEffect, OthersGoOn, Shape, launch
<1>3. QED
  BY <1>1, <1>2 DEF StepEffect

\* The shape at start-up.
LEMMA InitShape == Init => Shape
<1> SUFFICES ASSUME Init PROVE Shape
  OBVIOUS
<1>1. DOMAIN disk = Dirs /\ \A d \in Dirs : DOMAIN disk[d] = Names
  BY DEF Init, InPlace
<1>2. QED
  BY <1>1, IdleFields DEF Init, Shape

\* The state keeps its shape.
LEMMA ShapeKept == Spec => []Shape
<1>1. Shape /\ [Next]_vars => Shape'
  <2> SUFFICES ASSUME Shape, [Next]_vars PROVE Shape'
    OBVIOUS
  <2>1. CASE UNCHANGED vars
    BY <2>1 DEF vars, launch, history, Shape
  <2>2. QED
    BY <2>1, StoreSteps, LauncherShape, RequestEffect, EffectShape
<1>2. QED
  BY <1>1, InitShape, PTL DEF Spec

-----------------------------------------------------------------------------
(* What users saved.                                                       *)

\* A save or a deletion that was answered undisturbed stays on disk until the
\* profile is changed again, through every seeding, upgrade and stop.
THEOREM WorkKept == Spec => []WorkIsKept
<1>1. Init => WorkIsKept
  <2> SUFFICES ASSUME Init PROVE WorkIsKept
    OBVIOUS
  <2>1. \A n \in Names : disk["working"][n] = Absent /\ settled[n] = Absent
    BY DEF Init, InPlace, Dirs
  <2>2. QED
    BY <2>1 DEF WorkIsKept
<1>2. Shape /\ WorkIsKept /\ [Next]_vars => WorkIsKept'
  <2> SUFFICES ASSUME Shape, WorkIsKept, [Next]_vars PROVE WorkIsKept'
    OBVIOUS
  <2>1. CASE UNCHANGED vars
    BY <2>1 DEF vars, history, WorkIsKept
  <2>2. CASE Launcher
    BY <2>2, LauncherShape DEF WorkIsKept
  <2>3. ASSUME NEW c \in Clients, Requests(c) PROVE WorkIsKept'
    <3>1. CASE Saved
      BY <3>1 DEF Saved, WorkIsKept
    <3>2. ASSUME NEW n, NEW file, NEW last, Changes(c, n, file, last) PROVE WorkIsKept'
      <4>1. settled' = [settled EXCEPT ![n] = IF last /\ n \notin touched[c] THEN file ELSE Unknown]
        BY <3>2 DEF Changes
      <4>2. \A m \in Names : settled'[m] # Unknown =>
              settled'[m] = IF m = n THEN file ELSE settled[m]
        BY <4>1 DEF Shape
      <4>3. \A m \in Names : m # n => settled'[m] = settled[m]
        BY <4>1 DEF Shape
      <4>4. QED
        BY <3>2, <4>2, <4>3, EditedFiles DEF WorkIsKept
    <3>3. QED
      BY <2>3, <3>1, <3>2, RequestEffect DEF StepEffect, Changing
  <2>4. QED
    BY <2>1, <2>2, <2>3, StoreSteps
<1>3. QED
  BY <1>1, <1>2, ShapeKept, PTL DEF Spec

-----------------------------------------------------------------------------
(* What is shipped.                                                        *)

\* In a checkout nothing is installed over the seeds; where they are installed,
\* every shipped file is whole once the seeding has passed it.
Copied ==
  /\ deployment \in {"installed", "checkout"}
  /\ deployment = "checkout" => program # "seeding" /\ version = 1
  /\ program # "down" \/ deployment = "checkout" =>
       \A d \in Dirs \ {"working"}, n \in Names :
         Shipped[version][d][n] # Absent =>
           <<d, n>> \in toCopy \cup copying \/ disk[d][n] = WholeFile(Shipped[version][d][n])

\* The launcher and the installer keep that.
LEMMA LauncherCopied == ASSUME Shape, Copied, Launcher PROVE Copied'
<1>1. CASE Launch
  <2>1. \A d \in Dirs \ {"working"}, n \in Names :
          Shipped[version][d][n] # Absent => <<d, n>> \in ToCopy(version)
    BY DEF ToCopy
  <2>2. QED
    BY <1>1, <2>1 DEF Launch, Copied
<1>2. CASE CopyEnds
  <2>1. PICK f \in copying :
          disk' = [disk EXCEPT ![f[1]][f[2]] = WholeFile(Shipped[version][f[1]][f[2]])]
    BY <1>2 DEF CopyEnds
  <2>2. f[1] \in Dirs /\ f[2] \in Names /\ f = <<f[1], f[2]>> /\ copying = {f} /\ program = "seeding"
    BY <2>1, CopiedIsShipped DEF Shape
  <2>3. \A d \in Dirs, n \in Names :
          disk'[d][n] = IF d = f[1] /\ n = f[2] THEN WholeFile(Shipped[version][d][n]) ELSE disk[d][n]
    BY <2>1, <2>2 DEF Shape
  <2>4. \A d \in Dirs, n \in Names : <<d, n>> = f => d = f[1] /\ n = f[2]
    OBVIOUS
  <2>5. QED
    BY <1>2, <2>2, <2>3, <2>4 DEF CopyEnds, Copied
<1>3. CASE Start
  BY <1>3 DEF Start, Copied, Shape
<1>4. CASE Stop
  BY <1>4 DEF Stop, Copied, Shape
<1>5. CASE Upgrade
  BY <1>5 DEF Upgrade, Copied
<1>6. ASSUME NEW f \in Dirs \X Names, CopyBegins(f) PROVE Copied'
  <2>1. f[1] \in Dirs /\ f[2] \in Names /\ f = <<f[1], f[2]>>
    BY <1>6
  <2>2. \A d \in Dirs, n \in Names : <<d, n>> # f => disk'[d][n] = disk[d][n]
    BY <1>6, <2>1 DEF CopyBegins, Shape
  <2>3. QED
    BY <1>6, <2>2 DEF CopyBegins, Copied
<1>7. QED
  BY <1>1, <1>2, <1>3, <1>4, <1>5, <1>6 DEF Launcher

\* A web server that runs finds the seeds of the installed version, each whole.
THEOREM SeedsShipped == Spec => []SeedsAreShipped
<1>1. Init => Copied
  <2> SUFFICES ASSUME Init PROVE Copied
    OBVIOUS
  <2>1. CASE deployment = "checkout"
    <3>1. disk = InPlace(1)
      BY <2>1 DEF Init
    <3>2. \A d \in Dirs \ {"working"}, n \in Names :
            Shipped[1][d][n] # Absent => disk[d][n] = WholeFile(Shipped[1][d][n])
      BY <3>1 DEF InPlace
    <3>3. QED
      BY <2>1, <3>2 DEF Init, Copied
  <2>2. QED
    BY <2>1 DEF Init, Copied
<1>2. Shape /\ Copied /\ [Next]_vars => Copied'
  <2> SUFFICES ASSUME Shape, Copied, [Next]_vars PROVE Copied'
    OBVIOUS
  <2>1. CASE UNCHANGED vars
    BY <2>1 DEF vars, launch, Copied
  <2>2. ASSUME NEW c \in Clients, Requests(c) PROVE Copied'
    <3>1. UNCHANGED launch /\ \A d \in Dirs \ {"working"} : disk'[d] = disk[d]
      BY <2>2, RequestEffect, EffectShape DEF StepEffect
    <3>2. QED
      BY <3>1 DEF Copied, launch
  <2>3. QED
    BY <2>1, <2>2, LauncherCopied, StoreSteps
<1>3. Shape /\ Copied => SeedsAreShipped
  BY DEF Shape, Copied, SeedsAreShipped
<1>4. QED
  BY <1>1, <1>2, <1>3, ShapeKept, PTL DEF Spec

-----------------------------------------------------------------------------
(* What a client is answered.                                              *)

\* The profiles of the name n that the list gives.
InList(listed, s, n) == \E e \in listed : e.name = n /\ e.source = s

\* The part of the list that is made so far agrees with the files that nobody
\* has changed since.
ListsSoFar(c) ==
  LET listed == client[c].listed IN
  client[c].op = "list" =>
    /\ client[c].at \in {"working", "profiles", "template", "done"}
    /\ client[c].at = "profiles" =>
         \A n \in Names \ touched[c] : \A s : InList(listed, s, n) <=> s = "working" /\ Exists("working", n)
    /\ client[c].at = "template" \/ Answered(c, "list") =>
         \A n \in Names \ (touched[c] \cup {"template"}) : \A s :
           InList(listed, s, n) <=>
             \/ s = "working" /\ Exists("working", n)
             \/ s = "seed" /\ ~Exists("working", n) /\ Exists("profiles", n)

\* A place that was looked at and left has no such file, the place that is to be
\* read has it, unless somebody has changed the profile since.
Expected(n) ==
  IF n # "template" /\ Exists("working", n) THEN Parsed(disk["working"][n])
  ELSE IF n # "template" /\ Exists("profiles", n) THEN Parsed(disk["profiles"][n])
  ELSE IF Exists("template", FileName(n)) THEN Parsed(disk["template"][FileName(n)])
  ELSE "not_found"

LooksSoFar(c) ==
  LET n == client[c].name
      k == client[c].looked
      there(i) == Exists(LookUp(n)[i], FileName(n))
  IN  client[c].op = "get" =>
        /\ client[c].at \in {"look", "read", "done"}
        /\ client[c].at = "look" => k \in 0 .. 2 /\ k < Len(LookUp(n))
        /\ client[c].at = "read" => k \in 1 .. Len(LookUp(n))
        /\ client[c].answer # "bad_name" \/ client[c].at # "done" => n \in Names
        /\ n \notin touched[c] =>
             /\ client[c].at = "look" => \A i \in 1 .. k : ~there(i)
             /\ client[c].at = "read" => there(k) /\ \A i \in 1 .. (k - 1) : ~there(i)
             /\ Answered(c, "get") => client[c].answer = Expected(n)

SoFar == \A c \in Clients : ListsSoFar(c) /\ LooksSoFar(c)

\* Where a name is looked up.
LEMMA Places ==
  ASSUME NEW n
  PROVE  /\ n = "template" => Len(LookUp(n)) = 1 /\ LookUp(n)[1] = "template" /\ FileName(n) = "profile"
         /\ n # "template" => /\ Len(LookUp(n)) = 3 /\ LookUp(n)[1] = "working"
                              /\ LookUp(n)[2] = "profiles" /\ LookUp(n)[3] = "template"
                              /\ FileName(n) = n
BY DEF LookUp, FileName

\* What a request of client c leaves of the files another client looks at.
LEMMA OthersFiles ==
  ASSUME Shape, NEW c \in Clients, StepEffect(c), NEW k \in Clients \ {c}
  PROVE  /\ touched[k] \subseteq touched'[k]
         /\ \A d \in Dirs \ {"working"} : disk'[d] = disk[d]
         /\ \A n \in Names \ touched'[k] : disk'["working"][n] = disk["working"][n]
<1>1. CASE Saved /\ touched'[k] = touched[k]
  BY <1>1 DEF Saved
<1>2. CASE Changing(c)
  <2>1. PICK n, file, last : Changes(c, n, file, last)
    BY <1>2 DEF Changing
  <2>2. disk' = [disk EXCEPT !["working"][n] = file] /\ touched'[k] = touched[k] \cup {n}
    BY <2>1 DEF Changes
  <2>3. QED
    BY <2>2 DEF Shape, Dirs
<1>3. QED
  BY <1>1, <1>2 DEF StepEffect

\* What was found holds as long as the files do.
LEMMA StillSoFar ==
  ASSUME SoFar, NEW k \in Clients, client'[k] = client[k],
         touched[k] \subseteq touched'[k],
         \A d \in Dirs \ {"working"} : disk'[d] = disk[d],
         \A n \in Names \ touched'[k] : disk'["working"][n] = disk["working"][n]
  PROVE  (ListsSoFar(k) /\ LooksSoFar(k))'
<1>1. \A n \in Names \ touched'[k] :
        Exists("working", n)' = Exists("working", n) /\ Exists("profiles", n)' = Exists("profiles", n)
  BY DEF Exists, Dirs
<1>2. ListsSoFar(k)'
  BY <1>1 DEF SoFar, ListsSoFar, Answered
<1>3. ASSUME client[k].name \in Names \ touched'[k]
      PROVE  LET n == client[k].name IN
             /\ Expected(n)' = Expected(n)
             /\ \A i \in 1 .. Len(LookUp(n)) :
                  Exists(LookUp(n)[i], FileName(n))' = Exists(LookUp(n)[i], FileName(n))
  BY <1>1, <1>3, Places DEF Exists, Expected, Dirs
<1>4. LooksSoFar(k)'
  BY <1>3 DEF SoFar, LooksSoFar, Answered
<1>5. QED
  BY <1>2, <1>4

\* The entries a directory adds to a list.
Entries(names, source) == {[name |-> n, source |-> source] : n \in names}

\* The entries are those of the names, once each.
LEMMA EntriesOf ==
  ASSUME NEW names, NEW source, NEW s, NEW n
  PROVE  InList(Entries(names, source), s, n) <=> s = source /\ n \in names
<1>1. ASSUME NEW e \in Entries(names, source) PROVE e.source = source /\ e.name \in names
  BY DEF Entries
<1>2. ASSUME n \in names PROVE \E e \in Entries(names, source) : e.name = n /\ e.source = source
  <2>1. [name |-> n, source |-> source] \in Entries(names, source)
    BY <1>2 DEF Entries
  <2>2. QED
    BY <2>1
<1>3. QED
  BY <1>1, <1>2 DEF InList

\* The three steps of a list.
LEMMA OwnList ==
  ASSUME Shape, SoFar, NEW c \in Clients, Lists(c)
  PROVE  (ListsSoFar(c) /\ LooksSoFar(c))'
<1> DEFINE listed == client[c].listed
<1>1. /\ UNCHANGED <<disk, touched>> /\ client'[c].op = "list" /\ client[c].op = "list"
      /\ DOMAIN client = Clients /\ DOMAIN client[c] = Fields
  BY ListsEffect DEF Lists, ListWorking, ListSeeds, ListTemplate, OnlyClient, history, Shape
<1>2. LooksSoFar(c)'
  BY <1>1 DEF LooksSoFar
<1>3. CASE ListWorking(c)
  <2>1. /\ client'[c].at = "profiles"
        /\ client'[c].listed = {[name |-> n, source |-> "working"] : n \in {m \in Names : Exists("working", m)}}
    BY <1>1, <1>3 DEF ListWorking, Fields
  <2>2. \A n \in Names : \A s : InList(client'[c].listed, s, n) <=> s = "working" /\ Exists("working", n)
    <3>1. client'[c].listed = Entries({m \in Names : Exists("working", m)}, "working")
      BY <2>1 DEF Entries
    <3>2. QED
      BY <3>1, EntriesOf
  <2>3. QED
    BY <1>1, <1>2, <2>1, <2>2 DEF ListsSoFar, Answered, Exists, InList
<1>4. CASE ListSeeds(c)
  <2>1. /\ client'[c].at = "template"
        /\ client'[c].listed = listed \cup {[name |-> n, source |-> "seed"] : n \in NotShadowed(listed)}
        /\ client[c].at = "profiles"
    BY <1>1, <1>4 DEF ListSeeds, Fields, At
  <2>2. \A n \in Names \ touched[c] : \A s : InList(listed, s, n) <=> s = "working" /\ Exists("working", n)
    BY <1>1, <2>1 DEF SoFar, ListsSoFar
  <2>3. \A n \in Names \ touched[c] :
          n \in NotShadowed(listed) <=> Exists("profiles", n) /\ ~Exists("working", n)
    BY <2>2 DEF NotShadowed, Seen, InList
  <2>4. \A n \in Names : \A s : InList(client'[c].listed, s, n) <=>
          InList(listed, s, n) \/ (s = "seed" /\ n \in NotShadowed(listed))
    <3>1. client'[c].listed = listed \cup Entries(NotShadowed(listed), "seed")
      BY <2>1 DEF Entries
    <3>2. \A n, s : InList(client'[c].listed, s, n) <=>
            InList(listed, s, n) \/ InList(Entries(NotShadowed(listed), "seed"), s, n)
      BY <3>1 DEF InList
    <3>3. QED
      BY <3>2, EntriesOf
  <2>5. \A n \in Names \ touched[c] : \A s : InList(client'[c].listed, s, n) <=>
          \/ s = "working" /\ Exists("working", n)
          \/ s = "seed" /\ ~Exists("working", n) /\ Exists("profiles", n)
    BY <2>2, <2>3, <2>4
  <2>6. QED
    BY <1>1, <1>2, <2>1, <2>5 DEF ListsSoFar, Answered, Exists, InList
<1>5. CASE ListTemplate(c)
  <2>1. /\ client'[c].at = "done" /\ client[c].at = "template"
        /\ client'[c].listed = listed \cup (IF Exists("template", "profile")
                                           THEN {[name |-> "template", source |-> "seed"]} ELSE {})
    BY <1>1, <1>5 DEF ListTemplate, Fields, At
  <2>2. \A n \in Names \ {"template"} : \A s : InList(client'[c].listed, s, n) <=> InList(listed, s, n)
    BY <2>1 DEF InList
  <2>3. \A n \in Names \ (touched[c] \cup {"template"}) : \A s : InList(client'[c].listed, s, n) <=>
          \/ s = "working" /\ Exists("working", n)
          \/ s = "seed" /\ ~Exists("working", n) /\ Exists("profiles", n)
    BY <1>1, <2>1, <2>2 DEF SoFar, ListsSoFar
  <2>4. QED
    BY <1>1, <1>2, <2>1, <2>3 DEF ListsSoFar, Answered, Exists, InList
<1>6. QED
  BY <1>3, <1>4, <1>5 DEF Lists

\* The steps of a load.
LEMMA OwnGet ==
  ASSUME Shape, SoFar, NEW c \in Clients, Gets(c)
  PROVE  (ListsSoFar(c) /\ LooksSoFar(c))'
<1> DEFINE n == client[c].name
           k == client[c].looked
<1>0. Len(LookUp(n)) = IF n = "template" THEN 1 ELSE 3
  BY Places
<1>1. /\ UNCHANGED <<disk, touched>> /\ client'[c].op = "get" /\ client[c].op = "get"
      /\ client'[c].name = n /\ DOMAIN client = Clients /\ DOMAIN client[c] = Fields
  BY GetsEffect DEF Gets, GetLooks, GetReads, OnlyClient, history, Shape
<1>2. ListsSoFar(c)'
  BY <1>1 DEF ListsSoFar
<1>3. n \in Names
  BY <1>1 DEF SoFar, LooksSoFar, Gets, GetLooks, GetReads, At
<1>4. \A i, f : Exists(i, f)' = Exists(i, f) /\ Expected(f)' = Expected(f)
  BY <1>1 DEF Exists, Expected
<1>5. CASE GetLooks(c)
  <2>1. k \in 0 .. 2 /\ k < Len(LookUp(n)) /\ (n \notin touched[c] => \A i \in 1 .. k : ~Exists(LookUp(n)[i], FileName(n)))
    BY <1>1, <1>5 DEF GetLooks, At, SoFar, LooksSoFar
  <2>2. CASE Exists(LookUp(n)[k + 1], FileName(n))
    <3>1. client'[c].at = "read" /\ client'[c].looked = k + 1
      BY <1>1, <1>5, <2>2 DEF GetLooks, Fields
    <3>2. QED
      BY <1>1, <1>2, <1>3, <1>4, <2>1, <2>2, <3>1, Places DEF LooksSoFar, Answered
  <2>3. CASE ~Exists(LookUp(n)[k + 1], FileName(n)) /\ k + 1 < Len(LookUp(n))
    <3>1. client'[c].at = "look" /\ client'[c].looked = k + 1
      BY <1>1, <1>5, <2>3 DEF GetLooks, Fields, At
    <3>2. k + 1 \in 0 .. 2
      BY <1>0, <2>1, <2>3
    <3>3. QED
      BY <1>1, <1>2, <1>3, <1>4, <2>1, <2>3, <3>1, <3>2 DEF LooksSoFar, Answered
  <2>4. CASE ~Exists(LookUp(n)[k + 1], FileName(n)) /\ ~(k + 1 < Len(LookUp(n)))
    <3>1. client'[c].at = "done" /\ client'[c].answer = "not_found"
      BY <1>1, <1>5, <2>4 DEF GetLooks, Answers, Fields
    <3>2. k + 1 = Len(LookUp(n))
      BY <2>1, <2>4, Places
    <3>3. n \notin touched[c] => \A i \in 1 .. Len(LookUp(n)) : ~Exists(LookUp(n)[i], FileName(n))
      BY <2>1, <2>4, <3>2
    <3>4. n \notin touched[c] => Expected(n) = "not_found"
      BY <3>3, Places DEF Expected
    <3>5. QED
      BY <1>1, <1>2, <1>3, <1>4, <3>1, <3>4 DEF LooksSoFar, Answered
  <2>5. QED
    BY <2>2, <2>3, <2>4
<1>6. CASE GetReads(c)
  <2>1. client'[c].at = "done" /\ client'[c].answer = Parsed(disk[LookUp(n)[k]][FileName(n)])
    BY <1>1, <1>6 DEF GetReads, Answers, Fields
  <2>2. /\ k \in 1 .. Len(LookUp(n))
        /\ n \notin touched[c] => /\ Exists(LookUp(n)[k], FileName(n))
                                  /\ \A i \in 1 .. (k - 1) : ~Exists(LookUp(n)[i], FileName(n))
    BY <1>1, <1>6 DEF GetReads, At, SoFar, LooksSoFar
  <2>3. n \notin touched[c] => client'[c].answer = Expected(n)
    <3>1. SUFFICES ASSUME n \notin touched[c] PROVE client'[c].answer = Expected(n)
      OBVIOUS
    <3>2. CASE n = "template"
      <4>1. k = 1
        BY <1>0, <2>2, <3>2
      <4>2. QED
        BY <2>1, <2>2, <3>1, <3>2, <4>1, Places DEF Expected
    <3>3. CASE n # "template"
      <4>1. k \in {1, 2, 3}
        BY <1>0, <2>2, <3>3
      <4>2. \A i \in 1 .. (k - 1) : ~Exists(LookUp(n)[i], n)
        BY <2>2, <3>1, <3>3, Places
      <4>3. Exists(LookUp(n)[k], n) /\ client'[c].answer = Parsed(disk[LookUp(n)[k]][n])
        BY <2>1, <2>2, <3>1, <3>3, Places
      <4>4. QED
        BY <3>3, <4>1, <4>2, <4>3, Places DEF Expected
    <3>4. QED
      BY <3>2, <3>3
  <2>4. QED
    BY <1>1, <1>2, <1>3, <1>4, <2>1, <2>3 DEF LooksSoFar, Answered
<1>7. QED
  BY <1>5, <1>6 DEF Gets

\* A request that begins has seen nothing.
LEMMA OwnAsk ==
  ASSUME Shape, NEW c \in Clients, Asks(c)
  PROVE  (ListsSoFar(c) /\ LooksSoFar(c))'
<1>1. ASSUME Ask(c, "list", Nothing, Nothing, "working") PROVE (ListsSoFar(c) /\ LooksSoFar(c))'
  BY <1>1, AskEffect DEF ListsSoFar, LooksSoFar, Answered
<1>2. ASSUME NEW n \in Names \cup BadNames, Ask(c, "get", n, Nothing, "look")
      PROVE  (ListsSoFar(c) /\ LooksSoFar(c))'
  <2>1. /\ client'[c].op = "get" /\ client'[c].name = n /\ client'[c].looked = 0
        /\ IF n \in BadNames THEN client'[c].at = "done" /\ client'[c].answer = "bad_name"
           ELSE client'[c].at = "look"
    BY <1>2, AskEffect
  <2>2. 0 \in 0 .. 2 /\ 0 < Len(LookUp(n)) /\ 1 .. 0 = {}
    BY Places
  <2>3. QED
    BY <2>1, <2>2 DEF ListsSoFar, LooksSoFar, Answered
<1>3. ASSUME NEW n, NEW x, Ask(c, "save", n, x, "open") \/ Ask(c, "delete", n, x, "look")
      PROVE  (ListsSoFar(c) /\ LooksSoFar(c))'
  <2>1. client'[c].op \in {"save", "delete"}
    BY <1>3, AskEffect
  <2>2. QED
    BY <2>1 DEF ListsSoFar, LooksSoFar
<1>4. QED
  BY <1>1, <1>2, <1>3 DEF Asks

\* Nobody else's request takes away what a client has found.
LEMMA SoFarKept == Spec => []SoFar
<1>1. Init => SoFar
  BY IdleFields DEF Init, SoFar, ListsSoFar, LooksSoFar
<1>2. Shape /\ Shape' /\ SoFar /\ [Next]_vars => SoFar'
  <2> SUFFICES ASSUME Shape, Shape', SoFar, [Next]_vars PROVE SoFar'
    OBVIOUS
  <2>1. CASE UNCHANGED vars
    BY <2>1, StillSoFar DEF vars, history, SoFar
  <2>2. CASE Launcher
    <3>1. program' # "up" \/ (client' = client /\ disk' = disk /\ touched' = touched)
      BY <2>2 DEF Launcher, Launch, CopyBegins, CopyEnds, Start, Stop, Upgrade, Shape, history
    <3>2. CASE program' # "up"
      <4>1. client' = [c \in Clients |-> Idle]
        BY <3>2 DEF Shape
      <4>2. \A c \in Clients : client'[c].op = "none"
        BY <4>1, IdleFields
      <4>3. QED
        BY <4>2 DEF SoFar, ListsSoFar, LooksSoFar
    <3>3. CASE client' = client /\ disk' = disk /\ touched' = touched
      BY <3>3, StillSoFar DEF SoFar
    <3>4. QED
      BY <3>1, <3>2, <3>3
  <2>3. ASSUME NEW c \in Clients, Requests(c) PROVE SoFar'
    <3>1. ASSUME NEW k \in Clients \ {c} PROVE (ListsSoFar(k) /\ LooksSoFar(k))'
      <4>1. client'[k].op = client[k].op /\ (client[k].at # "write" => client'[k] = client[k])
        BY <2>3, RequestEffect DEF StepEffect, OthersGoOn
      <4>2. CASE client[k].op \in {"list", "get"}
        <5>1. client'[k] = client[k]
          BY <4>1, <4>2 DEF SoFar, ListsSoFar, LooksSoFar
        <5>2. QED
          BY <2>3, <5>1, RequestEffect, OthersFiles, StillSoFar
      <4>3. CASE client[k].op \notin {"list", "get"}
        BY <4>1, <4>3 DEF ListsSoFar, LooksSoFar
      <4>4. QED
        BY <4>2, <4>3
    <3>2. (ListsSoFar(c) /\ LooksSoFar(c))'
      <4>1. CASE Edits(c)
        <5>1. client'[c].op \in {"save", "delete"}
          BY <4>1, EditsEffect
        <5>2. QED
          BY <5>1 DEF ListsSoFar, LooksSoFar
      <4>2. QED
        BY <2>3, <4>1, OwnAsk, OwnList, OwnGet DEF Requests
    <3>3. QED
      BY <3>1, <3>2 DEF SoFar
  <2>4. QED
    BY <2>1, <2>2, <2>3, StoreSteps
<1>3. QED
  BY <1>1, <1>2, ShapeKept, PTL DEF Spec

\* A load that nobody's change of the profile runs into gives the user's copy, or
\* else the seed, or else the bundled template, or nothing, as they are on disk.
THEOREM LoadsCurrent == Spec => []LoadsAreCurrent
<1>1. SoFar => LoadsAreCurrent
  BY DEF SoFar, LooksSoFar, Expected, Answered, LoadsAreCurrent
<1>2. QED
  BY <1>1, SoFarKept, PTL

\* A list has every profile that was there all the time, once, and says whether a
\* load of it finds the user's copy or the seed.
THEOREM ListsCurrent == Spec => []ListsMatchLoads
<1>1. SoFar => ListsMatchLoads
  <2> SUFFICES ASSUME SoFar, NEW c \in Clients, Answered(c, "list"),
                      NEW n \in Names \ (touched[c] \cup {"template"})
               PROVE  {e.source : e \in {e \in client[c].listed : e.name = n}} =
                        IF Exists("working", n) THEN {"working"}
                        ELSE IF Exists("profiles", n) THEN {"seed"} ELSE {}
    BY DEF ListsMatchLoads
  <2>1. \A s : InList(client[c].listed, s, n) <=>
          \/ s = "working" /\ Exists("working", n)
          \/ s = "seed" /\ ~Exists("working", n) /\ Exists("profiles", n)
    BY DEF SoFar, ListsSoFar, Answered
  <2>2. \A s : s \in {e.source : e \in {e \in client[c].listed : e.name = n}} <=> InList(client[c].listed, s, n)
    BY DEF InList
  <2>3. QED
    BY <2>1, <2>2
<1>2. QED
  BY <1>1, SoFarKept, PTL

=============================================================================
