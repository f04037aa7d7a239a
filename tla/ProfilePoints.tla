---------------------------- MODULE ProfilePoints ----------------------------
(***************************************************************************)
(* The points of a PICS profile: the arithmetic between an engineering     *)
(* value and the 32-bit integer that is transmitted, and the rules one     *)
(* point keeps (common/src/profile: values.rs, ai/ai_point.rs,             *)
(* ao/ao_point.rs, validation.rs).                                         *)
(*                                                                         *)
(* Engineering values, offsets and multipliers are counted in hundredths,  *)
(* so a multiplier of 100 is 1.0 and one of 10 is 0.1.  The width of the   *)
(* transmitted integer is a constant: MinI32 .. MaxI32.  Of a point the    *)
(* model keeps its index, limits, scaling, default value and association.  *)
(***************************************************************************)
EXTENDS Integers, Sequences, FiniteSets

CONSTANTS
  MinI32, MaxI32,   \* the range of a transmitted value
  None,             \* no associated point
  Refused           \* an operation that returned Err

ASSUME WidthAssumption == MinI32 \in Int /\ MaxI32 \in Int /\ MinI32 < 0 /\ MaxI32 > 0

I32 == MinI32..MaxI32
Association == Int \cup {None}
AoPoints == [index : Int, min : I32, max : I32, mult : Int, off : Int, ai : Association]
AiPoints == [index : Int, min : I32, max : I32, mult : Int, off : Int, value : Int, ao : Association]

ASSUME RefusedAssumption == Refused \notin I32 \cup AoPoints \cup AiPoints

Unit == 100   \* 1.0

-----------------------------------------------------------------------------
(* Values *)

\* f64::round of n / m: the nearest integer, halves away from zero.
RoundDiv(n, m) ==
  LET num == IF m < 0 THEN -n ELSE n
      den == IF m < 0 THEN -m ELSE m
      up(x) == (x \div den) + (IF 2 * (x % den) >= den THEN 1 ELSE 0)
  IN  IF num >= 0 THEN up(num) ELSE -up(-num)

\* n / m < k and n / m > k without the division
QuotientBelow(n, m, k) == IF m > 0 THEN n < k * m ELSE n > k * m
QuotientAbove(n, m, k) == IF m > 0 THEN n > k * m ELSE n < k * m

FromTransmitted(raw, mult, off) == raw * mult + off

\* The range is tested on the exact quotient, the rounding comes after it.
OutOfI32(v, mult, off) ==
  QuotientBelow(v - off, mult, MinI32) \/ QuotientAbove(v - off, mult, MaxI32)

TryFromEngineering(v, mult, off) ==
  IF mult = 0 \/ OutOfI32(v, mult, off) THEN Refused ELSE RoundDiv(v - off, mult)

Whole(v) == v % Unit = 0
\* `as i64`, `as usize`: towards zero
Truncated(v) == IF v >= 0 THEN v \div Unit ELSE -((-v) \div Unit)
WholeInRange(v, low, high) == Whole(v) /\ Truncated(v) \in low..high

-----------------------------------------------------------------------------
(* Analog inputs: [index, min, max, mult, off, value, ao] *)

EngMin(p) == FromTransmitted(p.min, p.mult, p.off)
EngMax(p) == FromTransmitted(p.max, p.mult, p.off)

AiValid(p) ==
  /\ p.min <= p.max
  /\ p.mult # 0
  /\ EngMin(p) <= p.value /\ p.value <= EngMax(p)

\* new, set_value and set_eng_bounds build the point, validate it, and keep
\* the old one when it is refused.
Validly(p) == IF AiValid(p) THEN p ELSE Refused

AiNew(p) == Validly(p)
SetValue(p, v) == Validly([p EXCEPT !.value = v])

\* Both limits move before the value does: a value at an old limit that the
\* new limits exclude makes the move itself fail.
SetEngBounds(p, low, high) ==
  LET a == TryFromEngineering(low, p.mult, p.off)
      b == TryFromEngineering(high, p.mult, p.off)
  IN  IF Refused \in {a, b} THEN Refused ELSE Validly([p EXCEPT !.min = a, !.max = b])

-----------------------------------------------------------------------------
(* Analog outputs: [index, min, max, mult, off, ai] *)

AoValid(p) == p.min <= p.max /\ p.mult # 0
AoNew(p) == IF AoValid(p) THEN p ELSE Refused
SetTransmissionBounds(p, low, high) == AoNew([p EXCEPT !.min = low, !.max = high])

-----------------------------------------------------------------------------
(* Groups of points *)

Indices(ps) == {ps[k].index : k \in DOMAIN ps}
NoDuplicates(ps) == Cardinality(Indices(ps)) = Len(ps)
LowHigh(low, high) == low.value <= high.value
=============================================================================
