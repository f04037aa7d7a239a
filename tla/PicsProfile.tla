----------------------------- MODULE PicsProfile -----------------------------
(***************************************************************************)
(* The PICS profile every part of the tool hands to the next one, its      *)
(* validation and its index (common/src/profile: pics_profile.rs,          *)
(* key_sheet.rs, profile_index.rs, databases_config.rs and the directories *)
(* ai, ao, bi and curves).                                                 *)
(*                                                                         *)
(* A profile is [key, bo, bi, ao, ai].  key gives the AI index at which a  *)
(* section of the Key sheet starts.  bi, ao and ai map a kind of record    *)
(* ("base", "meter", ..., "schedule") to its records, and a record is the  *)
(* sequence of its points in iter_points order: header first, then one     *)
(* column after the other, all of one length (the loader and the editor    *)
(* make only complete slots).  Counter points are left out: nothing but    *)
(* the generator of the Unsupported scenario reads them.                   *)
(***************************************************************************)
EXTENDS ProfilePoints, SequencesExt

CONSTANT DefaultCurve   \* the first curve of the bundled full profile

CurveSelector == 328
ScheduleSelector == 3000
ScheduleBcSelector == 2001   \* Scheduling_FSCC_Schd and BC_Scheduling_BC_FSCC_Schd
MaxEntries == 100

BiKinds == <<"base", "meter", "der", "inverter", "battery">>
AoKinds == <<"base", "meter", "inverter", "battery">>
BaseAiKinds == <<"base", "meter", "der", "inverter", "battery">>
AiKinds == <<"base", "meter", "der", "inverter", "battery", "curve", "schedule_bc", "schedule">>

\* The elements that pass a test, in their order.
Where(s, Test(_)) == FlattenSeq([k \in DOMAIN s |-> IF Test(s[k]) THEN <<s[k]>> ELSE <<>>])

Flat(records, kinds) == FlattenSeq([k \in DOMAIN kinds |-> FlattenSeq(records[kinds[k]])])
AllBi(p) == Flat(p.bi, BiKinds)
AllAo(p) == Flat(p.ao, AoKinds)
BaseAi(p) == Flat(p.ai, BaseAiKinds)   \* base_ai_points
AllAi(p) == Flat(p.ai, AiKinds)        \* all_ai_points_full

\* What a profile is made of: the points that are no part of a record are the
\* one record of the kind "base".
Records(kinds, points) ==
  {records \in [ToSet(kinds) -> Seq(Seq(points))] : Len(records["base"]) = 1}
Keys ==
  [curves : Int, system_meter : Int, experimental : Int, schedules_bc : Int, schedules_bc_status : Int,
   schedules : Int, schedules_status : Int, meter : Int, der : Int, inverter : Int, battery : Int]
Profiles ==
  [key : Keys,
   bo : Seq([index : Int, bi : Association]),
   bi : Records(BiKinds, [index : Int, bo : Association]),
   ao : Records(AoKinds, AoPoints),
   ai : Records(AiKinds, AiPoints)]

\* Column c of a record with a header of h points and n columns.
Slots(r, h, n) == (Len(r) - h) \div n
Column(r, h, n, c) == SubSeq(r, h + (c - 1) * Slots(r, h, n) + 1, h + c * Slots(r, h, n))

-----------------------------------------------------------------------------
(* Curves: type, number of points, x units, y units, then x and y values *)

Xs(c) == Column(c, 4, 2, 1)
Ys(c) == Column(c, 4, 2, 2)

\* The codes of the three enumerations, their compatibility and, per unit,
\* the limits and multiplier its values must have.  Unit 233 has
\* the multiplier 0.0001, less than the hundredths multipliers are counted in: it
\* has the limits -7.0 and 7.0 of the code in steps of 0.01.  No type of curve is
\* compatible with it.
XUnits == {0, 1, 4, 23, 29, 33, 38, 100, 129, 133, 138, 233}
YUnits == 0..9 \cup {29, 33, 38}
CurveTypes == 0..16

XUnitOf(type) ==
  CASE type \in {0, 1} -> 0
    [] type = 2 -> 29
    [] type = 3 -> 33
    [] type = 4 -> 38
    [] type = 5 -> 129
    [] type = 7 -> 23
    [] type = 8 -> 100
    [] OTHER -> 4

YUnitsOf(type) ==
  CASE type \in {0, 1, 2, 5} -> {type}
    [] type = 3 -> {6}
    [] type = 4 -> {2, 3, 4}
    [] type \in {7, 8} -> YUnits
    [] type \in 13..16 -> {9}
    [] OTHER -> {8}

XScaling(unit) ==
  CASE unit \in {4, 29, 38} -> <<0, MaxI32, 100>>
    [] unit = 23 -> <<-5000, 5000, 10>>
    [] unit = 33 -> <<0, 7000, 1>>
    [] unit = 100 -> <<MinI32, MaxI32, 10>>
    [] unit \in {129, 133} -> <<0, 10000, 10>>
    [] unit = 138 -> <<0, 1000, 10>>
    [] unit = 233 -> <<-700, 700, 1>>
    [] OTHER -> None

YScaling(unit) ==
  CASE unit \in 2..4 -> <<-1000, 1000, 10>>
    [] unit \in {5, 33} -> <<0, 7000, 1>>
    [] unit = 6 -> <<0, 1000, 100>>
    [] unit = 7 -> <<-100, 100, 1>>
    [] unit \in {8, 9} -> <<0, 10000, 10>>
    [] unit \in {29, 38} -> <<0, MaxI32, 100>>
    [] OTHER -> None

\* These limits are 32-bit values.
ASSUME ScalingAssumption == MinI32 <= -5000 /\ MaxI32 >= 10000

\* A value that is no code of the enumeration counts as `none`.
Code(v, codes, none) == IF Whole(v) /\ Truncated(v) \in codes THEN Truncated(v) ELSE none

ScalingOf(p) == <<p.min, p.max, p.mult>>
ScaledAs(ps, scaling) == scaling = None \/ \A k \in DOMAIN ps : ScalingOf(ps[k]) = scaling
OneScaling(ps) ==
  \A k \in DOMAIN ps : ScalingOf(ps[k]) = ScalingOf(ps[1]) /\ ps[k].off = ps[1].off

CurveValid(c) ==
  LET type == Code(c[1].value, CurveTypes, 1)
      x == Code(c[3].value, XUnits, 0)
      y == Code(c[4].value, YUnits, 0)
  IN  /\ NoDuplicates(c)
      /\ WholeInRange(c[1].value, 0, 16)
      /\ WholeInRange(c[2].value, 0, 100)
      /\ x = XUnitOf(type) /\ y \in YUnitsOf(type)
      /\ ScaledAs(Xs(c), XScaling(x)) /\ ScaledAs(Ys(c), YScaling(y))
      /\ OneScaling(Xs(c)) /\ OneScaling(Ys(c))

-----------------------------------------------------------------------------
(* Schedules: identity, priority, start date and time, stop date and time, *)
(* repeat interval and units, validation, status, number of points; then   *)
(* offsets, action types, action indexes, values.  Dates are in days,      *)
(* times in ms, offsets in s; durations are compared in units of 10 ms.    *)

Offsets(s) == Column(s, 11, 4, 1)
ActionTypes(s) == Column(s, 11, 4, 2)
ActionIndexes(s) == Column(s, 11, 4, 3)
StepValues(s) == Column(s, 11, 4, 4)

DayMs == 86400000
Capped(days) == IF days > 200 THEN 200 ELSE IF days < -200 THEN -200 ELSE days
Duration(s) ==
  Capped(Truncated(s[5].value) - Truncated(s[3].value)) * (DayMs \div 10)
    + (Truncated(s[6].value) - Truncated(s[4].value)) \div 10

ScheduleValid(s) ==
  LET off == [k \in DOMAIN Offsets(s) |-> Offsets(s)[k].value]
  IN  /\ NoDuplicates(s)
      /\ Len(off) = Truncated(s[11].value) /\ Len(off) <= MaxEntries
      /\ Duration(s) >= 0
      /\ \A k \in DOMAIN off : 0 <= off[k] /\ off[k] <= Duration(s) /\ (k > 1 => off[k - 1] <= off[k])
      /\ \A k \in DOMAIN ActionTypes(s) : ActionTypes(s)[k].value \in 0..(3 * Unit)
      /\ Truncated(s[4].value) <= DayMs

-----------------------------------------------------------------------------
(* Meters: four enumerations, measurements, then pairs (high, low) *)

MeterValid(m) ==
  /\ NoDuplicates(m)
  /\ WholeInRange(m[1].value, 0, 9) \/ m[1].value = 99 * Unit
  /\ WholeInRange(m[2].value, 0, 3)
  /\ WholeInRange(m[3].value, 0, 8)
  /\ WholeInRange(m[4].value, 0, 2)
  /\ \A high \in {26, 28, 30, 32, 34, 36} : LowHigh(m[high + 1], m[high])

-----------------------------------------------------------------------------
(* The profile *)

\* Where the Key sheet puts the points that are no part of a record.
IsBaseAi(key, i) ==
  \/ i < key.curves
  \/ key.system_meter <= i /\ i < key.schedules_bc
  \/ key.schedules_bc_status <= i /\ i < key.schedules
  \/ key.schedules_status <= i /\ i < key.meter
  \/ i >= key.experimental
  \/ i \in {key.curves, key.schedules_bc, key.schedules_bc + 1, key.schedules}

\* The selector may name one entry more than there are.
SelectorValid(p, selector, kind) ==
  LET all == AllAi(p)
      k == SelectInSeq(all, LAMBDA a : a.index = selector)
      n == Len(p.ai[kind]) + 1
  IN  k = 0 \/ Truncated(all[k].value) <= IF n > MaxEntries THEN MaxEntries ELSE n

ProfileValid(p) ==
  /\ \A k \in DOMAIN p.ai["curve"] : CurveValid(p.ai["curve"][k])
  /\ SelectorValid(p, ScheduleSelector, "schedule")
  /\ SelectorValid(p, ScheduleBcSelector, "schedule_bc")
  /\ \A k \in DOMAIN p.ai["schedule"] : ScheduleValid(p.ai["schedule"][k])
  /\ \A k \in DOMAIN p.ai["meter"] : MeterValid(p.ai["meter"][k])
  /\ \A a \in ToSet(AllAi(p)) : AiValid(a)
  /\ \A r \in DOMAIN p.ai["base"] : \A i \in Indices(p.ai["base"][r]) : IsBaseAi(p.key, i)
  /\ \A o \in ToSet(AllAo(p)) : AoValid(o)

Validated(p) == IF ProfileValid(p) THEN p ELSE Refused

-----------------------------------------------------------------------------
(* Operations *)

HasIndex(r, i) == i \in Indices(r)

\* The first point with that index, in all_ai_points_full order.
FindAi(ai, i) ==
  LET kind == AiKinds[SelectInSeq(AiKinds, LAMBDA kd : \E r \in DOMAIN ai[kd] : HasIndex(ai[kd][r], i))]
      rec == SelectInSeq(ai[kind], LAMBDA r : HasIndex(r, i))
  IN  <<kind, rec, SelectInSeq(ai[kind][rec], LAMBDA a : a.index = i)>>

\* A profile that a change makes invalid is restored.
MutKeptInvalid(p, new, after) == IF new # Refused THEN after ELSE p
Kept(p, new, after) == IF new # Refused /\ ProfileValid(after) THEN after ELSE p

AiPoint(p, i) == LET at == FindAi(p.ai, i) IN p.ai[at[1]][at[2]][at[3]]

\* The point becomes what its update made of it, or all stays as it was.
SetAiPoint(p, i, new) ==
  LET at == FindAi(p.ai, i) IN Kept(p, new, [p EXCEPT !.ai[at[1]][at[2]][at[3]] = new])

AddDefaultCurves(p, count) ==
  LET all == AllAi(p)
      k == SelectInSeq(all, LAMBDA a : a.index = CurveSelector)
      declared == IF k = 0 THEN MaxEntries ELSE all[k].max
      limit == IF declared < MaxEntries THEN declared ELSE MaxEntries
  IN  IF count = 0 \/ Len(p.ai["curve"]) + count > limit THEN Refused
      ELSE Validated([p EXCEPT !.ai["curve"] = @ \o [k2 \in 1..count |-> DefaultCurve]])

\* DatabasesConfig::from_profile: the entries a station makes room for.
Capacity(p, kind) == LET n == Len(p.ai[kind]) IN IF n < MaxEntries THEN n ELSE MaxEntries

-----------------------------------------------------------------------------
(* ProfileIndex: which output goes with which input *)

LastWith(ps, Test(_)) == ps[SelectLastInSeq(ps, Test)]
\* By index, the last point of a kind wins.
ByIndex(ps) == [i \in Indices(ps) |-> LastWith(ps, LAMBDA a : a.index = i)]

Put(m, k, v) == [i \in DOMAIN m \cup {k} |-> IF i = k THEN v ELSE m[i]]
Link(pairs, ao, ai) ==
  [toAi |-> Put(pairs.toAi, ao, ai), toAo |-> Put(pairs.toAo, ai, ao)]

\* The AO's own association, then the AI's where it disturbs no pair.
AnalogPairs(p) ==
  LET outputs == AllAo(p)
      own == {o \in ToSet(outputs) : o.ai # None}
      indexes(os) == {o.index : o \in os}
      explicit == [toAi |-> [o \in indexes(own) |-> LastWith(outputs, LAMBDA x : x.ai # None /\ x.index = o).ai],
                   toAo |-> [i \in {o.ai : o \in own} |-> LastWith(outputs, LAMBDA x : x.ai = i).index]]
      silent == indexes(ToSet(outputs)) \ indexes(own)
      claimed(r) == Where(r, LAMBDA a : a.ao \in silent /\ a.index \notin DOMAIN explicit.toAo)
      claims == Flat([kind \in DOMAIN p.ai |-> [r \in DOMAIN p.ai[kind] |-> claimed(p.ai[kind][r])]], AiKinds)
      recover(m, a) ==
        IF a.index \in DOMAIN m.toAo \/ a.ao \in DOMAIN m.toAi THEN m ELSE Link(m, a.ao, a.index)
  IN  FoldLeft(recover, explicit, claims)

BinaryPairs(p) ==
  LET own == {o \in ToSet(p.bo) : o.bi # None}
  IN  [toBi |-> [o \in {x.index : x \in own} |-> LastWith(p.bo, LAMBDA x : x.bi # None /\ x.index = o).bi],
       toBo |-> [i \in {x.bi : x \in own} |-> LastWith(p.bo, LAMBDA x : x.bi = i).index]]
=============================================================================
