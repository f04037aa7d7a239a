------------------------------ MODULE PicsLoader ------------------------------
(***************************************************************************)
(* How a PICS workbook becomes a profile                                   *)
(* (pics_validator/src/loader.rs): the rows are read flat, sorted into     *)
(* records by the starts the Key sheet gives, scaled, and for the four     *)
(* bundled profiles the ride-through curves and schedules are made from    *)
(* the first curve and schedules of the workbook.                          *)
(*                                                                         *)
(* A workbook is [name, structure, header, key, bo, bi, ao, ai]: name is   *)
(* the file's stem (None for an upload), structure what                    *)
(* validate_workbook_structure finds, header whether the Key sheet has its *)
(* "Start Index" column, key the start cells, and the rest sequences of    *)
(* rows.  A cell is Blank when it is empty, not a number or out of range.  *)
(* A row's text says whether its required words are there and class        *)
(* whether its event class reads; index is None in a label row.            *)
(*                                                                         *)
(* The counter sheet is left out: nothing downstream reads its points.     *)
(*                                                                         *)
(* Load(wb) is a profile, Refused (Err) or Panic (the thread unwinds).     *)
(* Some failures return at once and others are collected to the end; both  *)
(* are Refused, but only the first kind keeps a later panic from           *)
(* happening, so the collected ones are carried along as err.              *)
(***************************************************************************)
EXTENDS PicsProfile

CONSTANTS Blank, Panic

RideThroughNames == {"full", "mandatory_1815", "mandatory_1547", "minimal_1547"}
MaxIndex == 65535

-----------------------------------------------------------------------------
(* Cells and rows *)

Cell(v, default) == IF v = Blank THEN default ELSE v

DefaultKey ==
  [curves |-> 0, system_meter |-> 0, experimental |-> 30000,
   schedules_bc |-> 2000, schedules_bc_status |-> 2300,
   schedules |-> 3000, schedules_status |-> 3500,
   meter |-> 5000, der |-> 10000, inverter |-> 15000, battery |-> 20000]
\* One start for each section: the sheets of equipment, schedules and experimental
\* points share a cell, and of curves and system meter, which have one for each
\* sheet, only that of the analog inputs is used.
KeySheet(wb) == [s \in DOMAIN DefaultKey |-> Cell(wb.key[s], DefaultKey[s])]

\* What is found in the cells that are read: a number, or Blank for what is none
\* (of a limit also: a number that does not fit).  A label row ends at its label:
\* nothing else of it is looked at.
Cells == Int \cup {Blank}
FitsI32(cells) == cells \ {Blank} \subseteq I32
BinaryOutputRows == [index : Int, text : BOOLEAN, bi : Association]
BinaryInputRows == [index : Int, text : BOOLEAN, class : BOOLEAN, bo : Association]
AnalogOutputRows ==
  {r \in [index : Int, text : BOOLEAN, class : BOOLEAN, min : Cells, max : Cells, mult : Cells, off : Cells,
          ai : Association] : FitsI32({r.min, r.max})}
AnalogInputRows ==
  {r \in [index : Int, text : BOOLEAN, class : BOOLEAN, min : Cells, max : Cells, mult : Cells, off : Cells,
          value : Cells, ao : Association] : FitsI32({r.min, r.max})}

IsSheet(rows, R) == rows \in Seq(ToSet(rows)) /\ \A r \in ToSet(rows) : r.index = None \/ r \in R
IsWorkbook(wb) ==
  /\ \A s \in DOMAIN DefaultKey : wb.key[s] \in Cells
  /\ IsSheet(wb.bo, BinaryOutputRows) /\ IsSheet(wb.bi, BinaryInputRows)
  /\ IsSheet(wb.ao, AnalogOutputRows) /\ IsSheet(wb.ai, AnalogInputRows)

\* Labels and the index 65535 are passed over.
DataRows(rows) == Where(rows, LAMBDA r : r.index \notin {None, MaxIndex})

\* An event class or a number that cannot be read is recorded, not fatal.
AnalogErrors(r) == ~r.class \/ Blank \in {r.min, r.max, r.mult, r.off} \/ r.mult = 0

ReadMultiplier(r) == LET m == Cell(r.mult, 0) IN IF m = 0 THEN Unit ELSE m

ReadAo(r) ==
  AoNew([index |-> r.index, min |-> Cell(r.min, MinI32), max |-> Cell(r.max, MaxI32),
         mult |-> ReadMultiplier(r), off |-> Cell(r.off, 0), ai |-> r.ai])
ReadAi(r) ==
  AiNew([index |-> r.index, min |-> Cell(r.min, MinI32), max |-> Cell(r.max, MaxI32),
         mult |-> ReadMultiplier(r), off |-> Cell(r.off, 0), value |-> Cell(r.value, 0), ao |-> r.ao])

\* A sheet: its points and whether an error was recorded, or Refused.
Sheet(data, points, wrong) ==
  IF \E k \in DOMAIN data : data[k].index > MaxIndex \/ ~data[k].text \/ points[k] = Refused
  THEN Refused
  ELSE [points |-> points, err |-> wrong # {}]

BoSheet(rows) ==
  LET data == DataRows(rows)
  IN  Sheet(data, [k \in DOMAIN data |-> [index |-> data[k].index, bi |-> data[k].bi]], {})
BiSheet(rows) ==
  LET data == DataRows(rows)
  IN  Sheet(data, [k \in DOMAIN data |-> [index |-> data[k].index, bo |-> data[k].bo]],
            {k \in DOMAIN data : ~data[k].class})
AoSheet(rows) ==
  LET data == DataRows(rows)
  IN  Sheet(data, [k \in DOMAIN data |-> ReadAo(data[k])], {k \in DOMAIN data : AnalogErrors(data[k])})
AiSheet(rows) ==
  LET data == DataRows(rows)
  IN  Sheet(data, [k \in DOMAIN data |-> ReadAi(data[k])],
            {k \in DOMAIN data : AnalogErrors(data[k]) \/ data[k].value = Blank})

-----------------------------------------------------------------------------
(* Scaling *)

\* .expect: a kept value outside the new limits unwinds.
WithScaling(p, scaling, off) ==
  LET q == AiNew([p EXCEPT !.min = scaling[1], !.max = scaling[2], !.mult = scaling[3], !.off = off])
  IN  IF q = Refused THEN Panic ELSE q

Rescaled(ps, scaling) ==
  IF scaling = None THEN ps ELSE [k \in DOMAIN ps |-> WithScaling(ps[k], scaling, 0)]

\* apply_curve_point_scaling
CurveScaled(c) ==
  SubSeq(c, 1, 4) \o Rescaled(Xs(c), XScaling(Code(c[3].value, XUnits, 0)))
                  \o Rescaled(Ys(c), YScaling(Code(c[4].value, YUnits, 0)))

\* An output of a curve's point takes the scaling of the point.
MutOutputsNotScaled(outputs, toAo, c) == outputs
OutputsScaled(outputs, toAo, c) ==
  LET points == Xs(c) \o Ys(c)
      of(o) == SelectLastInSeq(points, LAMBDA a : a.index \in DOMAIN toAo /\ toAo[a.index] = o)
  IN  [o \in DOMAIN outputs |->
         IF of(o) = 0 THEN outputs[o]
         ELSE LET a == points[of(o)]
              IN  [outputs[o] EXCEPT !.min = a.min, !.max = a.max, !.mult = a.mult, !.off = a.off]]

\* Only base outputs are written back.
WrittenBack(ao, outputs) ==
  [ao EXCEPT !["base"] = [r \in DOMAIN @ |-> [k \in DOMAIN @[r] |-> outputs[@[r][k].index]]]]

AoAction == Unit
BoAction == 2 * Unit

\* apply_schedule_value_scaling: a step that writes an output has its scaling.
ScheduleScaled(s, outputs) ==
  LET types == ActionTypes(s)
      targets == ActionIndexes(s)
      scaled(k) ==
        LET o == targets[k].value \div Unit
        IN  IF types[k].value = AoAction /\ Whole(targets[k].value) /\ o \in DOMAIN outputs
            THEN WithScaling(StepValues(s)[k], ScalingOf(outputs[o]), outputs[o].off)
            ELSE StepValues(s)[k]
  IN  SubSeq(s, 1, 11 + 3 * Len(types)) \o [k \in DOMAIN types |-> scaled(k)]

Unwound(rs) == \E k \in DOMAIN rs : Panic \in ToSet(rs[k])

-----------------------------------------------------------------------------
(* Sorting the rows into records *)

BiSize == [meter |-> 13, der |-> 4, inverter |-> 35, battery |-> 54]
AoSize == [meter |-> 12, inverter |-> 12, battery |-> 4]
AiSize == [meter |-> 37, der |-> 15, inverter |-> 34, battery |-> 28]

\* The first kind, from the highest start down, that starts at or before i.
EquipmentOf(key, i, kinds) ==
  LET k == SelectInSeq(kinds, LAMBDA kd : i >= key[kd])
  IN  IF i >= key.experimental \/ k = 0 THEN "base" ELSE kinds[k]
BiKindOf(key, i) == EquipmentOf(key, i, <<"battery", "inverter", "der", "meter">>)
AoKindOf(key, i) == EquipmentOf(key, i, <<"battery", "inverter", "meter">>)
AiKindOf(key, i) ==
  IF IsBaseAi(key, i) THEN "base"
  ELSE IF key.curves <= i /\ i < key.system_meter THEN "curve"
  ELSE IF key.schedules_bc <= i /\ i < key.schedules_bc_status THEN "schedule_bc"
  ELSE IF key.schedules <= i /\ i < key.schedules_status THEN "schedule"
  ELSE BiKindOf(key, i)

\* A gap in the index ends an instance.
Instances(ps) ==
  LET put(gs, p) == IF gs = <<>> \/ p.index > Last(Last(gs)).index + 1 THEN Append(gs, <<p>>)
                    ELSE [gs EXCEPT ![Len(gs)] = Append(@, p)]
  IN  FoldLeft(put, <<>>, ps)

\* An instance of a wrong size is dropped, and an error recorded.
MutDroppedInSilence(ps, size) ==
  [records |-> Where(Instances(ps), LAMBDA g : Len(g) = size), err |-> FALSE]
Equipment(ps, size) ==
  [records |-> Where(Instances(ps), LAMBDA g : Len(g) = size),
   err |-> \E g \in ToSet(Instances(ps)) : Len(g) # size]

\* Of rows h h .. h (c1 c2 .. cn)*, the header and then the columns; a slot
\* that is cut short is left out, and so is a record without a whole header.
Entry(ps, h, n) ==
  IF Len(ps) < h THEN <<>>
  ELSE LET slots == (Len(ps) - h) \div n
           column(c) == [k \in 1..slots |-> ps[h + (k - 1) * n + c]]
       IN  <<SubSeq(ps, 1, h) \o FlattenSeq([c \in 1..n |-> column(c)])>>

Quietly(p, v) == LET q == SetValue(p, v) IN IF q = Refused THEN p ELSE q

\* The status points of the first four schedules read 2, the others 1.
StatusDefault(key, p) ==
  LET of(start) == IF (p.index - start) % 3 # 0 THEN p
                   ELSE Quietly(p, IF (p.index - start) \div 3 < 4 THEN 2 * Unit ELSE Unit)
  IN  IF key.schedules_bc_status <= p.index /\ p.index < key.schedules THEN of(key.schedules_bc_status)
      ELSE IF key.schedules_status <= p.index /\ p.index < key.meter THEN of(key.schedules_status)
      ELSE p

Disabled(r, i, j) == [r EXCEPT ![i] = Quietly(@, Unit), ![j] = Quietly(@, Unit)]

ReclassifyBi(key, ps) ==
  LET of(kind) == Where(ps, LAMBDA p : BiKindOf(key, p.index) = kind)
      units(kind) == Equipment(of(kind), BiSize[kind])
  IN  [records |-> [base |-> <<of("base")>>, meter |-> units("meter").records, der |-> units("der").records,
                    inverter |-> units("inverter").records, battery |-> units("battery").records],
       err |-> \E kind \in DOMAIN BiSize : units(kind).err]

ReclassifyAo(key, ps) ==
  LET of(kind) == Where(ps, LAMBDA p : AoKindOf(key, p.index) = kind)
      units(kind) == Equipment(of(kind), AoSize[kind])
  IN  [records |-> [base |-> <<of("base")>>, meter |-> units("meter").records,
                    inverter |-> units("inverter").records, battery |-> units("battery").records],
       err |-> \E kind \in DOMAIN AoSize : units(kind).err]

ReclassifyAi(key, ps, outputs) ==
  LET of(kind) == Where(ps, LAMBDA p : AiKindOf(key, p.index) = kind)
      units(kind) == Equipment(of(kind), AiSize[kind])
      base == of("base")
      curve == Entry(of("curve"), 4, 2)
      bc == Entry(of("schedule_bc"), 10, 2)
      schedule == Entry(of("schedule"), 11, 4)
      curves == [k \in DOMAIN curve |-> CurveScaled(curve[k])]
      schedules == [k \in DOMAIN schedule |-> ScheduleScaled(Disabled(schedule[k], 9, 10), outputs)]
  IN  IF Unwound(schedules) \/ Unwound(curves) THEN Panic
      ELSE [records |-> [base |-> <<[k \in DOMAIN base |-> StatusDefault(key, base[k])]>>,
                         meter |-> units("meter").records, der |-> units("der").records,
                         inverter |-> units("inverter").records, battery |-> units("battery").records,
                         curve |-> curves,
                         schedule_bc |-> [k \in DOMAIN bc |-> Disabled(bc[k], 8, 9)],
                         schedule |-> schedules],
            err |-> \/ \E kind \in DOMAIN AiSize : units(kind).err
                    \/ \E k \in DOMAIN curves : ~CurveValid(curves[k])]

-----------------------------------------------------------------------------
(* Ride-through curves and schedules *)

Ride(type, y, schedule, bo, points) ==
  [type |-> type * Unit, x |-> 4 * Unit, y |-> y * Unit, schedule |-> schedule * Unit, bo |-> bo,
   points |-> points]
RideThrough ==
  <<Ride(9, 8, 1, 12, <<<<16000, 12000>>, <<200000, 12000>>, <<200000, 11000>>, <<10000000, 11000>>>>),
    Ride(11, 8, 2, 12, <<<<10000000, 7000>>, <<200000, 7000>>, <<200000, 4500>>, <<16000, 4500>>>>),
    Ride(13, 9, 5, 13, <<<<16000, 6200>>, <<30000000, 6200>>, <<30000000, 6120>>, <<300000000, 6120>>>>),
    Ride(15, 9, 6, 13, <<<<300000000, 5850>>, <<30000000, 5850>>, <<30000000, 5650>>, <<16000, 5650>>>>)>>

Values(ride) == <<ride.type, 4 * Unit, ride.x, ride.y>>
                  \o [k \in 1..4 |-> ride.points[k][1]] \o [k \in 1..4 |-> ride.points[k][2]]

\* clone_point_with_value over a header: a refused value leaves the old one
\* and records an error.
Cloned(ps, values) == [k \in DOMAIN values |-> Quietly(ps[k], values[k])]
Unset(ps, values) == \E k \in DOMAIN values : SetValue(ps[k], values[k]) = Refused

Lesser(a, b) == IF a < b THEN a ELSE b

\* The curve made of template t, or Panic.
Placed(scaled, values) ==
  IF Panic \in ToSet(scaled) THEN Panic
  ELSE [points |-> Cloned(scaled, values), err |-> Unset(scaled, values)]
CurveMade(curve, err) ==
  IF Panic \in ToSet(curve) THEN Panic ELSE [entry |-> curve, err |-> err \/ ~CurveValid(curve)]
RideCurve(t, ride) ==
  LET n == Lesser(4, Slots(t, 4, 2))
      column(c) == [k \in 1..n |-> ride.points[k][c]]
      xs == Placed(Rescaled(SubSeq(Xs(t), 1, n), XScaling(ride.x \div Unit)), column(1))
      ys == Placed(Rescaled(SubSeq(Ys(t), 1, n), YScaling(ride.y \div Unit)), column(2))
      head == SubSeq(Values(ride), 1, 4)
  IN  IF xs = Panic \/ ys = Panic THEN Panic
      ELSE CurveMade(CurveScaled(Cloned(t, head) \o xs.points \o ys.points),
                     n < 4 \/ Unset(t, head) \/ xs.err \/ ys.err)

\* The .expect at the first slot is the only way out of a BC schedule.
RideBc(t, ride, id) ==
  LET head == <<id, Unit, ride.schedule, 0, 0, 0, 0, 2 * Unit, 2 * Unit, Unit>>
      slot == <<Column(t, 10, 2, 1)[1], Column(t, 10, 2, 2)[1]>>
  IN  IF Slots(t, 10, 2) = 0 THEN Panic
      ELSE [entry |-> Cloned(t, head) \o Cloned(slot, <<0, Unit>>),
            err |-> Unset(t, head) \/ Unset(slot, <<0, Unit>>)]

\* What edits the curves: the output paired with the first curve index.
Selector(index, start) ==
  IF start \in DOMAIN index.toAo THEN <<AoAction, index.toAo[start]>>
  ELSE IF start \in DOMAIN index.toBo THEN <<BoAction, index.toBo[start]>> ELSE Panic

\* A schedule that writes the curve: selector, paired points, enabling output.
MutStepsUnselected(c, ride, id, index, selector) ==
  FlattenSeq([k \in 1..12 |-> IF c[k].index \in DOMAIN index.toAo
                              THEN <<<<AoAction, index.toAo[c[k].index] * Unit, Values(ride)[k]>>>> ELSE <<>>])
Steps(c, ride, id, index, selector) ==
  LET write(k) == IF c[k].index \in DOMAIN index.toAo
                  THEN <<<<AoAction, index.toAo[c[k].index] * Unit, Values(ride)[k]>>>> ELSE <<>>
  IN  <<<<selector[1], selector[2] * Unit, id>>>>
        \o FlattenSeq([k \in 1..12 |-> write(k)])
        \o (IF ride.bo \in index.bo THEN <<<<BoAction, ride.bo * Unit, Unit>>>> ELSE <<>>)

\* A slot that writes an output has the scaling of the output.
Writing(t, steps, outputs) ==
  LET target(k) == steps[k][2] \div Unit
  IN  [k \in DOMAIN steps |->
         IF steps[k][1] = AoAction /\ target(k) \in DOMAIN outputs
         THEN WithScaling(StepValues(t)[k], ScalingOf(outputs[target(k)]), outputs[target(k)].off)
         ELSE StepValues(t)[k]]

ScheduleMade(schedule, err) ==
  IF Panic \in ToSet(schedule) THEN Panic ELSE [entry |-> schedule, err |-> err]
Filled(t, id, steps, values, outputs) ==
  LET given(j) == [k \in DOMAIN steps |-> steps[k][j]]
      head == <<id, Unit, 0, 0, 0, 0, 0, 0, 2 * Unit, 2 * Unit, Len(steps) * Unit>>
      zeros == [k \in DOMAIN steps |-> 0]
  IN  IF Panic \in ToSet(values) THEN Panic
      ELSE ScheduleMade(
             ScheduleScaled(
               Cloned(t, head) \o Cloned(Offsets(t), zeros) \o Cloned(ActionTypes(t), given(1))
                 \o Cloned(ActionIndexes(t), given(2)) \o Cloned(values, given(3)), outputs),
             \/ Unset(t, head) \/ Unset(Offsets(t), zeros) \/ Unset(ActionTypes(t), given(1))
             \/ Unset(ActionIndexes(t), given(2)) \/ Unset(values, given(3)))

\* Steps beyond the template's slots are left out without a word.
Fitting(t, steps) == SubSeq(steps, 1, Lesser(Len(steps), Slots(t, 11, 4)))
Scheduled(t, id, steps, outputs) == Filled(t, id, steps, Writing(t, steps, outputs), outputs)
RideSchedule(t, c, ride, id, index, outputs, start) ==
  LET selector == Selector(index, start)
  IN  IF selector = Panic \/ Len(c) < 12 THEN Panic
      ELSE Scheduled(t, id, Fitting(t, Steps(c, ride, id, index, selector)), outputs)

\* What a mode has made, if anything, is added to what the modes before it made.
NothingMade == [entry |-> <<>>, err |-> FALSE]
Pushed(entries, one) == IF one.entry = <<>> THEN entries ELSE Append(entries, one.entry)
Grown(made, curve, bc, schedule, outputs) ==
  IF schedule = Panic THEN Panic
  ELSE [curve |-> Pushed(made.curve, curve), schedule_bc |-> Pushed(made.schedule_bc, bc),
        schedule |-> Pushed(made.schedule, schedule), outputs |-> outputs,
        err |-> made.err \/ curve.err \/ bc.err \/ schedule.err]

AddRide(made, t, number, index, start) ==
  LET ride == RideThrough[number]
      id == number * Unit
      curve == IF t.curve = <<>> THEN NothingMade ELSE RideCurve(t.curve[1], ride)
      bc == IF t.schedule_bc = <<>> THEN NothingMade ELSE RideBc(t.schedule_bc[1], ride, id)
      outputs == IF t.curve = <<>> THEN made.outputs
                 ELSE OutputsScaled(made.outputs, index.toAo, curve.entry)
  IN  IF made = Panic \/ curve = Panic \/ bc = Panic THEN Panic
      ELSE Grown(made, curve, bc,
                 IF t.curve = <<>> \/ t.schedule = <<>> THEN NothingMade
                 ELSE RideSchedule(t.schedule[1], curve.entry, ride, id, index, outputs, start),
                 outputs)

\* The workbook's curve and schedules make room for four of each.
Roomed(p, made) ==
  IF made = Panic THEN Panic
  ELSE [profile |-> Validated([p EXCEPT !.ai["curve"] = made.curve, !.ai["schedule_bc"] = made.schedule_bc,
                                        !.ai["schedule"] = made.schedule,
                                        !.ao = WrittenBack(@, made.outputs)]),
        err |-> made.err]
Synthesize(p, name) ==
  LET index == [toAo |-> AnalogPairs(p).toAo, toBo |-> BinaryPairs(p).toBo, bo |-> Indices(p.bo)]
      none == [curve |-> <<>>, schedule_bc |-> <<>>, schedule |-> <<>>,
               outputs |-> ByIndex(AllAo(p)), err |-> FALSE]
  IN  IF name \notin RideThroughNames THEN [profile |-> p, err |-> FALSE]
      ELSE Roomed(p, FoldLeft(LAMBDA m, number : AddRide(m, p.ai, number, index, p.key.curves),
                              none, <<1, 2, 3, 4>>))

-----------------------------------------------------------------------------
(* The whole *)

\* A schedule is scaled again, with the outputs the curves have scaled.
RescaledSchedule(s, outputs) == ScheduleScaled(s, outputs)

\* reclassify_by_key: the last steps, on what the rows have become,
Concluded(final, err) ==
  IF final = Panic THEN Panic ELSE IF err \/ final.err THEN Refused ELSE final.profile
Completed(second, name, err) ==
  IF ~ProfileValid(second) THEN Refused ELSE Concluded(Synthesize(second, name), err)
Rewritten(first, outputs, name, err) ==
  LET schedules == [k \in DOMAIN first.ai["schedule"] |-> RescaledSchedule(first.ai["schedule"][k], outputs)]
  IN  IF Unwound(schedules) THEN Panic
      ELSE Completed([first EXCEPT !.ao = WrittenBack(@, outputs), !.ai["schedule"] = schedules], name, err)

\* which the curves' points and then the schedules scale,
ScaledOutputs(p) ==
  LET toAo == AnalogPairs(p).toAo
  IN  FoldLeft(LAMBDA m, c : OutputsScaled(m, toAo, c), ByIndex(AllAo(p)), p.ai["curve"])
Sorted(first, name, err) ==
  IF ~ProfileValid(first) THEN Refused ELSE Rewritten(first, ScaledOutputs(first), name, err)

\* once they are sorted by the key sheet.
Filed(key, bo, bi, ao, ai, name) ==
  IF ai = Panic THEN Panic
  ELSE Sorted([key |-> key, bo |-> bo, bi |-> bi.records, ao |-> ao.records, ai |-> ai.records],
              name, bi.err \/ ao.err \/ ai.err)
Reclassify(key, bo, bi, ao, ai, name) ==
  LET newAo == ReclassifyAo(key, ao)
  IN  Filed(key, bo, ReclassifyBi(key, bi), newAo,
            ReclassifyAi(key, ai, ByIndex(Flat(newAo.records, AoKinds))), name)

\* workbook_to_profile_with_name
Load(wb) ==
  LET bo == BoSheet(wb.bo)
      bi == BiSheet(wb.bi)
      ao == AoSheet(wb.ao)
      ai == AiSheet(wb.ai)
      result == Reclassify(KeySheet(wb), bo.points, bi.points, ao.points, ai.points, wb.name)
  IN  IF \/ ~wb.structure \/ ~wb.header
         \/ bo = Refused \/ bi = Refused \/ ao = Refused \/ ai = Refused
      THEN Refused
      ELSE IF result = Panic THEN Panic
      ELSE IF bi.err \/ ao.err \/ ai.err THEN Refused ELSE result
=============================================================================
