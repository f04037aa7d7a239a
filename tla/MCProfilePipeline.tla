--------------------------- MODULE MCProfilePipeline ---------------------------
(* Workbooks for ProfilePipeline: the rows the conformance tests CONN, VRT,  *)
(* CURVE and SCHED are about, a curve, a BC schedule and a schedule, as the  *)
(* bundled workbooks have them, and the ways to get some of it wrong.  The   *)
(* width is -5000000 .. 5000000.                                           *)
EXTENDS ProfilePipeline

MCMaxI32 == 5000000
MCMinI32 == -5000000

Ai(i, min, max, mult, value, ao) ==
  [index |-> i, text |-> TRUE, class |-> TRUE, min |-> min, max |-> max, mult |-> mult, off |-> 0,
   value |-> value, ao |-> ao]
Ao(i, min, max, mult, ai) ==
  [index |-> i, text |-> TRUE, class |-> TRUE, min |-> min, max |-> max, mult |-> mult, off |-> 0, ai |-> ai]
Bi(i, bo) == [index |-> i, text |-> TRUE, class |-> TRUE, bo |-> bo]
Bo(i, bi) == [index |-> i, text |-> TRUE, bi |-> bi]
Label == [index |-> None]

Top == MCMaxI32
\* The outputs of rows that have one, with the limits of the row; those of the
\* values of a schedule take any.
Outputs(rows) ==
  LET with == SelectSeq(rows, LAMBDA r : r.ao # None)
      any(r) == r.index \in 3012..3499 /\ r.index % 4 = 3
  IN  [k \in DOMAIN with |->
         LET r == with[k] IN
         IF any(r) THEN Ao(r.ao, MCMinI32, Top, 100, r.index) ELSE Ao(r.ao, r.min, r.max, r.mult, r.index)]

BaseRows ==
  <<Ai(24, 0, 100, 100, 0, None), Ai(60, 0, Top, 100, 0, 16), Ai(61, 0, Top, 100, 0, 17),
    Ai(71, 0, Top, 100, 0, 22), Ai(72, 0, Top, 10, 0, None), Ai(73, 0, Top, 100, 0, 23),
    Ai(74, 0, Top, 100, 0, 24), Ai(75, 0, Top, 100, 0, 25), Ai(76, 0, Top, 100, 0, 26)>>
SelectorRow == <<Ai(328, 0, 100, 100, 0, 244)>>

\* A curve with n points, x and y in turn.
CurveRows(n) ==
  <<Ai(329, 0, 100, 100, 900, 245), Ai(330, 0, 100, 100, n * 100, 246),
    Ai(331, 0, 100, 100, 400, 247), Ai(332, 0, 100, 100, 800, 248)>>
  \o [k \in 1..(2 * n) |-> IF k % 2 = 1 THEN Ai(332 + k, 0, Top, 100, 0, 248 + k)
                           ELSE Ai(332 + k, 0, 10000, 10, 0, 248 + k)]

BcRows ==
  <<Ai(2000, 0, Top, 100, 0, None), Ai(2001, 0, Top, 100, 0, 2000), Ai(2002, 0, Top, 100, 0, 2001),
    Ai(2003, 0, Top, 100, 0, 2002), Ai(2004, 0, 255, 100, 0, 2003), Ai(2005, 0, 20000, 100, 0, 2004),
    Ai(2006, 0, 4000000, 100, 0, 2005), Ai(2007, 0, Top, 100, 0, 2006), Ai(2008, 0, 8, 100, 0, 2007),
    Ai(2009, 0, 5, 100, 0, None), Ai(2010, 0, 5, 100, 0, None), Ai(2011, 0, Top, 100, 0, 2008),
    Ai(2012, MCMinI32, Top, 100, 0, 2009), Ai(2013, MCMinI32, Top, 100, 0, 2010),
    Ai(2300, 0, 4, 100, 0, None)>>

\* The value of the only slot is missing.
CutBcRows == SubSeq(BcRows, 1, 13) \o <<BcRows[15]>>

\* A schedule with n steps.
ScheduleRows(n) ==
  <<Ai(3000, 0, Top, 100, 0, 3000), Ai(3001, 0, Top, 100, 0, 3001), Ai(3002, 0, Top, 100, 0, 3002),
    Ai(3003, 0, 20000, 100, 0, 3003), Ai(3004, 0, 4000000, 100, 0, 3004), Ai(3005, 0, 20000, 100, 0, 3005),
    Ai(3006, 0, 4000000, 100, 0, 3006), Ai(3007, 0, Top, 100, 0, 3007), Ai(3008, 0, 8, 100, 0, 3008),
    Ai(3009, 0, 7, 100, 0, None), Ai(3010, 0, 7, 100, 0, None), Ai(3011, 0, Top, 100, n * 100, 3009)>>
  \o [k \in 1..(4 * n) |->
        CASE k % 4 = 1 -> Ai(3011 + k, 0, Top, 100, 0, 3009 + k)
          [] k % 4 = 2 -> Ai(3011 + k, 0, 2, 100, 0, 3009 + k)
          [] k % 4 = 3 -> Ai(3011 + k, 0, 64999, 100, 0, 3009 + k)
          [] k % 4 = 0 -> Ai(3011 + k, 0, 100, 100, 0, 3009 + k)]
  \o <<Ai(3500, 0, 11, 100, 0, None)>>

MeterRows(n) == [k \in 1..n |-> Ai(4999 + k, 0, 9, 100, 0, None)]

\* A meter's outputs and binary inputs, each on a sheet of its own.
MeterAoRows(n) == [k \in 1..n |-> Ao(4999 + k, 0, 9, 100, None)]
MeterBiRows(n) == [k \in 1..n |-> Bi(4999 + k, None)]

BiRows ==
  <<Bi(23, 5), Bi(24, None), Bi(64, 12), Bi(65, 13), Bi(107, None)>>
  \o [k \in 1..8 |-> Bi(1999 + k, 1999 + k)] \o <<Bi(3000, 3000), Bi(3001, 3001)>>
BoRows ==
  <<Bo(5, 23), Bo(12, 64), Bo(13, 65)>>
  \o [k \in 1..8 |-> Bo(1999 + k, 1999 + k)] \o <<Bo(3000, 3000), Bo(3001, 3001)>>

Key == [DefaultKey EXCEPT !.curves = 328, !.system_meter = 533]

Book(name, key, ai, ao) ==
  [name |-> name, structure |-> TRUE, header |-> TRUE, key |-> key,
   bo |-> BoRows, bi |-> BiRows, ao |-> ao, ai |-> ai]
Straight(ai) == Book(None, Key, ai, Outputs(ai))

UpToCurve(rows, curve) == rows \o SelectorRow \o curve
PlainRows == UpToCurve(BaseRows, CurveRows(2)) \o BcRows \o ScheduleRows(1)
FullBook ==
  LET ai == UpToCurve(BaseRows, CurveRows(4)) \o BcRows \o ScheduleRows(14) \o MeterRows(37)
  IN  Book("full", Key, ai, Outputs(ai))
\* A curve of a type whose values have another scaling than the rows.
VoltVar == [CurveRows(2) EXCEPT ![1].value = 200, ![3].value = 2900, ![4].value = 200]
CoarseRows == [PlainRows EXCEPT ![2].mult = 300, ![3].mult = 300]

MCFull == Load(FullBook)
MCDefaultCurve == MCFull.ai["curve"][1]

MCWorkbooks ==
  [full        |-> FullBook,
   plain       |-> [Book(None, Key, <<Label>> \o PlainRows \o MeterRows(37), Outputs(PlainRows) \o MeterAoRows(12))
                      EXCEPT !.bi = BiRows \o MeterBiRows(13)],
   coarse      |-> Straight(CoarseRows),
   cut_slot    |-> Straight(UpToCurve(BaseRows, SubSeq(VoltVar, 1, 7)) \o CutBcRows \o ScheduleRows(1)),
   bare        |-> Straight(BaseRows),
   at_limit    |-> Straight([BaseRows EXCEPT ![2].value = Top * 100]),
   one_value   |-> Book(None, Key, PlainRows, Outputs(PlainRows) \o <<Ao(90, Top, Top, 100, None)>>),
   short_meter |-> Straight(PlainRows \o MeterRows(36)),
   short_bi    |-> [Straight(PlainRows) EXCEPT !.bi = BiRows \o MeterBiRows(12)],
   short_ao    |-> [Straight(PlainRows) EXCEPT !.ao = Outputs(PlainRows) \o MeterAoRows(11)],
   no_key      |-> Book(None, [Key EXCEPT !.curves = Blank], PlainRows, Outputs(PlainRows)),
   no_limit    |-> Straight([PlainRows EXCEPT ![2].max = Blank]),
   zero        |-> Straight([PlainRows EXCEPT ![2].mult = 0])]

MCSelections == {{Configuration, ModifyPoints, Unsupported, MaxCurves, MaxSchedules, Functional, FunctionalRepeat},
                 {Configuration, ModifyPoints, LowerBounds, UpperBounds}}

-----------------------------------------------------------------------------
\* A step that writes output 26 a value that output does not take.
OutsideStep ==
  [PlainRows EXCEPT ![Len(PlainRows) - 3].value = 100, ![Len(PlainRows) - 2].value = 2600,
                    ![9].max = 50, ![Len(PlainRows) - 1].value = 6000]
MCScalingWorkbooks == [outside |-> Straight(OutsideStep)]
=============================================================================
