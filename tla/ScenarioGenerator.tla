--------------------------- MODULE ScenarioGenerator ---------------------------
(***************************************************************************)
(* The test scenarios: the profile each one gives the control station and  *)
(* the verdict it expects of every conformance test                        *)
(* (scenario_generator/src: scenarios.rs, update_profile.rs).              *)
(***************************************************************************)
EXTENDS PicsProfile, ConformanceLists

Configuration == "configuration"
ModifyPoints == "modify_points"
Unsupported == "unsupported"
LowerBounds == "lower_bounds"
UpperBounds == "upper_bounds"
MaxCurves == "max_curves"
MaxSchedules == "max_schedules"
Functional == "functional"
FunctionalRepeat == "functional_repeat"
ScenarioIds == {Configuration, ModifyPoints, Unsupported, LowerBounds, UpperBounds,
                MaxCurves, MaxSchedules, Functional, FunctionalRepeat}

RequiresHeadroom(scenarios) == scenarios \cap {LowerBounds, UpperBounds} # {}

SelectorAis == {CurveSelector, ScheduleBcSelector, ScheduleSelector}
SelectorAos == {244, 2000, 3000}

-----------------------------------------------------------------------------
(* Preparing the base profile *)

Inward(p) == [low |-> IF p.min = MinI32 THEN MinI32 + 1 ELSE p.min,
              high |-> IF p.max = MaxI32 THEN MaxI32 - 1 ELSE p.max]
Pinned(p) == p.min = MinI32 \/ p.max = MaxI32

MutAoWithoutHeadroom(o) == o
AoWithHeadroom(o) == IF Pinned(o) THEN SetTransmissionBounds(o, Inward(o).low, Inward(o).high) ELSE o

\* The clamp of the value that follows never applies: set_eng_bounds has
\* refused the limits if the value is outside them.
AiWithHeadroom(a) ==
  IF a.index \in SelectorAis \/ ~Pinned(a) THEN a
  ELSE SetEngBounds(a, FromTransmitted(Inward(a).low, a.mult, a.off),
                       FromTransmitted(Inward(a).high, a.mult, a.off))

PreparedAi(rs) == [r \in DOMAIN rs |-> [k \in DOMAIN rs[r] |-> AiWithHeadroom(rs[r][k])]]
PreparedAo(rs) == [r \in DOMAIN rs |-> [k \in DOMAIN rs[r] |-> AoWithHeadroom(rs[r][k])]]
AnyRefused(rs) == \E r \in DOMAIN rs : Refused \in ToSet(rs[r])

\* Every output, and the inputs that are part of no record.
MutPrepareEverything(p, scenarios) ==
  LET ai == [kind \in DOMAIN p.ai |-> PreparedAi(p.ai[kind])]
  IN  IF ~RequiresHeadroom(scenarios) THEN p
      ELSE IF \E kind \in DOMAIN ai : AnyRefused(ai[kind]) THEN Refused
      ELSE Validated([p EXCEPT !.ai = ai])
PrepareBase(p, scenarios) ==
  LET ao == [kind \in DOMAIN p.ao |-> PreparedAo(p.ao[kind])]
      base == PreparedAi(p.ai["base"])
  IN  IF ~RequiresHeadroom(scenarios) THEN p
      ELSE IF AnyRefused(base) \/ \E kind \in DOMAIN ao : AnyRefused(ao[kind]) THEN Refused
      ELSE Validated([p EXCEPT !.ao = ao, !.ai["base"] = base])

-----------------------------------------------------------------------------
(* Updating the profile for a scenario *)

\* Some scenarios go through all inputs, as they were at the start, one after
\* the other, and pass over the selectors.
Moving == {ModifyPoints, LowerBounds, UpperBounds}
MutSelectorsMovedToo(a) == FALSE
PassedOver(a) == a.index \in SelectorAis

\* gen_range over the engineering limits: what is drawn is an input.
ModifyPoint(p, a, drawn) == SetAiPoint(p, a.index, SetValue(AiPoint(p, a.index), drawn))

\* The limits move one engineering unit out and the value to the new limit;
\* inputs whose new limits do not fit in 32 bits keep both.
OutOfBounds(p, a, scenario) ==
  LET low == EngMin(a) - Unit
      high == EngMax(a) + Unit
      wider == SetEngBounds(AiPoint(p, a.index), low, high)
      moved == IF wider = Refused THEN Refused
               ELSE SetValue(wider, IF scenario = LowerBounds THEN low ELSE high)
  IN  IF QuotientAbove(high - a.off, a.mult, MaxI32) \/ QuotientBelow(low - a.off, a.mult, MinI32)
      THEN p ELSE SetAiPoint(p, a.index, moved)

\* What the full profile has and the submitted one has not: base points by
\* index, equipment by position, curves and schedules that share no index
\* with those submitted.
Missing(mine, theirs) == Where(theirs, LAMBDA a : ~HasIndex(mine, a.index))
Disjoint(mine, theirs) == Where(theirs, LAMBDA r : Indices(r) \cap Indices(FlattenSeq(mine)) = {})
Beyond(mine, theirs) == SubSeq(theirs, Len(mine) + 1, Len(theirs))
Remaining(mine, theirs) ==
  [kind \in DOMAIN mine |->
     IF kind = "base" THEN <<Missing(mine[kind][1], theirs[kind][1])>>
     ELSE IF kind \in {"curve", "schedule_bc", "schedule"} THEN Disjoint(mine[kind], theirs[kind])
     ELSE Beyond(mine[kind], theirs[kind])]
UnsupportedProfile(p, full) ==
  Validated([key |-> full.key, bo |-> Missing(p.bo, full.bo), bi |-> Remaining(p.bi, full.bi),
             ao |-> Remaining(p.ao, full.ao), ai |-> Remaining(p.ai, full.ai)])

Doubled(rs) == IF rs = <<>> THEN rs ELSE Append(rs, Last(rs))

OneCurveMore(p) ==
  IF p.ai["curve"] = <<>> THEN Refused ELSE Validated([p EXCEPT !.ai["curve"] = Doubled(@)])

OneScheduleMore(p) ==
  IF p.ai["schedule_bc"] = <<>> /\ p.ai["schedule"] = <<>> THEN Refused
  ELSE Validated([p EXCEPT !.ai["schedule_bc"] = Doubled(@), !.ai["schedule"] = Doubled(@)])

\* What the rest of the scenarios make of the profile; the two that go
\* through the points start from it as it is.
UpdateProfile(scenario, p, full) ==
  CASE scenario = Unsupported -> UnsupportedProfile(p, full)
    [] scenario = MaxCurves -> OneCurveMore(p)
    [] scenario = MaxSchedules -> OneScheduleMore(p)
    [] OTHER -> p

-----------------------------------------------------------------------------
(* The verdicts a scenario expects *)

HasAoInProfile(test, p) == (test.ao \cap Indices(AllAo(p))) \ SelectorAos # {}

CurveTests == {"curve_001", "curve_002", "curve_003"}
ScheduleTests == {"sched_001", "sched_002"}

\* The two functional scenarios expect nothing.
Expects(scenario, name, p) ==
  CASE scenario \in {Configuration, ModifyPoints} -> TRUE
    [] scenario = Unsupported -> FALSE
    [] scenario \in {LowerBounds, UpperBounds} -> ~HasAoInProfile(ConformanceTests[name], p)
    [] scenario = MaxCurves -> name \notin CurveTests
    [] scenario = MaxSchedules -> name \notin ScheduleTests
=============================================================================
