---------------------------- MODULE ProfilePipeline ----------------------------
(***************************************************************************)
(* A profile on its way through the tool: a workbook is loaded, perhaps    *)
(* edited, prepared for a job, updated for a scenario, and judged by the   *)
(* conformance tests of the control station.  PicsLoader, PicsProfile and  *)
(* ScenarioGenerator have what each of the steps computes; this module     *)
(* puts them in the order of web_server (routes/profiles.rs and            *)
(* services/job_service.rs) and adds what comes of a scenario in the       *)
(* stations (reference_control_station/src/control_loop.rs, conformance.rs *)
(* and reference_outstation/src/outstation.rs), reduced to its outcome:    *)
(* PointExchange and MuxLink have the exchange itself.                     *)
(***************************************************************************)
EXTENDS PicsLoader, ScenarioGenerator

CONSTANTS
  Workbooks,   \* [name -> workbook]: what may be uploaded
  Full,        \* the bundled full profile
  Selections,  \* sets of scenarios a job is created with
  Draws,       \* what gen_range gives: "high", the upper limit, or "inner" values
  Extra        \* how many default curves are added at once

\* What is uploaded is a workbook (that the loader makes a valid profile of it or
\* none is proved), and the bundled profile is valid and its selectors show the
\* first entry at most (data/profiles/full.json).
ASSUME ProfilesAssumption ==
  /\ Refused \notin Profiles
  /\ \A w \in DOMAIN Workbooks : IsWorkbook(Workbooks[w])
  /\ Full \in Profiles /\ ProfileValid(Full)
  /\ \A a \in ToSet(AllAi(Full)) :
       a.index \in {ScheduleSelector, ScheduleBcSelector} => Truncated(a.value) <= 1
  /\ DefaultCurve \in Seq(AiPoints) /\ Extra \in Nat
  /\ Draws \subseteq {"high", "inner"}

VARIABLES
  stage,       \* how far the profile has come
  workbook,    \* where it comes from
  profile,     \* the loaded, perhaps edited profile
  chosen,      \* the scenarios of the job
  base,        \* the prepared profile: what both stations are started with
  scenario,    \* the scenario that was begun
  current,     \* the profile made for it, which the control station is given
  toMove,      \* the points of base that are still to be moved in it
  draw         \* which values are drawn

PipelineVars == <<stage, workbook, profile, chosen, base, scenario, current, toMove, draw>>

-----------------------------------------------------------------------------
(* The steps *)

NoProfile == {None, Refused, Panic}

\* An upload or the seed of a bundled profile.
Import(w) ==
  /\ stage = "empty"
  /\ workbook' = w
  /\ profile' = Load(Workbooks[w])
  /\ stage' = IF profile' \in NoProfile THEN "not_loaded" ELSE "loaded"
  /\ UNCHANGED <<chosen, base, scenario, current, toMove, draw>>

\* add_profile_curve; a refusal leaves the profile as it was.
AddCurve ==
  /\ stage = "loaded"
  /\ LET more == AddDefaultCurves(profile, Extra) IN
     profile' = IF more = Refused THEN profile ELSE more
  /\ stage' = "edited"
  /\ UNCHANGED <<workbook, chosen, base, scenario, current, toMove, draw>>

\* create_job prepares the profile before anything is started.
CreateJob(selection) ==
  /\ stage \in {"loaded", "edited"}
  /\ chosen' = selection
  /\ base' = PrepareBase(profile, selection)
  /\ stage' = IF base' = Refused THEN "not_created" ELSE "created"
  /\ UNCHANGED <<workbook, profile, scenario, current, toMove, draw>>

Drawn(d, a) ==
  CASE d = "high" -> EngMax(a)
    [] d = "inner" -> IF a.index % 2 = 0 THEN EngMax(a) - Unit ELSE (EngMin(a) + EngMax(a)) \div 2

\* The scenario's profile is made of the prepared one, never of the one before.
BeginScenario(s, d) ==
  /\ stage = "created" /\ s \in chosen
  /\ s # ModifyPoints => d = "high"
  /\ scenario' = s /\ draw' = d
  /\ current' = UpdateProfile(s, base, Full)
  /\ toMove' = IF s \in Moving THEN AllAi(base) ELSE <<>>
  /\ stage' = IF current' = Refused THEN "not_updated" ELSE "updating"
  /\ UNCHANGED <<workbook, profile, chosen, base>>

\* One round of the loops of modify_ai_points and set_ai_out_of_bounds.
MovePoint ==
  /\ stage = "updating" /\ toMove # <<>>
  /\ current' = IF PassedOver(Head(toMove)) THEN current
                ELSE IF scenario = ModifyPoints
                THEN ModifyPoint(current, Head(toMove), Drawn(draw, AiPoint(current, Head(toMove).index)))
                ELSE OutOfBounds(current, Head(toMove), scenario)
  /\ toMove' = Tail(toMove)
  /\ UNCHANGED <<stage, workbook, profile, chosen, base, scenario, draw>>

\* The whole is validated again and sent.
EndUpdate ==
  /\ stage = "updating" /\ toMove = <<>>
  /\ stage' = IF ProfileValid(current) THEN "updated" ELSE "not_updated"
  /\ UNCHANGED <<workbook, profile, chosen, base, scenario, current, toMove, draw>>

PipelineInit ==
  /\ stage = "empty"
  /\ workbook = None /\ profile = None /\ chosen = {}
  /\ base = None /\ scenario = None /\ current = None
  /\ toMove = <<>> /\ draw = None

PipelineNext ==
  \/ \E w \in DOMAIN Workbooks : Import(w)
  \/ AddCurve
  \/ \E selection \in Selections : CreateJob(selection)
  \/ \E s \in ScenarioIds, d \in Draws : BeginScenario(s, d)
  \/ MovePoint
  \/ EndUpdate

PipelineSpec == PipelineInit /\ [][PipelineNext]_PipelineVars

-----------------------------------------------------------------------------
(* What a scenario comes to: st is the profile the outstation was started  *)
(* with, sp the control station's.                                         *)

Raw(a) == TryFromEngineering(a.value, a.mult, a.off)

SelectorOf == [curve |-> 244, schedule_bc |-> 2000, schedule |-> 3000]
EntryKinds == DOMAIN SelectorOf

\* An output the outstation does not have is operated with success.
Accepts(outputs, w) ==
  \A known \in outputs : known.index = w[1] => known.min <= w[2] /\ w[2] <= known.max

\* write_all_ao: the outputs whose input is a base input.
BaseWrites(sp) ==
  LET toAi == AnalogPairs(sp).toAi
      mine == Indices(AllAo(sp)) \cap DOMAIN toAi
      pairs == {<<o, toAi[o]>> : o \in mine}
  IN  UNION {{<<q[1], Raw(a)>> : q \in {r \in pairs : r[2] = a.index}} :
               a \in {b \in ToSet(BaseAi(sp)) : Raw(b) # Refused}}

Edited(sp, kind) == SelectorOf[kind] \in Indices(AllAo(sp))

\* The points of an entry that are written; the smallest value stands for not
\* applicable and is passed over, except by the writer of the BC schedules.
Written(sp, kind, n) ==
  LET toAo == AnalogPairs(sp).toAo
  IN  {<<toAo[a.index], Raw(a)>> :
         a \in {b \in ToSet(sp.ai[kind][n]) : /\ b.index \in DOMAIN toAo
                                              /\ Raw(b) # Refused
                                              /\ kind = "schedule_bc" \/ Raw(b) # MinI32}}

EntryWrites(sp, kind) ==
  IF Edited(sp, kind)
  THEN UNION {{<<SelectorOf[kind], n>>} \cup Written(sp, kind, n) : n \in DOMAIN sp.ai[kind]}
  ELSE {}

\* What has been sent is what the outstation accepts.
AoSent(st, sp) ==
  LET outputs == ToSet(AllAo(st))
      writes == BaseWrites(sp) \cup UNION {EntryWrites(sp, kind) : kind \in EntryKinds}
  IN  {w[1] : w \in {v \in writes : Accepts(outputs, v)}}
BoSent(sp) ==
  LET toBo == BinaryPairs(sp).toBo
  IN  {toBo[i] : i \in Indices(AllBi(sp)) \cap DOMAIN toBo}

\* Each entry is followed by a read of all the outstation has; without any, an
\* input is reported when a write changes it.
Reads(sp) == \E kind \in EntryKinds : Edited(sp, kind) /\ sp.ai[kind] # <<>>
Changed(st, sp) ==
  LET toAi == AnalogPairs(st).toAi
      outputs == ToSet(AllAo(st))
      values == {<<a.index, Raw(a)>> : a \in ToSet(AllAi(st))}
  IN  {toAi[w[1]] : w \in {v \in BaseWrites(sp) :
         /\ v[1] \in DOMAIN toAi /\ Accepts(outputs, v)
         /\ \E was \in values : was[1] = toAi[v[1]] /\ was[2] # v[2]}}

\* What the read after entry n has of its inputs, as <<input, value>>.
WithTheRest(hits, entry) ==
  hits \cup {<<a.index, Raw(a)>> : a \in {b \in ToSet(entry) : b.index \notin {h[1] : h \in hits}}}
Shown(st, sp, kind, n) ==
  LET toAi == AnalogPairs(st).toAi
      outputs == ToSet(AllAo(st))
  IN  WithTheRest({<<toAi[w[1]], w[2]>> : w \in {v \in Written(sp, kind, n) :
                                            v[1] \in DOMAIN toAi /\ Accepts(outputs, v)}},
           st.ai[kind][n])

\* validate_curves and the two validate_schedule: an entry the start-up profile
\* made no room for, one of which nothing was read and one that reads
\* differently fail.
EntryRead(st, sp, kind, n) ==
  LET compared == {<<a.index, Raw(a)>> : a \in {b \in ToSet(sp.ai[kind][n]) : kind = "curve" \/ b.ao # None}}
      shown == Shown(st, sp, kind, n)
  IN  /\ n <= Capacity(st, kind)
      /\ Edited(sp, kind) /\ Indices(sp.ai[kind][n]) \cap Indices(st.ai[kind][n]) # {}
      /\ \A c \in compared : c[2] # Refused /\ \A v \in shown : v[1] = c[1] => v[2] = c[2]

\* All that the tests look at.
Outcome(st, sp) ==
  [ai |-> IF Reads(sp) THEN Indices(AllAi(st)) ELSE Changed(st, sp),
   bi |-> IF Reads(sp) THEN Indices(AllBi(st)) ELSE {},
   ao |-> AoSent(st, sp),
   bo |-> BoSent(sp),
   read |-> {kind \in EntryKinds : \A n \in DOMAIN sp.ai[kind] : EntryRead(st, sp, kind, n)}]

\* The three families of tests.  Values out of range do not occur here: what
\* the outstation accepts is within the limits of both profiles.
Passes(outcome, name) ==
  LET test == ConformanceTests[name]
  IN  /\ test.bi \subseteq outcome.bi /\ test.ao \subseteq outcome.ao
      /\ test.family # "curve" => test.ai \subseteq outcome.ai /\ test.bo \subseteq outcome.bo
      /\ test.family = "curve" => "curve" \in outcome.read
      /\ name = "sched_001" => "schedule_bc" \in outcome.read
      /\ name = "sched_002" => "schedule" \in outcome.read

-----------------------------------------------------------------------------
(* Properties *)

\* Some record has a point with the index.
Keeps(records, i) == \E r \in DOMAIN records : HasIndex(records[r], i)

\* An entry of curves or schedules holds the rows of its section at their
\* places: the header, and in column c of slot k the c-th of the slot's rows.
Holds(entry, rows, h, n) ==
  LET slots == Slots(entry, h, n) IN
  /\ Len(entry) = h + n * slots /\ Len(entry) <= Len(rows)
  /\ \A j \in 1..h : entry[j].index = rows[j].index
  /\ \A c \in 1..n, k \in 1..slots : Column(entry, h, n, c)[k].index = rows[h + (k - 1) * n + c].index

\* The section of a kind has a header and n columns.
Layout == [curve |-> <<4, 2>>, schedule_bc |-> <<10, 2>>, schedule |-> <<11, 4>>]
Dealt(entries, rows, layout) ==
  \A e \in ToSet(entries) : Holds(e, rows, layout[1], layout[2])
\* With a whole header there is one entry and only a slot that is cut short is
\* missing.
Complete(entries, rows, layout) ==
  Len(rows) >= layout[1] =>
    Len(entries) = 1 /\ Slots(entries[1], layout[1], layout[2]) = Slots(rows, layout[1], layout[2])

\* No row of any sheet is lost without a word, or taken for another one.  A row
\* of base points or of equipment is in a record of its kind; the entries of
\* curves and schedules hold the rows of their section at their places, all of
\* them unless the loader makes the four ride-through entries of them.  What is
\* left out there is in `Complete`: a section without a whole header and a last
\* slot that is cut short.
RowsKept ==
  stage = "loaded" =>
    LET wb == Workbooks[workbook]
        key == profile.key
        section(kind) == Where(DataRows(wb.ai), LAMBDA r : AiKindOf(key, r.index) = kind)
    IN  /\ \A r \in ToSet(DataRows(wb.bo)) : HasIndex(profile.bo, r.index)
        /\ \A r \in ToSet(DataRows(wb.bi)) : Keeps(profile.bi[BiKindOf(key, r.index)], r.index)
        /\ \A r \in ToSet(DataRows(wb.ao)) : Keeps(profile.ao[AoKindOf(key, r.index)], r.index)
        /\ \A r \in ToSet(DataRows(wb.ai)) :
             AiKindOf(key, r.index) \notin EntryKinds => Keeps(profile.ai[AiKindOf(key, r.index)], r.index)
        /\ \A kind \in EntryKinds :
             /\ Dealt(profile.ai[kind], section(kind), Layout[kind])
             /\ wb.name \notin RideThroughNames => Complete(profile.ai[kind], section(kind), Layout[kind])

\* Whoever writes a curve or executes a schedule sends integers that mean what
\* the profile says: an output has the scaling of the curve's point it writes,
\* and a step of a schedule that of the output it writes, also after the
\* outputs have been rescaled.
OutputsMeanTheSame ==
  stage = "loaded" =>
    LET toAo == AnalogPairs(profile).toAo
        outputs == ByIndex(AllAo(profile))
    IN  /\ \A c \in ToSet(profile.ai["curve"]), k \in 5..100 :
             /\ k \in DOMAIN c /\ c[k].index \in DOMAIN toAo
             /\ toAo[c[k].index] \in Indices(FlattenSeq(profile.ao["base"]))
             => /\ ScalingOf(outputs[toAo[c[k].index]]) = ScalingOf(c[k])
                /\ outputs[toAo[c[k].index]].off = c[k].off
        /\ \A s \in ToSet(profile.ai["schedule"]) : \A k \in DOMAIN StepValues(s) :
             LET o == Truncated(ActionIndexes(s)[k].value) IN
             ActionTypes(s)[k].value = AoAction /\ o \in DOMAIN outputs
             => ScalingOf(outputs[o]) = ScalingOf(StepValues(s)[k])

\* What the steps of schedule n write, as [output -> value].
Effect(s) ==
  LET ks == {k \in DOMAIN StepValues(s) : ActionTypes(s)[k].value = AoAction}
      o(k) == Truncated(ActionIndexes(s)[k].value)
  IN  [w \in {o(k) : k \in ks} |-> StepValues(s)[CHOOSE k \in ks : o(k) = w].value]

\* Schedule n of a ride-through profile selects curve n and writes all of it:
\* the two are made from the same table but by different code.
SchedulesWriteTheirCurves ==
  stage = "loaded" /\ Workbooks[workbook].name \in RideThroughNames =>
    LET toAo == AnalogPairs(profile).toAo IN
    \A n \in DOMAIN profile.ai["schedule"] :
      LET s == profile.ai["schedule"][n]
          c == profile.ai["curve"][n]
      IN  /\ SelectorOf["curve"] \in DOMAIN Effect(s) /\ Effect(s)[SelectorOf["curve"]] = n * Unit
          /\ \A k \in DOMAIN c : c[k].index \in DOMAIN toAo =>
               toAo[c[k].index] \in DOMAIN Effect(s) /\ Effect(s)[toAo[c[k].index]] = c[k].value

\* Making room at the 32-bit limits does not disturb the scaling rules of
\* curves and schedules, nor any other rule: it fails only for a point that is
\* left without a value, both its limits being the same 32-bit limit, and for an
\* input whose value sits at the limit.
RoomIsMade ==
  stage = "not_created" =>
    \/ \E o \in ToSet(AllAo(profile)) : Pinned(o) /\ Inward(o).low > Inward(o).high
    \/ \E a \in ToSet(FlattenSeq(profile.ai["base"])) :
         /\ Pinned(a)
         /\ \/ Inward(a).low > Inward(a).high
            \/ a.value < FromTransmitted(Inward(a).low, a.mult, a.off)
            \/ a.value > FromTransmitted(Inward(a).high, a.mult, a.off)

\* A job never stops halfway because its profile cannot be updated, except for
\* want of a curve or schedule to repeat: changes that the rules of a curve, a
\* schedule or a meter forbid are undone one by one.
ScenariosCanBegin ==
  stage = "not_updated" =>
    \/ scenario = MaxCurves /\ base.ai["curve"] = <<>>
    \/ scenario = MaxSchedules /\ base.ai["schedule"] = <<>> /\ base.ai["schedule_bc"] = <<>>

\* The selectors say which entry the other points show: no scenario that
\* changes values changes theirs.
SelectorsStay ==
  stage = "updated" /\ scenario # Unsupported =>
    \A i \in SelectorAis :
      {a \in ToSet(AllAi(current)) : a.index = i} = {a \in ToSet(AllAi(base)) : a.index = i}

\* A profile whose outputs and inputs fit together: no two outputs share an
\* input; an output of a base input has its limits and scaling, with a multiplier
\* of at most 1; there are a curve and schedules with their selectors, and what
\* is compared of them can be written.
FitsTogether(p) ==
  LET pairs == AnalogPairs(p)
      outputs == ByIndex(AllAo(p))
      output(a) == outputs[pairs.toAo[a.index]]
      paired(a) == a.index \in DOMAIN pairs.toAo /\ pairs.toAo[a.index] \in DOMAIN outputs
  IN  /\ \A o \in DOMAIN pairs.toAi : pairs.toAo[pairs.toAi[o]] = o
      /\ \A a \in ToSet(BaseAi(p)) :
           paired(a) => ScalingOf(output(a)) = ScalingOf(a) /\ output(a).off = a.off /\ a.mult \in 1..Unit
      /\ \A kind \in EntryKinds :
           /\ p.ai[kind] # <<>> /\ Len(p.ai[kind]) < MaxEntries
           /\ SelectorOf[kind] \in DOMAIN outputs
           /\ \A r \in ToSet(p.ai[kind]) : \A a \in ToSet(r) :
                kind = "curve" \/ a.ao # None => paired(a) /\ output(a).min <= a.min /\ a.max <= output(a).max

\* The tests whose points the profile has, outputs with their inputs.
Covered(p) ==
  LET ai == Indices(AllAi(p))
      bi == Indices(AllBi(p))
      ao == DOMAIN AnalogPairs(p).toAi
      toBi == BinaryPairs(p).toBi
      bo == {o \in DOMAIN toBi : toBi[o] \in bi}
  IN  {t \in DOMAIN ConformanceTests :
         LET test == ConformanceTests[t] IN
         test.ai \subseteq ai /\ test.bi \subseteq bi /\ test.ao \subseteq ao /\ test.bo \subseteq bo}

\* The two values of a curve or schedule that cannot be sent: the smallest is
\* passed over, and the largest refused once the outputs have made room.
AtLimit(p) ==
  \E kind \in EntryKinds : \E r \in ToSet(p.ai[kind]) : \E a \in ToSet(r) : Raw(a) \in {MinI32, MaxI32}

\* The tests it covers end as the web server has announced.
AsExpected(outcome) == \A t \in Covered(profile) : Passes(outcome, t) <=> Expects(scenario, t, Full)

\* What the web server promises of each scenario when it starts, from the full
\* profile, is what comes of it for every profile that fits together.
ExpectationsMet ==
  stage = "updated" /\ scenario \notin {Functional, FunctionalRepeat}
    /\ ~AtLimit(current) /\ FitsTogether(profile) => AsExpected(Outcome(base, current))

\* A workbook that is uploaded is loaded or refused; the loader does not unwind.
NoPanic == profile # Panic
=============================================================================
