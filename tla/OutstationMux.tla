---------------------------- MODULE OutstationMux ----------------------------
(***************************************************************************)
(* The analog outputs of the reference outstation and the databases of       *)
(* curves and schedules behind them (reference_outstation/src/outstation.rs, *)
(* database.rs, state.rs, main.rs).                                         *)
(*                                                                         *)
(* Two tasks: the session of the DNP3 library, which operates one output at  *)
(* a time, and the reader of stdin, which loads a scenario.  They share the  *)
(* points (a transaction of the library each), the databases and the         *)
(* profile (a lock each): a step is what one transaction or lock covers.     *)
(***************************************************************************)
EXTENDS EntryDatabase, Integers, FiniteSets

CONSTANTS
  Scenarios,  \* names of scenarios
  Profile,    \* [Scenarios -> [SUBSET Kind -> Seq(entry)]], an entry gives its points values
  Bounds,     \* [Scenarios -> [{"selector", "data"} -> <<minimum, maximum>>]]
  First,      \* the scenario the outstation is started with
  MostEntries, \* the limit of a database whatever the profile: 100 in the code
  Width,      \* how many numbers a selector has once narrowed: 2^16 in the code
  Values,     \* what a control station writes, and profiles hold
  MostLoads   \* how often a scenario may be loaded

ASSUME ProfileAssumption ==
  \A s \in Scenarios : \A k \in DOMAIN Profile[s] :
    /\ k \in Kind
    /\ Profile[s][k] \in Seq({Profile[s][k][n] : n \in DOMAIN Profile[s][k]})
    /\ \A n \in DOMAIN Profile[s][k] :
         /\ DOMAIN Profile[s][k][n] = DOMAIN Profile[s][k][1]
         /\ \E slots \in {{}, {1}, {1, 2}} : DOMAIN Profile[s][k][n] \subseteq FieldsOf(k, slots)
         /\ Profile[s][k][n] \in [DOMAIN Profile[s][k][n] -> Values \cup {0}]

\* No number of a database is lost when a selector is narrowed.
ASSUME StartAssumption ==
  /\ First \in Scenarios /\ Values \subseteq Int
  /\ {MostEntries, Width, MostLoads} \subseteq Nat /\ 0 < MostEntries /\ MostEntries < Width

VARIABLES
  ai,         \* the analog inputs the outstation has, and their values
  ao,         \* the analog outputs it has (the values of their statuses are left out)
  dbs,        \* one database per kind
  profile,    \* the scenario whose profile is in use
  index,      \* the scenario whose profile index is in use
  received,   \* received_ao_indices
  violations, \* the outputs ao_range_violations has an entry for
  session,    \* what the session task is doing
  loading,    \* what the stdin task is doing
  loads       \* how many scenarios were loaded

vars == <<ai, ao, dbs, profile, index, received, violations, session, loading, loads>>

\* An output is named by the input that reads it back: the selector of a kind,
\* or a point of its entries.
Selector(k) == <<k, "selector", 0>>
Data(k, p) == <<k, p[1], p[2]>>
PointOf(port) == <<port[2], port[3]>>
IsSelector(port) == port[2] = "selector"

Entries(s, k) == IF k \in DOMAIN Profile[s] THEN Profile[s][k] ELSE <<>>

Ports(s) ==
  UNION {{Selector(k)} \cup
         (IF Entries(s, k) = <<>> THEN {}
          ELSE {Data(k, p) : p \in DOMAIN Entries(s, k)[1]}) : k \in DOMAIN Profile[s]}

AllPorts == UNION {Ports(s) : s \in Scenarios}

BoundsOf(s, port) == Bounds[s][IF IsSelector(port) THEN "selector" ELSE "data"]

-----------------------------------------------------------------------------
(* The points of a profile (init_database).                                *)

\* Selectors have a value of their own, 0; curves and schedules show the first
\* entry.
InitialInputs(s) ==
  [port \in Ports(s) |->
     IF IsSelector(port) THEN 0 ELSE Entries(s, port[1])[1][PointOf(port)]]

\* The library ignores an update of a point that is not there.
MutUpdateAdds(points, new) ==
  [port \in DOMAIN points \cup DOMAIN new |->
     IF port \in DOMAIN new THEN new[port] ELSE points[port]]
Update(points, new) ==
  [port \in DOMAIN points |-> IF port \in DOMAIN new THEN new[port] ELSE points[port]]

\* Loading a scenario keeps the limits of start-up.
Limit == Limits(Profile[First], MostEntries)

CurveDatabase(s) == FromProfile(Entries(s, "curve"), Limit["curve"])
ScheduleBCDatabase(s) == FromProfile(Entries(s, "schedule_bc"), Limit["schedule_bc"])
ScheduleDatabase(s) == FromProfile(Entries(s, "schedule"), Limit["schedule"])

Idle == [at |-> "idle"]

Init ==
  /\ profile = First
  /\ index = profile
  /\ ai = InitialInputs(profile)
  /\ ao = Ports(profile)
  /\ dbs = [curve |-> CurveDatabase(profile), schedule_bc |-> ScheduleBCDatabase(profile),
            schedule |-> ScheduleDatabase(profile)]
  /\ received = {}
  /\ violations = {}
  /\ session = Idle
  /\ loading = Idle
  /\ loads = 0

-----------------------------------------------------------------------------
(* Operating an output, as the shipped configuration does (Success).        *)

\* The write is recorded even when its value is out of bounds and refused; an
\* output the profile does not have is accepted.
Operate(port, v) ==
  LET known == port \in Ports(index)
      refused == known /\ ~(BoundsOf(index, port)[1] <= v /\ v <= BoundsOf(index, port)[2]) IN
  /\ session = Idle
  /\ received' = received \cup {port}
  /\ violations' = IF refused THEN violations \cup {port} ELSE violations
  /\ session' = IF refused THEN Idle ELSE [at |-> "feedback", port |-> port, value |-> v]
  /\ UNCHANGED <<ai, ao, dbs, profile, index, loading, loads>>

\* The profile tells which input reads the output back.
Feedback ==
  LET known == session.port \in Ports(index) IN
  /\ session.at = "feedback"
  /\ ai' = IF known THEN Update(ai, [p \in {session.port} |-> session.value]) ELSE ai
  /\ session' = IF known THEN [session EXCEPT !.at = "mux"] ELSE Idle
  /\ UNCHANGED <<ao, dbs, profile, index, received, violations, loading, loads>>

\* A selector, narrowed to 16 bits, selects an entry, to be published; any
\* other point of the database is stored in the current one.
Mux(k) ==
  LET n == session.value % Width
      select == IsSelector(session.port)
      found == select /\ Selectable(dbs[k], n) IN
  /\ session.at = "mux" /\ session.port[1] = k
  /\ dbs' = [dbs EXCEPT ![k] =
               IF select THEN SetActive(@, n)
               ELSE IF PointOf(session.port) \in Template(@)
                    THEN UpdateValue(@, PointOf(session.port), session.value)
                    ELSE @]
  /\ session' = IF found THEN [at |-> "publish", kind |-> k, points |-> dbs'[k].points] ELSE Idle
  /\ UNCHANGED <<ai, ao, profile, index, received, violations, loading, loads>>

MuxCurve == Mux("curve")
MuxScheduleBC == Mux("schedule_bc")
MuxSchedule == Mux("schedule")

MutPublishNonZero ==
  /\ session.at = "publish"
  /\ ai' = [port \in DOMAIN ai |->
              IF port[1] = session.kind /\ PointOf(port) \in DOMAIN session.points
                 /\ session.points[PointOf(port)] # 0
              THEN session.points[PointOf(port)] ELSE ai[port]]
  /\ session' = Idle
  /\ UNCHANGED <<ao, dbs, profile, index, received, violations, loading, loads>>

\* What the selected entry holds becomes what the inputs say.
Publish ==
  /\ session.at = "publish"
  /\ ai' = [port \in DOMAIN ai |->
              IF port[1] = session.kind /\ PointOf(port) \in DOMAIN session.points
              THEN session.points[PointOf(port)] ELSE ai[port]]
  /\ session' = Idle
  /\ UNCHANGED <<ao, dbs, profile, index, received, violations, loading, loads>>

-----------------------------------------------------------------------------
(* Loading a scenario.                                                     *)

\* The points of the old profile are removed in one transaction,
RemovePoints ==
  /\ loading = Idle
  /\ \E s \in Scenarios \ {profile} : loading' = [at |-> "add", to |-> s]
  /\ ai' = [port \in DOMAIN ai \ Ports(profile) |-> ai[port]]
  /\ ao' = ao \ Ports(profile)
  /\ loads < MostLoads /\ loads' = loads + 1
  /\ UNCHANGED <<dbs, profile, index, received, violations, session>>

\* and those of the new one are added in a second (a third sets the statuses).
AddPoints ==
  /\ loading.at = "add"
  /\ ai' = [port \in DOMAIN ai \cup Ports(loading.to) |->
             IF port \in Ports(loading.to) THEN InitialInputs(loading.to)[port] ELSE ai[port]]
  /\ ao' = ao \cup Ports(loading.to)
  /\ loading' = [loading EXCEPT !.at = "curve"]
  /\ UNCHANGED <<dbs, profile, index, received, violations, session, loads>>

\* The databases follow, with the limits of start-up.
ReplaceCurves ==
  /\ loading.at = "curve"
  /\ dbs' = [dbs EXCEPT !["curve"] = CurveDatabase(loading.to)]
  /\ loading' = [loading EXCEPT !.at = "schedule_bc"]
  /\ UNCHANGED <<ai, ao, profile, index, received, violations, session, loads>>

ReplaceSchedulesBC ==
  /\ loading.at = "schedule_bc"
  /\ dbs' = [dbs EXCEPT !["schedule_bc"] = ScheduleBCDatabase(loading.to)]
  /\ loading' = [loading EXCEPT !.at = "schedule"]
  /\ UNCHANGED <<ai, ao, profile, index, received, violations, session, loads>>

ReplaceSchedules ==
  /\ loading.at = "schedule"
  /\ dbs' = [dbs EXCEPT !["schedule"] = ScheduleDatabase(loading.to)]
  /\ loading' = [loading EXCEPT !.at = "profile"]
  /\ UNCHANGED <<ai, ao, profile, index, received, violations, session, loads>>

SwapProfile ==
  /\ loading.at = "profile"
  /\ profile' = loading.to
  /\ loading' = [loading EXCEPT !.at = "index"]
  /\ UNCHANGED <<ai, ao, dbs, index, received, violations, session, loads>>

SwapIndex ==
  /\ loading.at = "index"
  /\ index' = loading.to
  /\ loading' = [loading EXCEPT !.at = "clear"]
  /\ UNCHANGED <<ai, ao, dbs, profile, received, violations, session, loads>>

\* The tracking of the last scenario is forgotten (two locks, which only the
\* checks of the outstation read together).
ClearTracking ==
  /\ loading.at = "clear"
  /\ received' = {}
  /\ violations' = {}
  /\ loading' = Idle
  /\ UNCHANGED <<ai, ao, dbs, profile, index, session, loads>>

Session ==
  \/ \E port \in AllPorts, v \in Values : Operate(port, v)
  \/ Feedback \/ MuxCurve \/ MuxScheduleBC \/ MuxSchedule \/ Publish

Load ==
  \/ RemovePoints \/ AddPoints \/ ReplaceCurves \/ ReplaceSchedulesBC
  \/ ReplaceSchedules \/ SwapProfile \/ SwapIndex \/ ClearTracking

Next == Session \/ Load

Spec == Init /\ [][Next]_vars

-----------------------------------------------------------------------------
(* Properties.                                                             *)

\* The steps of the two tasks, and databases that keep the limits of start-up.
TypeOK ==
  /\ {profile, index} \subseteq Scenarios
  /\ DOMAIN ai \cup ao \cup received \cup violations \subseteq AllPorts
  /\ DOMAIN dbs = Kind /\ \A k \in Kind : dbs[k].max = Limit[k]
  /\ \/ session = Idle
     \/ session \in [at : {"feedback", "mux"}, port : AllPorts, value : Values]
     \/ session \in [at : {"publish"}, kind : Kind, points : {session.points}]
  /\ \/ loading = Idle
     \/ loading \in [at : {"add", "curve", "schedule_bc", "schedule", "profile", "index", "clear"},
                     to : Scenarios]
  /\ loads \in 0 .. MostLoads

\* The list of points a database hands out is what its current entry holds,
\* however selecting, writing and loading alternate (indexed_db.rs keeps it as a
\* second copy).
CacheAgrees ==
  \A k \in Kind :
    dbs[k].current \in DOMAIN dbs[k].entries =>
      dbs[k].points = dbs[k].entries[dbs[k].current].value

\* A point of an entry shows, between two operations, what the entry last
\* selected holds: selecting writes the entry over the inputs and writing stores
\* the input in the entry.  As long as no scenario is loaded in the meantime.
WindowShowsActive ==
  session = Idle /\ loads = 0 =>
    \A k \in Kind : \A p \in DOMAIN dbs[k].points :
      Data(k, p) \in DOMAIN ai => ai[Data(k, p)] = dbs[k].points[p]

\* A selector that reads back as a number of its database names the active entry:
\* what is written next goes where the reader believes (outstation.rs:246 says so
\* of every number; one out of range is read back and selects nothing, or an entry
\* of its low 16 bits).  As long as no scenario is loaded, which shows 0.
SelectorNamesActive ==
  session = Idle /\ loads = 0 =>
    \A k \in Kind :
      Selector(k) \in DOMAIN ai /\ ai[Selector(k)] \in 1 .. dbs[k].max =>
        ai[Selector(k)] = dbs[k].current

\* After a scenario has been loaded the outstation has exactly the points of its
\* profile, whatever was operated or published while it was loaded.
PointsFollowProfile ==
  loading = Idle => DOMAIN ai = Ports(profile) /\ ao = Ports(profile)

\* The databases are a store of entries with a window on the active one.
Filled == {k \in Kind : \A s \in Scenarios : Entries(s, k) # <<>>}
Stored(k, n) ==
  IF n \in DOMAIN dbs[k].entries
  THEN dbs[k].entries[n].value
  ELSE [p \in DOMAIN dbs[k].entries[1].value |-> 0]

Store == INSTANCE EntryStore WITH
  Kinds <- Filled,
  Numbers <- [k \in Filled |-> 1 .. Limit[k]],
  Contents <- [k \in Filled |->
                 UNION {[DOMAIN Entries(s, k)[1] -> Values \cup {0}] : s \in Scenarios}],
  store <- [k \in Filled |-> [n \in 1 .. Limit[k] |-> Stored(k, n)]],
  active <- [k \in Filled |-> dbs[k].current],
  window <- [k \in Filled |-> dbs[k].points]

\* Multiplexing keeps entries apart: a step selects, writes one point of the
\* active entry, or replaces a whole database.
ImplementsStore == Store!Spec

=============================================================================
