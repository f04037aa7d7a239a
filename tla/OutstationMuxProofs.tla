------------------------- MODULE OutstationMuxProofs -------------------------
(***************************************************************************)
(* Proofs about OutstationMux, for any profiles, bounds, limits and values *)
(* and any number of scenarios loaded.                                     *)
(***************************************************************************)
EXTENDS OutstationMux, TLAPS

-----------------------------------------------------------------------------
(* Points and ports.                                                       *)

\* A field and its slot; no field of an entry is called a selector.
IsPoint(p) == p = <<p[1], p[2]>> /\ p[1] # "selector"

\* Whatever its slots, a kind has points only.
LEMMA FieldsArePoints ==
  ASSUME NEW k \in Kind, NEW slots, NEW p \in FieldsOf(k, slots)
  PROVE  IsPoint(p)
<1>1. CASE k = "curve"
  BY <1>1 DEF FieldsOf, CurvePoints, CurveFields, IsPoint
<1>2. CASE k = "schedule_bc"
  BY <1>2 DEF FieldsOf, ScheduleBCPoints, ScheduleBCFields, IsPoint
<1>3. CASE k = "schedule"
  BY <1>3 DEF FieldsOf, SchedulePoints, ScheduleFields, IsPoint
<1>4. QED
  BY <1>1, <1>2, <1>3 DEF Kind

\* The entries of a profile are numbered from 1 and share their points.
LEMMA EntriesShareTheirPoints ==
  ASSUME NEW s \in Scenarios, NEW k \in Kind
  PROVE  /\ Entries(s, k) = <<>> \/ 1 \in DOMAIN Entries(s, k)
         /\ Len(Entries(s, k)) \in Nat
         /\ Len(Entries(s, k)) > 0 => 1 \in DOMAIN Entries(s, k)
         /\ \A n \in DOMAIN Entries(s, k) :
              /\ DOMAIN Entries(s, k)[n] = DOMAIN Entries(s, k)[1]
              /\ \A p \in DOMAIN Entries(s, k)[n] : IsPoint(p)
<1>1. CASE k \in DOMAIN Profile[s]
  <2>1. Entries(s, k) \in Seq({Profile[s][k][n] : n \in DOMAIN Profile[s][k]})
    BY <1>1, ProfileAssumption DEF Entries
  <2>2. ASSUME NEW n \in DOMAIN Entries(s, k)
        PROVE  /\ DOMAIN Entries(s, k)[n] = DOMAIN Entries(s, k)[1]
               /\ \A p \in DOMAIN Entries(s, k)[n] : IsPoint(p)
    <3>1. PICK slots \in {{}, {1}, {1, 2}} : DOMAIN Profile[s][k][n] \subseteq FieldsOf(k, slots)
      BY <1>1, <2>2, ProfileAssumption DEF Entries
    <3>2. \A p \in DOMAIN Entries(s, k)[n] : IsPoint(p)
      BY <1>1, <3>1, FieldsArePoints DEF Entries
    <3>3. DOMAIN Entries(s, k)[n] = DOMAIN Entries(s, k)[1]
      BY <1>1, <2>2, ProfileAssumption DEF Entries
    <3>4. QED
      BY <3>2, <3>3
  <2>3. QED
    BY <2>1, <2>2
<1>2. CASE k \notin DOMAIN Profile[s]
  BY <1>2 DEF Entries
<1>3. QED
  BY <1>1, <1>2

\* A port is the selector of its kind or one of its points.
LEMMA PortsHaveOneName ==
  ASSUME NEW port \in AllPorts
  PROVE  /\ port[1] \in Kind
         /\ \/ IsSelector(port) /\ port = Selector(port[1])
            \/ ~IsSelector(port) /\ port = Data(port[1], PointOf(port)) /\ IsPoint(PointOf(port))
<1>1. PICK s \in Scenarios : port \in Ports(s)
  BY DEF AllPorts
<1>2. PICK k \in DOMAIN Profile[s] :
        port \in {Selector(k)} \cup
                 (IF Entries(s, k) = <<>> THEN {} ELSE {Data(k, p) : p \in DOMAIN Entries(s, k)[1]})
  BY <1>1 DEF Ports
<1>3. k \in Kind
  BY <1>2, ProfileAssumption
<1>4. CASE port = Selector(k)
  BY <1>3, <1>4 DEF Selector, IsSelector
<1>5. CASE Entries(s, k) # <<>> /\ \E p \in DOMAIN Entries(s, k)[1] : port = Data(k, p)
  <2>1. PICK p \in DOMAIN Entries(s, k)[1] : port = Data(k, p)
    BY <1>5
  <2>2. IsPoint(p)
    BY <1>3, <1>5, <2>1, EntriesShareTheirPoints
  <2>3. QED
    BY <1>3, <2>1, <2>2 DEF Data, PointOf, IsSelector, IsPoint
<1>6. QED
  BY <1>2, <1>4, <1>5

\* The limits of start-up are those of the profile, or the most a database has.
LEMMA LimitsAreNarrow ==
  ASSUME NEW k \in Kind
  PROVE  /\ Limit[k] \in Nat /\ Limit[k] < Width
         /\ Limit[k] > 0 => 1 \in DOMAIN Entries(First, k)
<1>1. First \in Scenarios /\ MostEntries \in Nat /\ Width \in Nat /\ MostEntries < Width
  BY StartAssumption
<1>2. Limit[k] = IF k \notin DOMAIN Profile[First] THEN 0
                 ELSE IF Len(Profile[First][k]) <= MostEntries
                      THEN Len(Profile[First][k]) ELSE MostEntries
  BY DEF Limit, Limits
<1>3. CASE k \in DOMAIN Profile[First]
  <2>1. Entries(First, k) = Profile[First][k]
    BY <1>3 DEF Entries
  <2>2. QED
    BY <1>1, <1>2, <1>3, <2>1, EntriesShareTheirPoints
<1>4. CASE k \notin DOMAIN Profile[First]
  BY <1>1, <1>2, <1>4
<1>5. QED
  BY <1>3, <1>4

-----------------------------------------------------------------------------
(* Databases.                                                              *)

\* A database: all its entries have the same points, it has none or the current
\* one and the first, and the list of points is what the current one holds.
WellFormed(db) ==
  /\ DOMAIN db = {"entries", "points", "current", "max"}
  /\ DOMAIN db.entries = {} => DOMAIN db.points = {}
  /\ DOMAIN db.entries # {} => {1, db.current} \subseteq DOMAIN db.entries
  /\ \A n \in DOMAIN db.entries :
       /\ DOMAIN db.entries[n].value = DOMAIN db.entries[1].value
       /\ \A p \in DOMAIN db.entries[n].value : IsPoint(p)
  /\ db.current \in DOMAIN db.entries => db.points = db.entries[db.current].value

\* What from_profile makes is well-formed.
LEMMA ProfilesMakeDatabases ==
  ASSUME NEW s \in Scenarios, NEW k \in Kind, NEW max
  PROVE  /\ WellFormed(FromProfile(Entries(s, k), max))
         /\ FromProfile(Entries(s, k), max).max = max
         /\ DOMAIN FromProfile(Entries(s, k), max).entries = DOMAIN Entries(s, k)
         /\ FromProfile(Entries(s, k), max).points =
              IF Entries(s, k) = <<>> THEN NoPoints ELSE Entries(s, k)[1]
<1> DEFINE es == Entries(s, k)
           db == FromProfile(es, max)
<1>1. db = [entries |-> [n \in DOMAIN es |-> EntryOf(es[n])],
            points |-> IF es = <<>> THEN NoPoints ELSE es[1], current |-> 1, max |-> max]
  BY DEF FromProfile
<1>2. /\ DOMAIN db = {"entries", "points", "current", "max"}
      /\ db.max = max /\ db.current = 1
      /\ DOMAIN db.entries = DOMAIN es
      /\ \A n \in DOMAIN es : db.entries[n].value = es[n]
      /\ db.points = IF es = <<>> THEN NoPoints ELSE es[1]
  BY <1>1 DEF EntryOf
<1>3. DOMAIN NoPoints = {}
  BY DEF NoPoints
<1>4. /\ es = <<>> \/ 1 \in DOMAIN es
      /\ \A n \in DOMAIN es : DOMAIN es[n] = DOMAIN es[1] /\ \A p \in DOMAIN es[n] : IsPoint(p)
  BY EntriesShareTheirPoints
<1>5. es = <<>> => DOMAIN es = {}
  OBVIOUS
<1> HIDE DEF es, db
<1>6. QED
  BY <1>2, <1>3, <1>4, <1>5 DEF WellFormed, es, db

\* Selecting keeps a database well-formed.
LEMMA SelectingKeepsDatabases ==
  ASSUME NEW db, NEW n, WellFormed(db)
  PROVE  /\ WellFormed(SetActive(db, n))
         /\ SetActive(db, n).max = db.max
         /\ 1 \in DOMAIN db.entries => 1 \in DOMAIN SetActive(db, n).entries
         /\ SetActive(db, n).current = IF Selectable(db, n) THEN n ELSE db.current
<1>1. CASE ~Selectable(db, n)
  BY <1>1 DEF SetActive
<1>2. CASE Selectable(db, n)
  <2> DEFINE es == WithEntry(db, n)
             new == SetActive(db, n)
  <2>1. new = [db EXCEPT !.entries = es, !.points = es[n].value, !.current = n]
    BY <1>2 DEF SetActive
  <2>2. /\ DOMAIN new = {"entries", "points", "current", "max"}
        /\ new.entries = es /\ new.points = es[n].value /\ new.current = n /\ new.max = db.max
    BY <2>1 DEF WellFormed
  <2>3. 1 \in DOMAIN db.entries
    BY <1>2 DEF Selectable, WellFormed
  <2>4. /\ DOMAIN es = DOMAIN db.entries \cup {n}
        /\ \A m \in DOMAIN es : DOMAIN es[m].value = DOMAIN db.entries[1].value
    <3>1. CASE n \in DOMAIN db.entries
      BY <3>1, <2>3 DEF WithEntry, WellFormed
    <3>2. CASE n \notin DOMAIN db.entries
      <4>1. es = [m \in DOMAIN db.entries \cup {n} |->
                    IF m = n THEN Blank(db.entries[1]) ELSE db.entries[m]]
        BY <3>2 DEF WithEntry
      <4>2. DOMAIN Blank(db.entries[1]).value = DOMAIN db.entries[1].value
        BY DEF Blank, EntryOf
      <4>3. QED
        BY <4>1, <4>2, <2>3 DEF WellFormed
    <3>3. QED
      BY <3>1, <3>2
  <2>5. \A p \in DOMAIN db.entries[1].value : IsPoint(p)
    BY <2>3 DEF WellFormed
  <2> HIDE DEF es, new
  <2>6. WellFormed(new)
    BY <2>2, <2>3, <2>4, <2>5 DEF WellFormed
  <2>7. QED
    BY <1>2, <2>2, <2>3, <2>4, <2>6 DEF new
<1>3. QED
  BY <1>1, <1>2

\* So does writing a point, which changes that point of the list and no other.
LEMMA WritingKeepsDatabases ==
  ASSUME NEW db, NEW p, NEW v, WellFormed(db)
  PROVE  /\ WellFormed(UpdateValue(db, p, v))
         /\ UpdateValue(db, p, v).max = db.max
         /\ UpdateValue(db, p, v).current = db.current
         /\ DOMAIN UpdateValue(db, p, v).entries = DOMAIN db.entries
         /\ DOMAIN UpdateValue(db, p, v).points = DOMAIN db.points
         /\ \A q \in DOMAIN db.points : UpdateValue(db, p, v).points[q] = IF q = p THEN v ELSE db.points[q]
<1> DEFINE new == UpdateValue(db, p, v)
           cur == db.current
<1>1. CASE ~(cur \in DOMAIN db.entries /\ p \in DOMAIN db.entries[cur].value)
  <2>1. new = db
    BY <1>1 DEF UpdateValue
  <2>2. p \notin DOMAIN db.points
    BY <1>1 DEF WellFormed
  <2>3. QED
    BY <2>1, <2>2
<1>2. CASE cur \in DOMAIN db.entries /\ p \in DOMAIN db.entries[cur].value
  <2>1. db.points = db.entries[cur].value /\ p \in DOMAIN db.points
    BY <1>2 DEF WellFormed
  <2>2. /\ DOMAIN new = {"entries", "points", "current", "max"}
        /\ new.entries = [db.entries EXCEPT ![cur] = Updated(@, p, v)]
        /\ new.points = [db.points EXCEPT ![p] = v]
        /\ new.current = cur /\ new.max = db.max
    BY <1>2, <2>1 DEF UpdateValue, WellFormed
  <2>3. Updated(db.entries[cur], p, v).value = [db.entries[cur].value EXCEPT ![p] = v]
    BY <1>2 DEF Updated
  <2>4. /\ DOMAIN new.entries = DOMAIN db.entries
        /\ \A n \in DOMAIN db.entries : DOMAIN new.entries[n].value = DOMAIN db.entries[n].value
        /\ new.entries[cur].value = [db.points EXCEPT ![p] = v]
    BY <1>2, <2>1, <2>2, <2>3
  <2> HIDE DEF new
  <2>5. WellFormed(new)
    BY <1>2, <2>2, <2>4 DEF WellFormed
  <2>6. QED
    BY <2>1, <2>2, <2>4, <2>5 DEF new
<1>3. QED
  BY <1>1, <1>2

-----------------------------------------------------------------------------
(* Types, databases and points: what holds whatever is loaded.              *)

Databases == \A k \in Kind : WellFormed(dbs[k])

\* How far a load has come with the points, and with the profile that names the
\* points to be removed by the next one.
Has(s) == DOMAIN ai = Ports(s) /\ ao = Ports(s)
PointsOfLoad ==
  /\ loading = Idle => Has(profile)
  /\ loading # Idle /\ loading.at = "add" => DOMAIN ai = {} /\ ao = {}
  /\ loading # Idle /\ loading.at # "add" => Has(loading.to)
  /\ loading # Idle /\ loading.at \in {"index", "clear"} => profile = loading.to

Invariant == TypeOK /\ Databases /\ PointsOfLoad

\* A step of a load knows where the load stands.
LEMMA LoadsAreRecords ==
  ASSUME TypeOK, NEW at, at # "idle", loading.at = at
  PROVE  /\ loading # Idle /\ loading.to \in Scenarios
         /\ loading \in [at : {"add", "curve", "schedule_bc", "schedule", "profile", "index", "clear"},
                         to : Scenarios]
BY DEF TypeOK, Idle

\* A scenario has only ports that some scenario has.
LEMMA PortsAreKnown ==
  \A s \in Scenarios : Ports(s) \subseteq AllPorts
BY DEF AllPorts

\* The invariant holds at start-up.
LEMMA InitInvariant == Init => Invariant
<1> SUFFICES ASSUME Init PROVE Invariant
  OBVIOUS
<1>1. DOMAIN ai = Ports(First) /\ ao = Ports(First) /\ profile = First /\ index = First
  BY DEF Init, InitialInputs
<1>2. First \in Scenarios /\ 0 \in 0 .. MostLoads
  BY StartAssumption
<1>3. DOMAIN dbs = Kind
  BY DEF Init, Kind
<1>4. \A k \in Kind : WellFormed(dbs[k]) /\ dbs[k].max = Limit[k]
  BY <1>2, ProfilesMakeDatabases
     DEF Init, Kind, CurveDatabase, ScheduleBCDatabase, ScheduleDatabase
<1>5. TypeOK
  BY <1>1, <1>2, <1>3, <1>4, PortsAreKnown DEF Init, TypeOK
<1>6. PointsOfLoad
  BY <1>1 DEF Init, PointsOfLoad, Has
<1>7. QED
  BY <1>4, <1>5, <1>6 DEF Invariant, Databases

\* A step of the session keeps the databases and the names of the points.
LEMMA SessionKeepsInvariant ==
  ASSUME Invariant, Session
  PROVE  Invariant'
<1> USE DEF Invariant
<1>1. ASSUME NEW port \in AllPorts, NEW v \in Values, Operate(port, v) PROVE Invariant'
  <2>1. session' = Idle \/ session' = [at |-> "feedback", port |-> port, value |-> v]
    BY <1>1 DEF Operate
  <2>2. TypeOK'
    BY <1>1, <2>1 DEF Operate, TypeOK
  <2>3. QED
    BY <1>1, <2>2 DEF Operate, Databases, PointsOfLoad, Has
<1>2. CASE Feedback
  <2>1. session \in [at : {"feedback", "mux"}, port : AllPorts, value : Values]
    BY <1>2 DEF Feedback, TypeOK, Idle
  <2>2. DOMAIN ai' = DOMAIN ai
    BY <1>2 DEF Feedback, Update
  <2>3. session' = Idle \/ session' = [session EXCEPT !.at = "mux"]
    BY <1>2 DEF Feedback
  <2>4. session' = Idle \/ session' \in [at : {"feedback", "mux"}, port : AllPorts, value : Values]
    BY <2>1, <2>3
  <2>5. TypeOK'
    BY <1>2, <2>2, <2>4 DEF Feedback, TypeOK
  <2>6. QED
    BY <1>2, <2>2, <2>5 DEF Feedback, Databases, PointsOfLoad, Has
<1>3. ASSUME NEW k \in Kind, Mux(k) PROVE Invariant'
  <2> DEFINE n == session.value % Width
             p == PointOf(session.port)
  <2>1. /\ DOMAIN dbs' = Kind
        /\ \A j \in Kind \ {k} : dbs'[j] = dbs[j]
        /\ \/ dbs'[k] = SetActive(dbs[k], n)
           \/ dbs'[k] = UpdateValue(dbs[k], p, session.value)
           \/ dbs'[k] = dbs[k]
    BY <1>3 DEF Mux, TypeOK
  <2>2. \A j \in Kind : WellFormed(dbs'[j]) /\ dbs'[j].max = Limit[j]
    BY <2>1, SelectingKeepsDatabases, WritingKeepsDatabases DEF Databases, TypeOK
  <2>3. session' = Idle \/ session' = [at |-> "publish", kind |-> k, points |-> dbs'[k].points]
    BY <1>3 DEF Mux
  <2>4. TypeOK'
    BY <1>3, <2>1, <2>2, <2>3 DEF Mux, TypeOK
  <2>5. QED
    BY <1>3, <2>2, <2>4 DEF Mux, Databases, PointsOfLoad, Has
<1>4. CASE Publish
  <2>1. DOMAIN ai' = DOMAIN ai
    BY <1>4 DEF Publish
  <2>2. TypeOK'
    BY <1>4, <2>1 DEF Publish, TypeOK
  <2>3. QED
    BY <1>4, <2>1, <2>2 DEF Publish, Databases, PointsOfLoad, Has
<1>5. QED
  BY <1>1, <1>2, <1>3, <1>4 DEF Session, MuxCurve, MuxScheduleBC, MuxSchedule, Kind

\* So does a step of a load, which takes the points with the profile.
LEMMA LoadKeepsInvariant ==
  ASSUME Invariant, Load
  PROVE  Invariant'
<1> USE DEF Invariant
<1> DEFINE At == [at : {"add", "curve", "schedule_bc", "schedule", "profile", "index", "clear"},
                  to : Scenarios]
<1>1. CASE RemovePoints
  <2>1. PICK s \in Scenarios : loading' = [at |-> "add", to |-> s]
    BY <1>1 DEF RemovePoints
  <2>2. loading' \in At /\ loading' # Idle /\ loading'.at = "add"
    BY <2>1 DEF Idle
  <2>3. DOMAIN ai' = {} /\ ao' = {}
    BY <1>1 DEF RemovePoints, PointsOfLoad, Has
  <2>4. loads' \in 0 .. MostLoads
    BY <1>1, StartAssumption DEF RemovePoints, TypeOK
  <2>5. TypeOK'
    BY <1>1, <2>2, <2>3, <2>4 DEF RemovePoints, TypeOK
  <2>6. PointsOfLoad'
    BY <2>2, <2>3 DEF PointsOfLoad
  <2>7. QED
    BY <1>1, <2>5, <2>6 DEF RemovePoints, Databases
<1>2. CASE AddPoints
  <2>1. loading \in At /\ loading # Idle
    BY <1>2, LoadsAreRecords DEF AddPoints
  <2>2. loading' = [loading EXCEPT !.at = "curve"]
    BY <1>2 DEF AddPoints
  <2>3. loading' \in At /\ loading' # Idle /\ loading'.at = "curve" /\ loading'.to = loading.to
    BY <2>1, <2>2 DEF Idle
  <2>4. DOMAIN ai' = Ports(loading.to) /\ ao' = Ports(loading.to)
    BY <1>2, <2>1 DEF AddPoints, PointsOfLoad
  <2>5. TypeOK'
    BY <1>2, <2>1, <2>3, <2>4, PortsAreKnown DEF AddPoints, TypeOK
  <2>6. PointsOfLoad'
    BY <2>3, <2>4 DEF PointsOfLoad, Has
  <2>7. QED
    BY <1>2, <2>5, <2>6 DEF AddPoints, Databases
<1>3. ASSUME NEW k \in Kind, NEW at \in {"curve", "schedule_bc", "schedule"},
             NEW next \in {"schedule_bc", "schedule", "profile"},
             loading.at = at,
             dbs' = [dbs EXCEPT ![k] = FromProfile(Entries(loading.to, k), Limit[k])],
             loading' = [loading EXCEPT !.at = next],
             UNCHANGED <<ai, ao, profile, index, received, violations, session, loads>>
      PROVE  Invariant'
  <2>1. loading \in At /\ loading # Idle
    BY <1>3, LoadsAreRecords
  <2>2. loading' \in At /\ loading' # Idle /\ loading'.at = next /\ loading'.to = loading.to
    BY <1>3, <2>1 DEF Idle
  <2>3. DOMAIN dbs' = Kind /\ \A j \in Kind : WellFormed(dbs'[j]) /\ dbs'[j].max = Limit[j]
    BY <1>3, <2>1, ProfilesMakeDatabases DEF Databases, TypeOK
  <2>4. TypeOK'
    BY <1>3, <2>2, <2>3 DEF TypeOK
  <2>5. PointsOfLoad'
    BY <1>3, <2>1, <2>2 DEF PointsOfLoad, Has
  <2>6. QED
    BY <2>3, <2>4, <2>5 DEF Databases
<1>4. CASE SwapProfile
  <2>1. loading \in At /\ loading # Idle
    BY <1>4, LoadsAreRecords DEF SwapProfile
  <2>2. loading' \in At /\ loading' # Idle /\ loading'.at = "index" /\ loading'.to = loading.to
    BY <1>4, <2>1 DEF SwapProfile, Idle
  <2>3. TypeOK'
    BY <1>4, <2>1, <2>2 DEF SwapProfile, TypeOK
  <2>4. PointsOfLoad'
    BY <1>4, <2>1, <2>2 DEF SwapProfile, PointsOfLoad, Has
  <2>5. QED
    BY <1>4, <2>3, <2>4 DEF SwapProfile, Databases
<1>5. CASE SwapIndex
  <2>1. loading \in At /\ loading # Idle
    BY <1>5, LoadsAreRecords DEF SwapIndex
  <2>2. loading' \in At /\ loading' # Idle /\ loading'.at = "clear" /\ loading'.to = loading.to
    BY <1>5, <2>1 DEF SwapIndex, Idle
  <2>3. TypeOK'
    BY <1>5, <2>1, <2>2 DEF SwapIndex, TypeOK
  <2>4. PointsOfLoad'
    BY <1>5, <2>1, <2>2 DEF SwapIndex, PointsOfLoad, Has
  <2>5. QED
    BY <1>5, <2>3, <2>4 DEF SwapIndex, Databases
<1>6. CASE ClearTracking
  <2>1. loading \in At /\ loading # Idle
    BY <1>6, LoadsAreRecords DEF ClearTracking
  <2>2. TypeOK'
    BY <1>6 DEF ClearTracking, TypeOK
  <2>3. PointsOfLoad'
    BY <1>6, <2>1 DEF ClearTracking, PointsOfLoad, Has
  <2>4. QED
    BY <1>6, <2>2, <2>3 DEF ClearTracking, Databases
<1>7. CASE ReplaceCurves
  BY <1>3, <1>7 DEF ReplaceCurves, CurveDatabase, Kind
<1>8. CASE ReplaceSchedulesBC
  BY <1>3, <1>8 DEF ReplaceSchedulesBC, ScheduleBCDatabase, Kind
<1>9. CASE ReplaceSchedules
  BY <1>3, <1>9 DEF ReplaceSchedules, ScheduleDatabase, Kind
<1>10. QED
  BY <1>1, <1>2, <1>4, <1>5, <1>6, <1>7, <1>8, <1>9 DEF Load

\* The invariant of the outstation.
LEMMA InvariantHolds == Spec => []Invariant
<1>1. ASSUME Invariant, [Next]_vars PROVE Invariant'
  <2>1. CASE UNCHANGED vars
    BY <1>1, <2>1 DEF Invariant, TypeOK, Databases, PointsOfLoad, Has, vars
  <2>2. QED
    BY <1>1, <2>1, SessionKeepsInvariant, LoadKeepsInvariant DEF Next
<1>2. QED
  BY <1>1, InitInvariant, PTL DEF Spec

\* Every variable of the outstation keeps its type, and every database the limit
\* of start-up.
THEOREM TypeCorrect == Spec => []TypeOK
BY InvariantHolds, PTL DEF Invariant

\* However selecting, writing and loading alternate, the second copy of the active
\* entry that a database hands out is what the entry holds.
THEOREM CachesAgree == Spec => []CacheAgrees
<1>1. Invariant => CacheAgrees
  BY DEF Invariant, Databases, WellFormed, CacheAgrees
<1>2. QED
  BY <1>1, InvariantHolds, PTL

\* Whatever was operated or published while scenarios were loaded, the outstation
\* has the points of its profile and no other once a load has ended.
THEOREM PointsFollow == Spec => []PointsFollowProfile
<1>1. Invariant => PointsFollowProfile
  BY DEF Invariant, PointsOfLoad, Has, PointsFollowProfile
<1>2. QED
  BY <1>1, InvariantHolds, PTL

-----------------------------------------------------------------------------
(* What the inputs show, as long as no scenario is loaded.                  *)

\* The input that an operate is about to change, between the feedback and the
\* step that stores it; and the kind whose points are about to be published.
Changing(port) == session.at = "mux" /\ session.port = port
Publishing(k) == session.at = "publish" /\ session.kind = k

Named(k) ==
  ~Changing(Selector(k)) /\ Selector(k) \in DOMAIN ai /\ ai[Selector(k)] \in 1 .. dbs[k].max =>
    ai[Selector(k)] = dbs[k].current

Shown(k) ==
  \A p \in DOMAIN dbs[k].points :
    ~Publishing(k) /\ ~Changing(Data(k, p)) /\ Data(k, p) \in DOMAIN ai =>
      ai[Data(k, p)] = dbs[k].points[p]

Untouched ==
  loads = 0 =>
    /\ loading = Idle /\ index = First /\ profile = First
    /\ session.at = "mux" => session.port \in DOMAIN ai /\ ai[session.port] = session.value
    /\ session.at = "publish" => session.points = dbs[session.kind].points
    /\ \A k \in Kind : Limit[k] > 0 => 1 \in DOMAIN dbs[k].entries
    /\ \A k \in Kind : Named(k) /\ Shown(k)

\* The points of a database are points: no selector is among them.
LEMMA DatabasesHavePoints ==
  ASSUME NEW db, WellFormed(db), NEW p \in DOMAIN db.points
  PROVE  IsPoint(p)
BY DEF WellFormed

\* The list of points is that of the template.
LEMMA PointsAreTemplate ==
  ASSUME NEW db, WellFormed(db)
  PROVE  DOMAIN db.points = Template(db)
BY DEF WellFormed, Template

\* It holds at start-up: selectors show 0, points the first entry.
LEMMA InitUntouched == Init => Untouched
<1> SUFFICES ASSUME Init PROVE Untouched
  OBVIOUS
<1>1. Invariant
  BY InitInvariant
<1>2. /\ session = Idle /\ loading = Idle /\ index = First /\ profile = First
      /\ ai = InitialInputs(First)
      /\ session.at = "idle"
  BY DEF Init, Idle
<1>3. First \in Scenarios
  BY StartAssumption
<1>4. ASSUME NEW k \in Kind PROVE dbs[k] = FromProfile(Entries(First, k), Limit[k])
  BY <1>4 DEF Init, Kind, CurveDatabase, ScheduleBCDatabase, ScheduleDatabase
<1>5. ASSUME NEW k \in Kind, Limit[k] > 0 PROVE 1 \in DOMAIN dbs[k].entries
  <2>1. 1 \in DOMAIN Entries(First, k)
    BY <1>5, LimitsAreNarrow
  <2>2. DOMAIN dbs[k].entries = DOMAIN Entries(First, k)
    BY <1>3, <1>4, ProfilesMakeDatabases
  <2>3. QED
    BY <2>1, <2>2
<1>6. ASSUME NEW k \in Kind PROVE Named(k)
  <2>1. Selector(k) \in DOMAIN ai => ai[Selector(k)] = 0
    BY <1>2 DEF InitialInputs, IsSelector, Selector
  <2>2. QED
    BY <2>1 DEF Named
<1>7. ASSUME NEW k \in Kind, NEW p \in DOMAIN dbs[k].points, Data(k, p) \in DOMAIN ai
      PROVE  ai[Data(k, p)] = dbs[k].points[p]
  <2>1. IsPoint(p)
    BY <1>1, DatabasesHavePoints DEF Invariant, Databases
  <2>2. ~IsSelector(Data(k, p)) /\ Data(k, p)[1] = k /\ PointOf(Data(k, p)) = p
    BY <2>1 DEF IsPoint, IsSelector, Data, PointOf
  <2>3. dbs[k].points = Entries(First, k)[1]
    <3>1. dbs[k].points = IF Entries(First, k) = <<>> THEN NoPoints ELSE Entries(First, k)[1]
      BY <1>3, <1>4, ProfilesMakeDatabases
    <3>2. DOMAIN NoPoints = {}
      BY DEF NoPoints
    <3>3. QED
      BY <3>1, <3>2, <1>7
  <2>4. QED
    BY <1>2, <1>7, <2>2, <2>3 DEF InitialInputs
<1>8. QED
  BY <1>2, <1>5, <1>6, <1>7 DEF Untouched, Shown

\* An operate changes no input yet.
LEMMA OperateUntouched ==
  ASSUME Invariant, Untouched, NEW port \in AllPorts, NEW v \in Values, Operate(port, v)
  PROVE  Untouched'
<1>1. session.at = "idle" /\ session'.at \in {"idle", "feedback"}
  BY DEF Operate, Idle
<1>2. UNCHANGED <<ai, dbs, profile, index, loading, loads>>
  BY DEF Operate
<1>3. QED
  BY <1>1, <1>2 DEF Untouched, Named, Shown, Changing, Publishing

\* The feedback changes one input, which is then the one that is changing.
LEMMA FeedbackUntouched ==
  ASSUME Invariant, Untouched, Feedback
  PROVE  Untouched'
<1> SUFFICES ASSUME loads' = 0 PROVE Untouched'
  BY DEF Untouched
<1>1. /\ session \in [at : {"feedback", "mux"}, port : AllPorts, value : Values]
      /\ session.at = "feedback"
  BY DEF Feedback, Invariant, TypeOK, Idle
<1>2. UNCHANGED <<dbs, profile, index, loading, loads>> /\ loads = 0
  BY DEF Feedback
<1>3. CASE session.port \in Ports(index)
  <2>1. ai' = Update(ai, [p \in {session.port} |-> session.value]) /\ session' = [session EXCEPT !.at = "mux"]
    BY <1>3 DEF Feedback
  <2>2. session'.at = "mux" /\ session'.port = session.port /\ session'.value = session.value
    BY <1>1, <2>1
  <2>3. /\ DOMAIN ai' = DOMAIN ai
        /\ \A port \in DOMAIN ai :
             ai'[port] = IF port = session.port THEN session.value ELSE ai[port]
    BY <2>1 DEF Update
  <2>4. session.port \in DOMAIN ai
    BY <1>2, <1>3 DEF Invariant, PointsOfLoad, Has, Untouched
  <2>5. ASSUME NEW k \in Kind PROVE Named(k)' /\ Shown(k)'
    BY <1>1, <1>2, <2>2, <2>3, <2>5 DEF Untouched, Named, Shown, Changing, Publishing
  <2>6. QED
    BY <1>2, <2>2, <2>3, <2>4, <2>5 DEF Untouched
<1>4. CASE session.port \notin Ports(index)
  <2>1. ai' = ai /\ session'.at = "idle"
    BY <1>4 DEF Feedback, Idle
  <2>2. QED
    BY <1>1, <1>2, <2>1 DEF Untouched, Named, Shown, Changing, Publishing
<1>5. QED
  BY <1>3, <1>4

\* The step that multiplexes stores what the input shows, or makes the entry
\* current that the input names.
LEMMA MuxUntouched ==
  ASSUME Invariant, Untouched, NEW k \in Kind, Mux(k)
  PROVE  Untouched'
<1> SUFFICES ASSUME loads' = 0 PROVE Untouched'
  BY DEF Untouched
<1> DEFINE n == session.value % Width
           port == session.port
           p == PointOf(session.port)
           v == session.value
<1>1. /\ port \in AllPorts /\ v \in Int /\ session.at = "mux" /\ port[1] = k
      /\ session \in [at : {"feedback", "mux"}, port : AllPorts, value : Values]
  BY StartAssumption DEF Mux, Invariant, TypeOK, Idle
<1>2. UNCHANGED <<ai, profile, index, loading, loads>> /\ loads = 0
  BY DEF Mux
<1>3. /\ DOMAIN dbs = Kind /\ DOMAIN dbs' = Kind
      /\ \A j \in Kind \ {k} : dbs'[j] = dbs[j]
      /\ WellFormed(dbs[k])
  BY DEF Mux, Invariant, TypeOK, Databases
<1>4. ai[port] = v
  BY <1>1, <1>2 DEF Untouched
<1>5. session'.at = "idle" \/ session' = [at |-> "publish", kind |-> k, points |-> dbs'[k].points]
  BY DEF Mux, Idle
<1>6. ASSUME NEW j \in Kind \ {k} PROVE Named(j)' /\ Shown(j)'
  <2>1. port # Selector(j) /\ \A q : port # Data(j, q)
    BY <1>1, <1>6 DEF Selector, Data
  <2>2. QED
    BY <1>1, <1>2, <1>3, <1>5, <1>6, <2>1 DEF Untouched, Named, Shown, Changing, Publishing
<1>7. /\ Limit[k] > 0 => 1 \in DOMAIN dbs[k].entries
      /\ dbs[k].max = Limit[k] /\ Limit[k] \in Nat /\ Limit[k] < Width
  BY <1>2, LimitsAreNarrow DEF Untouched, Invariant, TypeOK
<1>8. CASE IsSelector(port)
  <2>1. dbs'[k] = SetActive(dbs[k], n) /\ port = Selector(k)
    BY <1>1, <1>3, <1>8, PortsHaveOneName DEF Mux
  <2>2. /\ dbs'[k].max = dbs[k].max
        /\ 1 \in DOMAIN dbs[k].entries => 1 \in DOMAIN dbs'[k].entries
        /\ dbs'[k].current = IF Selectable(dbs[k], n) THEN n ELSE dbs[k].current
    BY <1>3, <2>1, SelectingKeepsDatabases
  <2>3. ASSUME v \in 1 .. dbs[k].max PROVE n = v /\ Selectable(dbs[k], n)
    <3>1. n = v
      BY <1>1, <1>7, <2>3, StartAssumption
    <3>2. QED
      BY <1>7, <2>3, <3>1 DEF Selectable
  <2>4. Named(k)'
    BY <1>2, <1>4, <2>1, <2>2, <2>3 DEF Named
  <2>5. Shown(k)'
    <3>1. CASE Selectable(dbs[k], n)
      <4>1. session'.at = "publish" /\ session'.kind = k
        BY <1>8, <3>1 DEF Mux
      <4>2. QED
        BY <4>1 DEF Shown, Publishing
    <3>2. CASE ~Selectable(dbs[k], n)
      <4>1. dbs'[k] = dbs[k]
        BY <2>1, <3>2 DEF SetActive
      <4>2. \A q \in DOMAIN dbs[k].points : port # Data(k, q)
        BY <1>3, <2>1, DatabasesHavePoints DEF IsPoint, Data, Selector
      <4>3. QED
        BY <1>1, <1>2, <4>1, <4>2 DEF Untouched, Shown, Changing, Publishing
    <3>3. QED
      BY <3>1, <3>2
  <2>6. QED
    BY <1>2, <1>3, <1>5, <1>6, <1>7, <2>2, <2>4, <2>5 DEF Untouched
<1>9. CASE ~IsSelector(port)
  <2>1. port = Data(k, p) /\ IsPoint(p)
    BY <1>1, <1>9, PortsHaveOneName
  <2>2. dbs'[k] = IF p \in Template(dbs[k]) THEN UpdateValue(dbs[k], p, v) ELSE dbs[k]
    BY <1>1, <1>3, <1>9 DEF Mux
  <2>3. session'.at = "idle"
    BY <1>9 DEF Mux, Idle
  <2>4. /\ dbs'[k].current = dbs[k].current /\ dbs'[k].max = dbs[k].max
        /\ DOMAIN dbs'[k].entries = DOMAIN dbs[k].entries
        /\ DOMAIN dbs'[k].points = DOMAIN dbs[k].points
        /\ \A q \in DOMAIN dbs[k].points :
             dbs'[k].points[q] = IF q = p THEN v ELSE dbs[k].points[q]
    BY <1>3, <2>2, WritingKeepsDatabases, PointsAreTemplate
  <2>5. Named(k)'
    <3>1. port # Selector(k)
      BY <1>9 DEF IsSelector, Selector
    <3>2. QED
      BY <1>2, <2>4, <3>1 DEF Untouched, Named, Changing
  <2>6. Shown(k)'
    <3>1. ASSUME NEW q \in DOMAIN dbs[k].points, Data(k, q) \in DOMAIN ai
          PROVE  ai[Data(k, q)] = dbs'[k].points[q]
      <4>1. CASE q = p
        BY <1>4, <2>1, <2>4, <3>1, <4>1
      <4>2. CASE q # p
        <5>1. IsPoint(q)
          BY <1>3, DatabasesHavePoints
        <5>2. port # Data(k, q)
          BY <2>1, <4>2, <5>1 DEF Data, IsPoint
        <5>3. ai[Data(k, q)] = dbs[k].points[q]
          BY <1>1, <1>2, <3>1, <5>2 DEF Untouched, Shown, Changing, Publishing
        <5>4. QED
          BY <2>4, <4>2, <5>3
      <4>3. QED
        BY <4>1, <4>2
    <3>2. QED
      BY <1>2, <2>4, <3>1 DEF Shown
  <2>7. QED
    BY <1>2, <1>3, <1>6, <1>7, <2>3, <2>4, <2>5, <2>6 DEF Untouched
<1>10. QED
  BY <1>8, <1>9

\* Publishing makes the inputs of a kind show its points, and no selector.
LEMMA PublishUntouched ==
  ASSUME Invariant, Untouched, Publish
  PROVE  Untouched'
<1> SUFFICES ASSUME loads' = 0 PROVE Untouched'
  BY DEF Untouched
<1>1. UNCHANGED <<dbs, profile, index, loading, loads>> /\ loads = 0
  BY DEF Publish
<1>2. /\ session.at = "publish" /\ session.kind \in Kind
      /\ session.points = dbs[session.kind].points /\ session'.at = "idle"
  BY <1>1 DEF Publish, Untouched, Invariant, TypeOK, Idle
<1>3. /\ DOMAIN ai' = DOMAIN ai
      /\ \A port \in DOMAIN ai :
           ai'[port] = IF port[1] = session.kind /\ PointOf(port) \in DOMAIN session.points
                       THEN session.points[PointOf(port)] ELSE ai[port]
  BY DEF Publish
<1>4. ASSUME NEW k \in Kind PROVE Named(k)'
  <2>1. Selector(k) \in DOMAIN ai => ai'[Selector(k)] = ai[Selector(k)]
    <3>1. PointOf(Selector(k)) = <<"selector", 0>>
      BY DEF PointOf, Selector
    <3>2. ~IsPoint(<<"selector", 0>>)
      BY DEF IsPoint
    <3>3. PointOf(Selector(k)) \notin DOMAIN session.points
      BY <1>2, <3>1, <3>2, DatabasesHavePoints DEF Invariant, Databases
    <3>4. QED
      BY <1>3, <3>3
  <2>2. QED
    BY <1>1, <1>2, <1>3, <2>1 DEF Untouched, Named, Changing
<1>5. ASSUME NEW k \in Kind, NEW p \in DOMAIN dbs[k].points, Data(k, p) \in DOMAIN ai
      PROVE  ai'[Data(k, p)] = dbs[k].points[p]
  <2>1. IsPoint(p)
    BY DatabasesHavePoints DEF Invariant, Databases
  <2>2. Data(k, p)[1] = k /\ PointOf(Data(k, p)) = p
    BY <2>1 DEF IsPoint, Data, PointOf
  <2>3. QED
    BY <1>1, <1>2, <1>3, <1>5, <2>2 DEF Untouched, Shown, Changing, Publishing
<1>6. QED
  BY <1>1, <1>2, <1>3, <1>4, <1>5 DEF Untouched, Shown

\* Both hold until a scenario is loaded.
LEMMA UntouchedHolds == Spec => [](Invariant /\ Untouched)
<1>1. ASSUME Invariant, Untouched, [Next]_vars PROVE Untouched'
  <2>1. CASE Session
    BY <1>1, <2>1, OperateUntouched, FeedbackUntouched, MuxUntouched, PublishUntouched
       DEF Session, MuxCurve, MuxScheduleBC, MuxSchedule, Kind
  <2>2. CASE RemovePoints
    <3>1. loads' # 0
      BY <1>1, <2>2, StartAssumption DEF RemovePoints, Invariant, TypeOK
    <3>2. QED
      BY <3>1 DEF Untouched
  <2>3. CASE Load /\ ~RemovePoints
    <3>1. loads' = loads /\ loading # Idle
      BY <1>1, <2>3 DEF Load, AddPoints, ReplaceCurves, ReplaceSchedulesBC, ReplaceSchedules,
                        SwapProfile, SwapIndex, ClearTracking, Idle
    <3>2. QED
      BY <1>1, <3>1 DEF Untouched
  <2>4. CASE UNCHANGED vars
    BY <1>1, <2>4 DEF vars, Untouched, Named, Shown, Changing, Publishing
  <2>5. QED
    BY <1>1, <2>1, <2>2, <2>3, <2>4 DEF Next
<1>2. QED
  BY <1>1, InitUntouched, InvariantHolds, PTL DEF Spec

\* Between two operations a point of an entry shows what the active entry holds,
\* for any profile and any order of selecting and writing.
THEOREM WindowsShowActive == Spec => []WindowShowsActive
<1>1. Untouched => WindowShowsActive
  BY DEF Untouched, Shown, Changing, Publishing, WindowShowsActive, Idle
<1>2. QED
  BY <1>1, UntouchedHolds, PTL

\* A selector that reads back as a number of its database names the active entry,
\* although the number is narrowed, because no database is as long as what a
\* narrowed selector can count.
THEOREM SelectorsNameActive == Spec => []SelectorNamesActive
<1>1. Untouched => SelectorNamesActive
  BY DEF Untouched, Named, Changing, SelectorNamesActive, Idle
<1>2. QED
  BY <1>1, UntouchedHolds, PTL

-----------------------------------------------------------------------------
(* What the databases of a filled kind hold: whatever the session and the   *)
(* loads do, the databases of a kind that every scenario has are a store    *)
(* of numbered entries with a window on the active one (EntryStore).        *)

Held(s, k) == [DOMAIN Entries(s, k)[1] -> Values \cup {0}]
ContentsOf(k) == UNION {Held(s, k) : s \in Scenarios}

\* A database of a kind has the entries of some scenario, and those selected
\* since, all of them with its points; the active one has a number in range.
HoldsScenario(db, s, k) ==
  /\ 1 \in DOMAIN db.entries
  /\ db.current \in 1 .. Limit[k]
  /\ \A n \in DOMAIN db.entries : db.entries[n].value \in Held(s, k)

Contained == \A k \in Filled : \E s \in Scenarios : HoldsScenario(dbs[k], s, k)

\* The entry of a number in a database, made or not.
EntryIn(db, n) ==
  IF n \in DOMAIN db.entries THEN db.entries[n].value
  ELSE [p \in DOMAIN db.entries[1].value |-> 0]

\* Every kind that all scenarios fill has a limit of one at least.
LEMMA FilledKinds ==
  ASSUME NEW k \in Filled
  PROVE  k \in Kind /\ Limit[k] \in Nat /\ 1 \in 1 .. Limit[k] /\ Limit[k] < Width
<1>1. First \in Scenarios /\ MostEntries \in Nat /\ 0 < MostEntries
  BY StartAssumption
<1>2. k \in Kind /\ Entries(First, k) # <<>>
  BY <1>1 DEF Filled
<1>3. k \in DOMAIN Profile[First] /\ Entries(First, k) = Profile[First][k]
  BY <1>2 DEF Entries
<1>4. Limit[k] = IF Len(Profile[First][k]) <= MostEntries
                 THEN Len(Profile[First][k]) ELSE MostEntries
  BY <1>2, <1>3 DEF Limit, Limits
<1>5. Profile[First][k] \in Seq({Profile[First][k][n] : n \in DOMAIN Profile[First][k]})
  BY <1>1, <1>3, ProfileAssumption
<1>6. Len(Profile[First][k]) \in Nat \ {0}
  BY <1>2, <1>3, <1>5
<1>7. QED
  BY <1>1, <1>2, <1>4, <1>6, LimitsAreNarrow

\* A profile's entries are contents.
LEMMA EntriesAreHeld ==
  ASSUME NEW s \in Scenarios, NEW k \in Kind, NEW n \in DOMAIN Entries(s, k)
  PROVE  Entries(s, k)[n] \in Held(s, k)
<1>1. k \in DOMAIN Profile[s] /\ Entries(s, k) = Profile[s][k]
  BY DEF Entries
<1>2. Profile[s][k][n] \in [DOMAIN Profile[s][k][n] -> Values \cup {0}]
  BY <1>1, ProfileAssumption
<1>3. DOMAIN Profile[s][k][n] = DOMAIN Profile[s][k][1]
  BY <1>1, ProfileAssumption
<1>4. QED
  BY <1>1, <1>2, <1>3 DEF Held

\* So the database of a profile holds its scenario, and shows its first entry.
LEMMA ProfilesAreHeld ==
  ASSUME NEW s \in Scenarios, NEW k \in Filled
  PROVE  /\ HoldsScenario(FromProfile(Entries(s, k), Limit[k]), s, k)
         /\ FromProfile(Entries(s, k), Limit[k]).current = 1
<1> DEFINE db == FromProfile(Entries(s, k), Limit[k])
<1>1. /\ db.current = 1
      /\ DOMAIN db.entries = DOMAIN Entries(s, k)
      /\ \A n \in DOMAIN Entries(s, k) : db.entries[n].value = Entries(s, k)[n]
  BY DEF FromProfile, EntryOf
<1>2. k \in Kind /\ 1 \in 1 .. Limit[k] /\ Entries(s, k) # <<>>
  BY FilledKinds DEF Filled
<1>3. 1 \in DOMAIN Entries(s, k)
  BY <1>2, EntriesShareTheirPoints
<1>4. \A n \in DOMAIN Entries(s, k) : Entries(s, k)[n] \in Held(s, k)
  BY <1>2, EntriesAreHeld
<1> HIDE DEF db
<1>5. QED
  BY <1>1, <1>2, <1>3, <1>4 DEF HoldsScenario, db

-----------------------------------------------------------------------------
(* The two operations on a database.                                       *)

\* Selecting a number changes no entry, and shows the one selected.
LEMMA SelectingShows ==
  ASSUME NEW db, NEW s \in Scenarios, NEW k \in Filled, NEW n \in Nat,
         WellFormed(db), db.max = Limit[k], HoldsScenario(db, s, k), Selectable(db, n)
  PROVE  /\ n \in 1 .. Limit[k]
         /\ HoldsScenario(SetActive(db, n), s, k)
         /\ SetActive(db, n).current = n
         /\ SetActive(db, n).points = EntryIn(db, n)
         /\ \A m : EntryIn(SetActive(db, n), m) = EntryIn(db, m)
<1> DEFINE es == WithEntry(db, n)
           new == SetActive(db, n)
<1>1. n \in 1 .. Limit[k] /\ 1 \in DOMAIN db.entries
  BY FilledKinds DEF Selectable, HoldsScenario
<1>2. new.entries = es /\ new.points = es[n].value /\ new.current = n
  BY DEF SetActive, WellFormed
<1>3. /\ DOMAIN es = DOMAIN db.entries \cup {n}
      /\ \A m \in DOMAIN db.entries : es[m] = db.entries[m]
      /\ n \notin DOMAIN db.entries => es[n].value = [p \in DOMAIN db.entries[1].value |-> 0]
  <2>1. CASE n \in DOMAIN db.entries
    BY <2>1 DEF WithEntry
  <2>2. CASE n \notin DOMAIN db.entries
    <3>1. es = [m \in DOMAIN db.entries \cup {n} |->
                  IF m = n THEN Blank(db.entries[1]) ELSE db.entries[m]]
      BY <2>2 DEF WithEntry
    <3>2. Blank(db.entries[1]).value = [p \in DOMAIN db.entries[1].value |-> 0]
      BY DEF Blank, EntryOf
    <3>3. QED
      BY <2>2, <3>1, <3>2
  <2>3. QED
    BY <2>1, <2>2
<1>4. [p \in DOMAIN db.entries[1].value |-> 0] \in Held(s, k)
  <2>1. db.entries[1].value \in Held(s, k)
    BY <1>1 DEF HoldsScenario
  <2>2. DOMAIN db.entries[1].value = DOMAIN Entries(s, k)[1]
    BY <2>1 DEF Held
  <2>3. QED
    BY <2>2 DEF Held
<1> HIDE DEF es, new
<1>5. \A m \in DOMAIN es : es[m].value \in Held(s, k)
  <2>1. \A m \in DOMAIN db.entries : es[m].value \in Held(s, k)
    BY <1>3 DEF HoldsScenario
  <2>2. n \notin DOMAIN db.entries => es[n].value \in Held(s, k)
    BY <1>3, <1>4
  <2>3. QED
    BY <1>3, <2>1, <2>2
<1>6. HoldsScenario(new, s, k)
  BY <1>1, <1>2, <1>3, <1>5 DEF HoldsScenario
<1>7. new.points = EntryIn(db, n)
  BY <1>2, <1>3 DEF EntryIn
<1>8. ASSUME NEW m PROVE EntryIn(new, m) = EntryIn(db, m)
  <2>1. es[1] = db.entries[1]
    BY <1>1, <1>3
  <2>2. CASE m \in DOMAIN db.entries
    BY <1>2, <1>3, <2>2 DEF EntryIn
  <2>3. CASE m \notin DOMAIN db.entries
    BY <1>2, <1>3, <2>1, <2>3 DEF EntryIn
  <2>4. QED
    BY <2>2, <2>3
<1>9. QED
  BY <1>1, <1>2, <1>6, <1>7, <1>8 DEF new

\* Writing a point changes that point of the active entry, and nothing else.
LEMMA WritingStores ==
  ASSUME NEW db, NEW s \in Scenarios, NEW k \in Filled, NEW p \in Template(db),
         NEW v \in Values, WellFormed(db), HoldsScenario(db, s, k)
  PROVE  /\ HoldsScenario(UpdateValue(db, p, v), s, k)
         /\ UpdateValue(db, p, v).current = db.current
         /\ UpdateValue(db, p, v).points = [db.points EXCEPT ![p] = v]
         /\ p \in DOMAIN db.points /\ [db.points EXCEPT ![p] = v] \in Held(s, k)
         /\ \A m \in Nat : EntryIn(UpdateValue(db, p, v), m) =
              IF m = db.current THEN [db.points EXCEPT ![p] = v] ELSE EntryIn(db, m)
<1> DEFINE new == UpdateValue(db, p, v)
           cur == db.current
<1>1. 1 \in DOMAIN db.entries /\ cur \in DOMAIN db.entries
  BY DEF HoldsScenario, WellFormed
<1>2. /\ p \in DOMAIN db.entries[cur].value
      /\ db.points = db.entries[cur].value
      /\ \A m \in DOMAIN db.entries : DOMAIN db.entries[m].value = DOMAIN db.entries[1].value
  BY <1>1 DEF Template, WellFormed
<1>3. /\ new.entries = [db.entries EXCEPT ![cur] = Updated(@, p, v)]
      /\ new.points = [db.points EXCEPT ![p] = v]
      /\ new.current = cur
  BY <1>1, <1>2 DEF UpdateValue, WellFormed
<1>4. Updated(db.entries[cur], p, v).value = [db.points EXCEPT ![p] = v]
  BY <1>2 DEF Updated
<1>5. /\ DOMAIN new.entries = DOMAIN db.entries
      /\ new.entries[cur].value = [db.points EXCEPT ![p] = v]
      /\ \A m \in DOMAIN db.entries \ {cur} : new.entries[m] = db.entries[m]
  BY <1>1, <1>3, <1>4
<1>6. [db.points EXCEPT ![p] = v] \in Held(s, k)
  <2>1. db.points \in Held(s, k)
    BY <1>1, <1>2 DEF HoldsScenario
  <2>2. QED
    BY <2>1 DEF Held
<1> HIDE DEF new
<1>7. \A m \in DOMAIN new.entries : new.entries[m].value \in Held(s, k)
  BY <1>5, <1>6 DEF HoldsScenario
<1>8. HoldsScenario(new, s, k)
  BY <1>1, <1>3, <1>5, <1>7 DEF HoldsScenario
<1>9. DOMAIN new.entries[1].value = DOMAIN db.entries[1].value
  BY <1>1, <1>2, <1>5
<1>10. ASSUME NEW m \in Nat
       PROVE  EntryIn(new, m) = IF m = cur THEN [db.points EXCEPT ![p] = v] ELSE EntryIn(db, m)
  BY <1>1, <1>5, <1>9 DEF EntryIn
<1>11. QED
  BY <1>1, <1>2, <1>3, <1>6, <1>8, <1>10 DEF new

-----------------------------------------------------------------------------
(* Steps.                                                                  *)

\* What the store sees of a database.
View(db, k) == [n \in 1 .. Limit[k] |-> EntryIn(db, n)]

\* A database that holds a scenario is a store of that scenario's contents.
LEMMA ViewsAreContents ==
  ASSUME NEW db, NEW s \in Scenarios, NEW k \in Filled, HoldsScenario(db, s, k)
  PROVE  View(db, k) \in [1 .. Limit[k] -> ContentsOf(k)]
<1>1. ASSUME NEW n \in 1 .. Limit[k] PROVE EntryIn(db, n) \in Held(s, k)
  <2>1. CASE n \in DOMAIN db.entries
    BY <2>1 DEF EntryIn, HoldsScenario
  <2>2. CASE n \notin DOMAIN db.entries
    <3>1. DOMAIN db.entries[1].value = DOMAIN Entries(s, k)[1]
      BY DEF HoldsScenario, Held
    <3>2. QED
      BY <2>2, <3>1 DEF EntryIn, Held
  <2>3. QED
    BY <2>1, <2>2
<1>2. QED
  BY <1>1 DEF View, ContentsOf

\* The variables of the store, and its constant of contents.
Shelf == [j \in Filled |-> [m \in 1 .. Limit[j] |-> Stored(j, m)]]
Active == [j \in Filled |-> dbs[j].current]
Window == [j \in Filled |-> dbs[j].points]
Contents == [j \in Filled |-> ContentsOf(j)]

\* The store starts as the profile of start-up has it.
LEMMA InitStore == Init => Contained /\ Store!Init
<1> SUFFICES ASSUME Init PROVE Contained /\ Store!Init
  OBVIOUS
<1>1. ASSUME NEW k \in Filled
      PROVE  HoldsScenario(dbs[k], First, k) /\ dbs[k].current = 1 /\ First \in Scenarios
  <2>1. dbs[k] = FromProfile(Entries(First, k), Limit[k])
    BY FilledKinds DEF Init, Kind, CurveDatabase, ScheduleBCDatabase, ScheduleDatabase
  <2>2. QED
    BY <2>1, StartAssumption, ProfilesAreHeld
<1>2. ASSUME NEW k \in Filled
      PROVE  /\ View(dbs[k], k) \in [1 .. Limit[k] -> ContentsOf(k)]
             /\ dbs[k].current = 1
             /\ dbs[k].points = View(dbs[k], k)[1]
  <2>1. dbs[k].points = dbs[k].entries[1].value
    BY <1>1, FilledKinds, InitInvariant DEF Invariant, Databases, WellFormed, HoldsScenario
  <2>2. QED
    BY <1>1, <2>1, FilledKinds, ViewsAreContents DEF HoldsScenario, View, EntryIn
<1>3. QED
  BY <1>1, <1>2 DEF Contained, Store!Init, Store!Fresh, View, EntryIn, Stored, ContentsOf, Held

\* Nothing the store sees changes when no database does.
LEMMA StutteringStore ==
  ASSUME \A k \in Filled : dbs'[k] = dbs[k], Contained
  PROVE  Contained' /\ UNCHANGED Store!vars
BY DEF Contained, HoldsScenario, Store!vars, Stored

\* An operate of a selector selects, any other writes a point or does nothing.
LEMMA MuxStore ==
  ASSUME Invariant, Contained, NEW k \in Kind, Mux(k)
  PROVE  Contained' /\ [Store!Next]_(Store!vars)
<1> DEFINE n == session.value % Width
           p == PointOf(session.port)
<1>1. /\ DOMAIN dbs' = Kind
      /\ \A j \in Kind \ {k} : dbs'[j] = dbs[j]
      /\ dbs'[k] = IF IsSelector(session.port) THEN SetActive(dbs[k], n)
                   ELSE IF p \in Template(dbs[k])
                        THEN UpdateValue(dbs[k], p, session.value) ELSE dbs[k]
  BY DEF Mux, Invariant, TypeOK
<1>2. session.value \in Values /\ session.value \in Int /\ n \in Nat
  BY StartAssumption DEF Mux, Invariant, TypeOK, Idle
<1>3. CASE k \notin Filled \/ dbs'[k] = dbs[k]
  <2>1. \A j \in Filled : dbs'[j] = dbs[j]
    BY <1>1, <1>3, FilledKinds
  <2>2. QED
    BY <2>1, StutteringStore
<1>4. CASE k \in Filled /\ IsSelector(session.port) /\ Selectable(dbs[k], n)
  <2>1. PICK s \in Scenarios : HoldsScenario(dbs[k], s, k)
    BY <1>4 DEF Contained
  <2>2. /\ n \in 1 .. Limit[k]
        /\ HoldsScenario(dbs'[k], s, k)
        /\ dbs'[k].current = n
        /\ dbs'[k].points = EntryIn(dbs[k], n)
        /\ \A m : EntryIn(dbs'[k], m) = EntryIn(dbs[k], m)
    BY <1>1, <1>2, <1>4, <2>1, SelectingShows DEF Invariant, Databases, TypeOK
  <2>3. Contained'
    BY <1>1, <2>2, FilledKinds DEF Contained, HoldsScenario
  <2>4. Store!Select(k)
    <3>1. n \in [j \in Filled |-> 1 .. Limit[j]][k]
      BY <1>4, <2>2
    <3>2. Active' = [Active EXCEPT ![k] = n]
      BY <1>1, <1>4, <2>2, FilledKinds DEF Active
    <3>3. Window' = [Window EXCEPT ![k] = Shelf[k][n]]
      BY <1>1, <1>4, <2>2, FilledKinds DEF Window, Shelf, Stored, EntryIn
    <3>4. Shelf' = Shelf
      <4>1. \A j \in Filled : \A m \in 1 .. Limit[j] : Stored(j, m)' = Stored(j, m)
        BY <1>1, <1>4, <2>2, FilledKinds DEF Stored, EntryIn
      <4>2. QED
        BY <4>1 DEF Shelf
    <3> HIDE DEF n
    <3>5. QED
      BY <3>1, <3>2, <3>3, <3>4 DEF Store!Select, Active, Window, Shelf
  <2>5. QED
    BY <1>4, <2>3, <2>4 DEF Store!Next
<1>5. CASE k \in Filled /\ ~IsSelector(session.port) /\ p \in Template(dbs[k])
  <2>1. PICK s \in Scenarios : HoldsScenario(dbs[k], s, k)
    BY <1>5 DEF Contained
  <2> DEFINE new == [dbs[k].points EXCEPT ![p] = session.value]
             cur == dbs[k].current
  <2>2. /\ HoldsScenario(dbs'[k], s, k)
        /\ dbs'[k].current = cur
        /\ dbs'[k].points = new
        /\ p \in DOMAIN dbs[k].points /\ new \in Held(s, k)
        /\ \A m \in Nat : EntryIn(dbs'[k], m) = IF m = cur THEN new ELSE EntryIn(dbs[k], m)
    BY <1>1, <1>2, <1>5, <2>1, WritingStores DEF Invariant, Databases
  <2>3. Contained'
    BY <1>1, <2>2, FilledKinds DEF Contained, HoldsScenario
  <2>4. Store!Write(k)
    <3>1. new \in ContentsOf(k) /\ DOMAIN new = DOMAIN dbs[k].points
      BY <2>2 DEF ContentsOf
    <3>2. \A q \in DOMAIN new \ {p} : new[q] = dbs[k].points[q]
      OBVIOUS
    <3>3. Window' = [Window EXCEPT ![k] = new] /\ Window[k] = dbs[k].points
      BY <1>1, <1>5, <2>2, FilledKinds DEF Window
    <3>4. Active' = Active /\ Active[k] = cur
      BY <1>1, <1>5, <2>2, FilledKinds DEF Active
    <3>5. Shelf' = [Shelf EXCEPT ![k][cur] = new]
      <4>1. \A j \in Filled \ {k} : \A m \in 1 .. Limit[j] : Stored(j, m)' = Stored(j, m)
        BY <1>1, FilledKinds DEF Stored
      <4>2. \A m \in 1 .. Limit[k] : Stored(k, m)' = IF m = cur THEN new ELSE Stored(k, m)
        BY <1>5, <2>2, FilledKinds DEF Stored, EntryIn
      <4>3. cur \in 1 .. Limit[k]
        BY <2>1 DEF HoldsScenario
      <4> HIDE DEF new, cur
      <4>4. QED
        BY <4>1, <4>2, <4>3, <1>5 DEF Shelf
    <3>6. new \in Contents[k]
      BY <1>5, <3>1 DEF Contents
    <3>7. p \in DOMAIN Window[k]
      BY <2>2, <3>3
    <3> HIDE DEF new, cur, p
    <3>8. \E q \in DOMAIN Window[k], content \in Contents[k] :
            /\ DOMAIN content = DOMAIN Window[k]
            /\ \A r \in DOMAIN content \ {q} : content[r] = Window[k][r]
            /\ Shelf' = [Shelf EXCEPT ![k][Active[k]] = content]
            /\ Window' = [Window EXCEPT ![k] = content]
            /\ Active' = Active
      BY <3>1, <3>2, <3>3, <3>4, <3>5, <3>6, <3>7
    <3>9. QED
      BY <3>8 DEF Store!Write, Active, Window, Shelf, Contents, ContentsOf, Held
  <2>5. QED
    BY <1>5, <2>3, <2>4 DEF Store!Next
<1>6. QED
  BY <1>1, <1>3, <1>4, <1>5 DEF SetActive

\* A load replaces one database.
LEMMA ReplaceStore ==
  ASSUME Invariant, Contained, NEW k \in Kind, NEW s \in Scenarios,
         dbs' = [dbs EXCEPT ![k] = FromProfile(Entries(s, k), Limit[k])], WellFormed(dbs'[k])
  PROVE  Contained' /\ [Store!Next]_(Store!vars)
<1>1. /\ \A j \in Kind \ {k} : dbs'[j] = dbs[j]
      /\ dbs'[k] = FromProfile(Entries(s, k), Limit[k])
  BY DEF Invariant, TypeOK
<1>2. CASE k \notin Filled
  BY <1>1, <1>2, FilledKinds, StutteringStore
<1>3. CASE k \in Filled
  <2>1. HoldsScenario(dbs'[k], s, k) /\ dbs'[k].current = 1
    BY <1>1, <1>3, ProfilesAreHeld
  <2>2. Contained'
    BY <1>1, <2>1, FilledKinds DEF Contained, HoldsScenario
  <2>3. View(dbs'[k], k) \in [1 .. Limit[k] -> ContentsOf(k)]
    BY <1>3, <2>1, ViewsAreContents
  <2>4. dbs'[k].points = View(dbs'[k], k)[1]
    BY <1>3, <2>1, FilledKinds DEF WellFormed, HoldsScenario, View, EntryIn
  <2>5. Store!Fresh(k)'
    BY <1>3, <2>1, <2>3, <2>4 DEF Store!Fresh, View, EntryIn, Stored, ContentsOf, Held
  <2>6. \A j \in Filled \ {k} : dbs'[j] = dbs[j]
    BY <1>1, FilledKinds
  <2>7. Store!Replace(k)
    BY <2>5, <2>6 DEF Store!Replace, Stored
  <2>8. QED
    BY <1>3, <2>2, <2>7 DEF Store!Next
<1>4. QED
  BY <1>2, <1>3

\* Every step of the outstation is a step of the store, or none.
LEMMA StepsOfStore ==
  ASSUME Invariant, Invariant', Contained, [Next]_vars
  PROVE  Contained' /\ [Store!Next]_(Store!vars)
<1>1. CASE UNCHANGED dbs
  BY <1>1, StutteringStore
<1>2. ASSUME NEW k \in Kind, Mux(k) PROVE Contained' /\ [Store!Next]_(Store!vars)
  BY <1>2, MuxStore
<1>3. ASSUME NEW k \in Kind, loading.at \in {"curve", "schedule_bc", "schedule"},
             dbs' = [dbs EXCEPT ![k] = FromProfile(Entries(loading.to, k), Limit[k])]
      PROVE  Contained' /\ [Store!Next]_(Store!vars)
  <2>1. loading.to \in Scenarios
    BY <1>3, LoadsAreRecords DEF Invariant
  <2>2. WellFormed(dbs'[k])
    BY DEF Invariant, Databases
  <2>3. QED
    BY <1>3, <2>1, <2>2, ReplaceStore
<1>4. CASE Session
  BY <1>1, <1>2, <1>4
     DEF Session, Operate, Feedback, MuxCurve, MuxScheduleBC, MuxSchedule, Publish, Kind
<1>5. CASE Load
  BY <1>1, <1>3, <1>5
     DEF Load, RemovePoints, AddPoints, ReplaceCurves, ReplaceSchedulesBC, ReplaceSchedules,
         SwapProfile, SwapIndex, ClearTracking, CurveDatabase, ScheduleBCDatabase,
         ScheduleDatabase, Kind
<1>6. QED
  BY <1>1, <1>4, <1>5 DEF Next, vars

\* Multiplexing keeps the entries apart: whatever is operated, published or loaded,
\* the databases are a store of numbered entries of which a step selects one,
\* writes one point of the active one, or replaces all of a kind.
THEOREM Implements == Spec => ImplementsStore
<1>1. Spec => [](Contained /\ Invariant)
  BY InitStore, StepsOfStore, InvariantHolds, PTL DEF Spec
<1>2. QED
  BY <1>1, InitStore, StepsOfStore, PTL DEF Spec, ImplementsStore, Store!Spec

=============================================================================
