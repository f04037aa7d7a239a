---------------------------- MODULE MuxLinkProofs ----------------------------
(***************************************************************************)
(* Proofs about MuxLink, for any profiles, any number of scenarios and     *)
(* breaks of the connection, and reports at any time.                      *)
(*                                                                         *)
(* That a value arrives in its entry rests on the order of the script: the *)
(* outstation is with the item the loop waits for or has just done it      *)
(* (Reached), so the entry current there is the one the script selected    *)
(* last (Selected), and a value put is put into it and stays (Holding).    *)
(***************************************************************************)
EXTENDS MuxLink, DataLemmas

-----------------------------------------------------------------------------
(* Points, ports and entries.                                              *)

IsPoint(p) == p = <<p[1], p[2]>> /\ p[1] # "selector"

\* A data port names its kind and point, a selector its kind.
LEMMA PortNames ==
  /\ \A k : Selector(k)[1] = k /\ IsSelector(Selector(k))
  /\ \A k, p : IsPoint(p) => /\ Data(k, p)[1] = k /\ ~IsSelector(Data(k, p))
                             /\ PointOf(Data(k, p)) = p
BY DEF Selector, Data, IsSelector, PointOf, IsPoint

\* What the assumption says of the points of a kind.
LEMMA PointsOfKind ==
  ASSUME NEW k \in DOMAIN Startup
  PROVE  /\ k \in Kind
         /\ IsFiniteSet(PointsOf(k))
         /\ \A p \in PointsOf(k) : IsPoint(p)
BY LinkAssumption DEF IsPoint

\* The limits are those of start-up.
LEMMA LimitsOfKinds ==
  ASSUME NEW k \in Kind
  PROVE  /\ Limit[k] \in Nat
         /\ k \in DOMAIN Startup => /\ Len(Startup[k]) \in Nat /\ Limit[k] <= Len(Startup[k])
                                    /\ Startup[k] # <<>> => Limit[k] >= 1
<1>1. Limit[k] = IF k \notin DOMAIN Startup THEN 0
                 ELSE IF Len(Startup[k]) <= MostEntries THEN Len(Startup[k]) ELSE MostEntries
  BY DEF Limit, Limits
<1>2. MostEntries \in Nat /\ MostEntries >= 1
  BY LinkAssumption
<1>3. CASE k \in DOMAIN Startup
  <2>1. Startup[k] \in Seq([PointsOf(k) -> Int])
    BY <1>3, LinkAssumption
  <2>2. Len(Startup[k]) \in Nat /\ (Startup[k] # <<>> => Len(Startup[k]) >= 1)
    BY <2>1
  <2>3. QED
    BY <1>1, <1>2, <1>3, <2>2
<1>4. CASE k \notin DOMAIN Startup
  BY <1>1, <1>4
<1>5. QED
  BY <1>3, <1>4

\* Where the values of an entry end up: an entry there is no room for goes to the
\* last one.
Landing(k, n) == IF n <= Limit[k] THEN n ELSE Limit[k]

\* The entries of a profile a station may be given.
LEMMA EntriesOfProfiles ==
  ASSUME NEW prof \in Profiles, NEW k \in DOMAIN prof
  PROVE  /\ k \in Kind /\ k \in DOMAIN Startup
         /\ Len(prof[k]) \in Nat /\ DOMAIN prof[k] = 1 .. Len(prof[k])
         /\ \A n \in DOMAIN prof[k] :
              /\ prof[k][n] \in [DOMAIN prof[k][n] -> Int] /\ DOMAIN prof[k][n] \subseteq PointsOf(k)
              /\ Landing(k, n) \in 1 .. Limit[k] /\ Landing(k, n) \in DOMAIN prof[k]
              /\ prof[k][Landing(k, n)] = prof[k][n]
<1>1. k \in Kind /\ k \in DOMAIN Startup
  BY LinkAssumption
<1>2. prof[k] \in Seq(ToSet(prof[k])) /\ \A n \in DOMAIN prof[k] : IsEntry(k, prof[k][n])
  BY LinkAssumption
<1>3. Len(prof[k]) \in Nat /\ DOMAIN prof[k] = 1 .. Len(prof[k])
  BY <1>2
<1>4. ASSUME NEW n \in DOMAIN prof[k]
      PROVE  /\ Landing(k, n) \in 1 .. Limit[k] /\ Landing(k, n) \in DOMAIN prof[k]
             /\ prof[k][Landing(k, n)] = prof[k][n]
  <2>1. n \in Nat /\ 1 <= n /\ n <= Len(prof[k])
    BY <1>3
  <2>2. Startup[k] # <<>>
    <3>1. prof[k] # <<>>
      BY <1>4
    <3>2. QED
      BY <3>1, LinkAssumption
  <2>3. Limit[k] \in Nat /\ Limit[k] >= 1
    BY <1>1, <2>2, LimitsOfKinds
  <2>4. n > Limit[k] => prof[k][n] = prof[k][Limit[k]]
    BY LinkAssumption
  <2>5. QED
    BY <1>3, <2>1, <2>3, <2>4 DEF Landing
<1>5. QED
  BY <1>1, <1>2, <1>3, <1>4 DEF IsEntry

-----------------------------------------------------------------------------
(* Databases.                                                              *)

Points(k) == IF k \in DOMAIN Startup THEN PointsOf(k) ELSE {}
Contents(k) == UNION {[Q -> Int] : Q \in SUBSET Points(k)}
Entry(k) == {e \in [value : Contents(k), written : SUBSET Points(k)] : e.written \subseteq DOMAIN e.value}

\* Of an entry there is no room for nothing is received, and it is never current.
RoomIsKept(k, db) ==
  /\ db.current \in DOMAIN db.entries => db.current <= Limit[k]
  /\ \A n \in DOMAIN db.entries : n > Limit[k] => db.entries[n].written = {}

Numbered(k) == UNION {[D -> Entry(k)] : D \in SUBSET Nat}
Database(k) ==
  {db \in [entries : Numbered(k), points : Contents(k), current : Nat, max : {Limit[k]}] :
     RoomIsKept(k, db)}

\* What it takes to be a database.
LEMMA DatabaseParts ==
  ASSUME NEW k, NEW db
  PROVE  db \in Database(k) <=>
           /\ db = [entries |-> db.entries, points |-> db.points,
                    current |-> db.current, max |-> db.max]
           /\ db.max = Limit[k] /\ db.current \in Nat /\ db.points \in Contents(k)
           /\ db.entries = [n \in DOMAIN db.entries |-> db.entries[n]]
           /\ DOMAIN db.entries \subseteq Nat
           /\ \A n \in DOMAIN db.entries : db.entries[n] \in Entry(k)
           /\ RoomIsKept(k, db)
<1>1. ASSUME NEW es
      PROVE  es \in Numbered(k) <=> /\ es = [n \in DOMAIN es |-> es[n]]
                                    /\ DOMAIN es \subseteq Nat
                                    /\ \A n \in DOMAIN es : es[n] \in Entry(k)
  <2>1. ASSUME es \in Numbered(k) PROVE es = [n \in DOMAIN es |-> es[n]] /\ DOMAIN es \subseteq Nat
                                        /\ \A n \in DOMAIN es : es[n] \in Entry(k)
    <3>1. PICK D \in SUBSET Nat : es \in [D -> Entry(k)]
      BY <2>1 DEF Numbered
    <3>2. QED
      BY <3>1
  <2>2. ASSUME es = [n \in DOMAIN es |-> es[n]], DOMAIN es \subseteq Nat,
               \A n \in DOMAIN es : es[n] \in Entry(k)
        PROVE  es \in Numbered(k)
    <3>1. es \in [DOMAIN es -> Entry(k)]
      BY <2>2
    <3>2. QED
      BY <2>2, <3>1 DEF Numbered
  <2>3. QED
    BY <2>1, <2>2
<1> HIDE DEF RoomIsKept
<1>2. QED
  BY <1>1 DEF Database

\* The values of an entry are any numbers at some of the points.
LEMMA ContentsAre ==
  ASSUME NEW k, NEW c
  PROVE  c \in Contents(k) <=> c \in [DOMAIN c -> Int] /\ DOMAIN c \subseteq Points(k)
BY DEF Contents

LEMMA EntryParts ==
  ASSUME NEW k, NEW e
  PROVE  e \in Entry(k) <=>
           /\ e = [value |-> e.value, written |-> e.written]
           /\ e.value \in Contents(k) /\ e.written \subseteq DOMAIN e.value
BY ContentsAre DEF Entry

\* A blank entry is an entry of the kind.
LEMMA BlankEntries ==
  ASSUME NEW k, NEW e \in Entry(k)
  PROVE  /\ Blank(e) \in Entry(k) /\ Blank(e).written = {}
         /\ DOMAIN Blank(e).value = DOMAIN e.value
<1>1. Blank(e) = [value |-> [p \in DOMAIN e.value |-> 0], written |-> {}]
  BY DEF Blank, EntryOf
<1>2. e.value \in Contents(k) /\ DOMAIN e.value \subseteq Points(k)
  BY EntryParts, ContentsAre
<1>3. [p \in DOMAIN e.value |-> 0] \in Contents(k)
  BY <1>2, ContentsAre
<1>4. QED
  BY <1>1, <1>3, EntryParts

\* So is one that was written.
LEMMA WrittenEntries ==
  ASSUME NEW k, NEW e \in Entry(k), NEW p \in DOMAIN e.value, NEW v \in Int
  PROVE  /\ Updated(e, p, v) \in Entry(k)
         /\ DOMAIN Updated(e, p, v).value = DOMAIN e.value
         /\ Updated(e, p, v).value[p] = v
         /\ \A q \in DOMAIN e.value \ {p} : Updated(e, p, v).value[q] = e.value[q]
<1>1. /\ e.value \in [DOMAIN e.value -> Int] /\ DOMAIN e.value \subseteq Points(k)
      /\ e.written \subseteq DOMAIN e.value
  BY EntryParts, ContentsAre
<1> DEFINE c == [e.value EXCEPT ![p] = v]
<1>2. Updated(e, p, v) = [value |-> c, written |-> e.written \cup {p}]
  BY DEF Updated
<1>3. c \in [DOMAIN e.value -> Int] /\ c[p] = v /\ \A q \in DOMAIN e.value \ {p} : c[q] = e.value[q]
  BY <1>1
<1> HIDE DEF c
<1>4. c \in Contents(k) /\ DOMAIN c = DOMAIN e.value
  BY <1>1, <1>3, ContentsAre
<1>5. QED
  BY <1>1, <1>2, <1>3, <1>4, EntryParts

\* The two updates of a database, written out.
LEMMA DatabaseUpdates ==
  ASSUME NEW db, NEW es, NEW ps, NEW cur,
         db = [entries |-> db.entries, points |-> db.points,
               current |-> db.current, max |-> db.max]
  PROVE  /\ [db EXCEPT !.entries = es, !.points = ps, !.current = cur]
              = [entries |-> es, points |-> ps, current |-> cur, max |-> db.max]
         /\ [db EXCEPT !.entries = es, !.points = ps]
              = [entries |-> es, points |-> ps, current |-> db.current, max |-> db.max]
<1> DEFINE fields == {"entries", "points", "current", "max"}
           x == [db EXCEPT !.entries = es, !.points = ps, !.current = cur]
           y == [db EXCEPT !.entries = es, !.points = ps]
<1>1. DOMAIN db = fields
  OBVIOUS
<1>2. x = [f \in fields |-> x[f]] /\ y = [f \in fields |-> y[f]]
  BY <1>1
<1>3. x.entries = es /\ x.points = ps /\ x.current = cur /\ x.max = db.max
  BY <1>1
<1>4. y.entries = es /\ y.points = ps /\ y.current = db.current /\ y.max = db.max
  BY <1>1
<1> HIDE DEF x, y
<1>5. x = [entries |-> es, points |-> ps, current |-> cur, max |-> db.max]
  BY <1>2, <1>3
<1>6. y = [entries |-> es, points |-> ps, current |-> db.current, max |-> db.max]
  BY <1>2, <1>4
<1>7. QED
  BY <1>5, <1>6 DEF x, y

\* Selecting keeps a database, and what its entries hold.
LEMMA SelectingKeepsDatabases ==
  ASSUME NEW k \in Kind, NEW db \in Database(k), NEW n \in Nat
  PROVE  /\ SetActive(db, n) \in Database(k)
         /\ SetActive(db, n).current = IF Selectable(db, n) THEN n ELSE db.current
         /\ DOMAIN db.entries \subseteq DOMAIN SetActive(db, n).entries
         /\ \A m \in DOMAIN db.entries : SetActive(db, n).entries[m] = db.entries[m]
         /\ \A m \in DOMAIN SetActive(db, n).entries \ DOMAIN db.entries :
              /\ m = n /\ 1 \in DOMAIN db.entries
              /\ DOMAIN SetActive(db, n).entries[m].value = DOMAIN db.entries[1].value
         /\ SetActive(db, n).points =
              IF Selectable(db, n) THEN SetActive(db, n).entries[n].value ELSE db.points
         /\ Selectable(db, n) => n \in DOMAIN SetActive(db, n).entries
<1>1. CASE ~Selectable(db, n)
  BY <1>1 DEF SetActive
<1>2. CASE Selectable(db, n)
  <2> DEFINE es == WithEntry(db, n)
             new == SetActive(db, n)
  <2>1. new = [db EXCEPT !.entries = es, !.points = es[n].value, !.current = n]
    BY <1>2 DEF SetActive
  <2>2. new = [entries |-> es, points |-> es[n].value, current |-> n, max |-> db.max]
    <3>1. db = [entries |-> db.entries, points |-> db.points, current |-> db.current, max |-> db.max]
      BY DatabaseParts
    <3> HIDE DEF es, new
    <3>2. QED
      BY <2>1, <3>1, DatabaseUpdates
  <2>3. n <= Limit[k] /\ (n \in DOMAIN db.entries \/ 1 \in DOMAIN db.entries)
    BY <1>2, DatabaseParts DEF Selectable
  <2>4. /\ es = [m \in DOMAIN es |-> es[m]]
        /\ DOMAIN es = DOMAIN db.entries \cup {n}
        /\ \A m \in DOMAIN db.entries : es[m] = db.entries[m]
        /\ n \notin DOMAIN db.entries => es[n] = Blank(db.entries[1]) /\ 1 \in DOMAIN db.entries
    <3>1. CASE n \in DOMAIN db.entries
      BY <3>1, DatabaseParts DEF WithEntry
    <3>2. CASE n \notin DOMAIN db.entries
      BY <2>3, <3>2 DEF WithEntry
    <3>3. QED
      BY <3>1, <3>2
  <2>5. \A m \in DOMAIN es : /\ es[m] \in Entry(k)
                             /\ m \notin DOMAIN db.entries =>
                                  es[m].written = {} /\ DOMAIN es[m].value = DOMAIN db.entries[1].value
    <3>1. \A m \in DOMAIN db.entries : db.entries[m] \in Entry(k)
      BY DatabaseParts
    <3>2. n \notin DOMAIN db.entries =>
            /\ es[n] \in Entry(k) /\ es[n].written = {}
            /\ DOMAIN es[n].value = DOMAIN db.entries[1].value
      <4> HIDE DEF es
      <4>1. QED
        BY <2>4, <3>1, BlankEntries
    <3> HIDE DEF es
    <3>3. QED
      BY <2>4, <3>1, <3>2
  <2>6. DOMAIN es \subseteq Nat /\ db.max = Limit[k] /\ RoomIsKept(k, db)
    BY <2>4, DatabaseParts
  <2> HIDE DEF es, new
  <2>7. RoomIsKept(k, new)
    BY <2>2, <2>3, <2>4, <2>5, <2>6 DEF RoomIsKept
  <2>8. es[n].value \in Contents(k)
    BY <2>4, <2>5, EntryParts
  <2>9. new \in Database(k)
    <3>1. new.entries = es /\ new.points = es[n].value /\ new.current = n /\ new.max = Limit[k]
      BY <2>2, <2>6
    <3>2. QED
      BY <2>2, <2>4, <2>5, <2>6, <2>7, <2>8, <3>1, DatabaseParts
  <2>10. QED
    BY <1>2, <2>2, <2>4, <2>5, <2>9 DEF new
<1>3. QED
  BY <1>1, <1>2

\* Writing a point keeps a database, and changes that point of the current entry.
LEMMA WritingKeepsDatabases ==
  ASSUME NEW k \in Kind, NEW db \in Database(k), NEW p, NEW v \in Int
  PROVE  /\ UpdateValue(db, p, v) \in Database(k)
         /\ UpdateValue(db, p, v).current = db.current
         /\ DOMAIN UpdateValue(db, p, v).entries = DOMAIN db.entries
         /\ \A m \in DOMAIN db.entries :
              DOMAIN UpdateValue(db, p, v).entries[m].value = DOMAIN db.entries[m].value
         /\ \A m \in DOMAIN db.entries : \A q \in DOMAIN db.entries[m].value :
              UpdateValue(db, p, v).entries[m].value[q] =
                IF m = db.current /\ q = p THEN v ELSE db.entries[m].value[q]
         /\ DOMAIN UpdateValue(db, p, v).points = DOMAIN db.points
<1> DEFINE cur == db.current
           new == UpdateValue(db, p, v)
<1>1. CASE ~(cur \in DOMAIN db.entries /\ p \in DOMAIN db.entries[cur].value)
  BY <1>1 DEF UpdateValue
<1>2. CASE cur \in DOMAIN db.entries /\ p \in DOMAIN db.entries[cur].value
  <2> DEFINE e == Updated(db.entries[cur], p, v)
             es == [db.entries EXCEPT ![cur] = e]
             ps == IF p \in DOMAIN db.points THEN [db.points EXCEPT ![p] = v] ELSE db.points
  <2>1. new = [entries |-> es, points |-> ps, current |-> cur, max |-> db.max]
    <3>1. db = [entries |-> db.entries, points |-> db.points, current |-> db.current, max |-> db.max]
      BY DatabaseParts
    <3>2. new = [db EXCEPT !.entries[cur] = e, !.points = ps]
      BY <1>2 DEF UpdateValue
    <3>3. [db EXCEPT !.entries[cur] = e, !.points = ps] = [db EXCEPT !.entries = es, !.points = ps]
      OBVIOUS
    <3> HIDE DEF es, ps, new, e
    <3>4. QED
      BY <3>1, <3>2, <3>3, DatabaseUpdates
  <2>2. /\ DOMAIN es = DOMAIN db.entries /\ es = [m \in DOMAIN es |-> es[m]]
        /\ \A m \in DOMAIN es : es[m] = IF m = cur THEN e ELSE db.entries[m]
    BY <1>2, DatabaseParts
  <2>3. db.entries[cur] \in Entry(k)
    BY <1>2, DatabaseParts
  <2>4. /\ e \in Entry(k) /\ DOMAIN e.value = DOMAIN db.entries[cur].value
        /\ e.value[p] = v
        /\ \A q \in DOMAIN e.value \ {p} : e.value[q] = db.entries[cur].value[q]
    BY <1>2, <2>3, WrittenEntries
  <2>5. ps \in Contents(k) /\ DOMAIN ps = DOMAIN db.points
    <3>1. db.points \in [DOMAIN db.points -> Int] /\ DOMAIN db.points \subseteq Points(k)
      BY DatabaseParts, ContentsAre
    <3>2. ps \in [DOMAIN db.points -> Int]
      BY <3>1
    <3> HIDE DEF ps
    <3>3. QED
      BY <3>1, <3>2, ContentsAre
  <2>6. /\ DOMAIN db.entries \subseteq Nat /\ db.max = Limit[k] /\ RoomIsKept(k, db) /\ cur \in Nat
        /\ \A m \in DOMAIN db.entries : db.entries[m] \in Entry(k)
    BY DatabaseParts
  <2> HIDE DEF e, es, ps, new
  <2>7. new.entries = es /\ new.points = ps /\ new.current = cur /\ new.max = Limit[k]
    BY <2>1, <2>6
  <2>8. RoomIsKept(k, new)
    <3>1. cur <= Limit[k] /\ ~(cur > Limit[k])
      BY <1>2, <2>6, LimitsOfKinds DEF RoomIsKept
    <3>2. QED
      BY <2>2, <2>6, <2>7, <3>1 DEF RoomIsKept
  <2>9. new \in Database(k)
    BY <2>1, <2>2, <2>4, <2>5, <2>6, <2>7, <2>8, DatabaseParts
  <2>10. QED
    BY <2>2, <2>4, <2>5, <2>7, <2>9 DEF new
<1>3. QED
  BY <1>1, <1>2

\* The database of a profile.
LEMMA ProfilesMakeDatabases ==
  ASSUME NEW prof \in Profiles, NEW k \in Kind
  PROVE  /\ Databases(prof)[k] \in Database(k)
         /\ DOMAIN Databases(prof)[k].entries = IF k \in DOMAIN prof THEN DOMAIN prof[k] ELSE {}
         /\ Databases(prof)[k].current = 1
         /\ k \in DOMAIN prof =>
              /\ \A n \in DOMAIN prof[k] : Databases(prof)[k].entries[n].value = prof[k][n]
              /\ prof[k] # <<>> => Databases(prof)[k].points = prof[k][1]
         /\ k \notin DOMAIN prof \/ prof[k] = <<>> => Databases(prof)[k].points = NoPoints
<1> DEFINE es == IF k \in DOMAIN prof THEN prof[k] ELSE <<>>
           db == FromProfile(es, Limit[k])
<1>1. Databases(prof)[k] = db
  BY DEF Databases
<1>2. db = [entries |-> [n \in DOMAIN es |-> EntryOf(es[n])],
            points |-> IF es = <<>> THEN NoPoints ELSE es[1], current |-> 1, max |-> Limit[k]]
  BY DEF FromProfile
<1>3. /\ Len(es) \in Nat /\ DOMAIN es = 1 .. Len(es) /\ (es # <<>> => 1 \in DOMAIN es)
      /\ \A n \in DOMAIN es : es[n] \in Contents(k)
      /\ es # <<>> => Limit[k] >= 1
  <2>1. CASE k \in DOMAIN prof
    <3>1. prof[k] \in Seq(ToSet(prof[k]))
      BY <2>1, LinkAssumption
    <3>2. prof[k] # <<>> => 1 \in DOMAIN prof[k]
      BY <3>1
    <3>3. \A n \in DOMAIN prof[k] : prof[k][n] \in Contents(k)
      BY <2>1, EntriesOfProfiles, ContentsAre DEF Points
    <3>4. prof[k] # <<>> => Limit[k] >= 1
      BY <2>1, EntriesOfProfiles, LimitsOfKinds, LinkAssumption
    <3>5. QED
      BY <2>1, <3>2, <3>3, <3>4, EntriesOfProfiles
  <2>2. CASE k \notin DOMAIN prof
    BY <2>2
  <2>3. QED
    BY <2>1, <2>2
<1> HIDE DEF es, db
<1>4. /\ db = [entries |-> db.entries, points |-> db.points, current |-> db.current, max |-> db.max]
      /\ db.entries = [n \in DOMAIN es |-> EntryOf(es[n])]
      /\ db.points = IF es = <<>> THEN NoPoints ELSE es[1]
      /\ db.current = 1 /\ db.max = Limit[k]
  BY <1>2
<1>5. /\ DOMAIN db.entries = DOMAIN es /\ DOMAIN es \subseteq Nat
      /\ \A n \in DOMAIN es : db.entries[n].value = es[n] /\ db.entries[n].written = {}
  BY <1>3, <1>4 DEF EntryOf
<1>6. \A n \in DOMAIN es : db.entries[n] \in Entry(k)
  <2>1. ASSUME NEW n \in DOMAIN es PROVE db.entries[n] \in Entry(k)
    <3>1. db.entries[n] = [value |-> es[n], written |-> {}]
      BY <1>4 DEF EntryOf
    <3>2. QED
      BY <1>3, <3>1, EntryParts
  <2>2. QED
    BY <2>1
<1>7. RoomIsKept(k, db)
  <2>1. es = <<>> => DOMAIN es = {}
    OBVIOUS
  <2>2. QED
    BY <1>3, <1>4, <1>5, <2>1 DEF RoomIsKept
<1>8. db.points \in Contents(k)
  <2>1. NoPoints \in Contents(k)
    <3>1. NoPoints \in [{} -> Int] /\ DOMAIN NoPoints = {}
      BY DEF NoPoints
    <3>2. QED
      BY <3>1, ContentsAre
  <2>2. QED
    BY <1>3, <1>4, <2>1
<1>9. db \in Database(k)
  BY <1>4, <1>5, <1>6, <1>7, <1>8, DatabaseParts
<1>10. es = IF k \in DOMAIN prof THEN prof[k] ELSE <<>>
  BY DEF es
<1>11. DOMAIN <<>> = {}
  OBVIOUS
<1>12. CASE k \in DOMAIN prof
  BY <1>1, <1>4, <1>5, <1>9, <1>10, <1>12
<1>13. CASE k \notin DOMAIN prof
  BY <1>1, <1>4, <1>5, <1>9, <1>10, <1>11, <1>13
<1>14. QED
  BY <1>12, <1>13

\* The databases of the outstation are those of start-up, whose entries share
\* their points; one of them is current.
Whole(k, db) ==
  /\ db \in Database(k)
  /\ k \in DOMAIN Startup /\ Startup[k] # <<>> =>
       /\ 1 \in DOMAIN db.entries /\ db.current \in DOMAIN db.entries
       /\ DOMAIN db.points = Points(k)
  /\ \A n \in DOMAIN db.entries : DOMAIN db.entries[n].value = Points(k)

LEMMA WholeAtStart ==
  ASSUME NEW k \in Kind
  PROVE  Whole(k, Databases(Startup)[k])
<1>1. Startup \in Profiles
  BY DEF Profiles
<1>2. k \in DOMAIN Startup => /\ Startup[k] \in Seq([PointsOf(k) -> Int])
                              /\ Startup[k] # <<>> => 1 \in DOMAIN Startup[k]
  <2>1. k \in DOMAIN Startup => Startup[k] \in Seq([PointsOf(k) -> Int])
    BY LinkAssumption
  <2>2. QED
    BY <2>1
<1>3. k \in DOMAIN Startup => \A n \in DOMAIN Startup[k] : DOMAIN Startup[k][n] = Points(k)
  BY <1>2 DEF Points
<1>4. QED
  BY <1>1, <1>2, <1>3, ProfilesMakeDatabases DEF Whole

LEMMA SelectingKeepsWhole ==
  ASSUME NEW k \in Kind, NEW db, Whole(k, db), NEW n \in Nat
  PROVE  Whole(k, SetActive(db, n))
<1>1. db \in Database(k)
  BY DEF Whole
<1> DEFINE new == SetActive(db, n)
<1>2. /\ new \in Database(k)
      /\ new.current = IF Selectable(db, n) THEN n ELSE db.current
      /\ DOMAIN db.entries \subseteq DOMAIN new.entries
      /\ \A m \in DOMAIN db.entries : new.entries[m] = db.entries[m]
      /\ \A m \in DOMAIN new.entries \ DOMAIN db.entries :
           m = n /\ 1 \in DOMAIN db.entries /\ DOMAIN new.entries[m].value = DOMAIN db.entries[1].value
      /\ new.points = IF Selectable(db, n) THEN new.entries[n].value ELSE db.points
      /\ Selectable(db, n) => n \in DOMAIN new.entries
  BY <1>1, SelectingKeepsDatabases
<1> HIDE DEF new
<1>3. \A m \in DOMAIN new.entries : DOMAIN new.entries[m].value = Points(k)
  BY <1>2 DEF Whole
<1>4. QED
  BY <1>2, <1>3 DEF Whole, new

LEMMA WritingKeepsWhole ==
  ASSUME NEW k \in Kind, NEW db, Whole(k, db), NEW p, NEW v \in Int
  PROVE  Whole(k, UpdateValue(db, p, v))
BY WritingKeepsDatabases DEF Whole

-----------------------------------------------------------------------------
(* What the outstation makes of a request, and what it reports.            *)

\* A port is the selector of its kind, or a point of its entries.
LEMMA PortsHaveOneName ==
  ASSUME NEW q \in Ports
  PROVE  /\ q[1] \in DOMAIN Startup /\ q[1] \in Kind
         /\ \/ IsSelector(q) /\ q = Selector(q[1])
            \/ /\ ~IsSelector(q) /\ PointOf(q) \in PointsOf(q[1]) /\ Points(q[1]) = PointsOf(q[1])
               /\ q = Data(q[1], PointOf(q)) /\ Startup[q[1]] # <<>>
<1>1. PICK k \in DOMAIN Startup : q = Selector(k) \/ \E p \in PointsOf(k) : q = Data(k, p)
  BY DEF Ports
<1>2. k \in Kind /\ \A p \in PointsOf(k) : IsPoint(p)
  BY PointsOfKind
<1>3. PointsOf(k) # {} => Startup[k] # <<>>
  BY DEF PointsOf
<1>4. CASE q = Selector(k)
  BY <1>2, <1>4, PortNames
<1>5. CASE \E p \in PointsOf(k) : q = Data(k, p)
  BY <1>2, <1>3, <1>5, PortNames DEF Points
<1>6. QED
  BY <1>1, <1>4, <1>5

LEMMA PortsAreFinite == IsFiniteSet(Ports)
<1> DEFINE PortsOf(k) == {Selector(k)} \cup {Data(k, p) : p \in PointsOf(k)}
<1>1. ASSUME NEW k \in DOMAIN Startup PROVE IsFiniteSet(PortsOf(k))
  <2> DEFINE f == [p \in PointsOf(k) |-> Data(k, p)]
  <2>1. IsFiniteSet({f[p] : p \in PointsOf(k)})
    BY PointsOfKind, FiniteImage
  <2>2. {f[p] : p \in PointsOf(k)} = {Data(k, p) : p \in PointsOf(k)}
    OBVIOUS
  <2>3. IsFiniteSet({Selector(k)})
    BY FS_Singleton
  <2>4. QED
    BY <2>1, <2>2, <2>3, FS_Union
<1>2. IsFiniteSet({PortsOf(k) : k \in DOMAIN Startup})
  <2>1. IsFiniteSet(Kind)
    <3>1. Kind = {"curve"} \cup {"schedule_bc"} \cup {"schedule"}
      BY DEF Kind
    <3>2. QED
      BY <3>1, FS_Singleton, FS_Union
  <2>2. IsFiniteSet(DOMAIN Startup)
    BY <2>1, LinkAssumption, FS_Subset
  <2> DEFINE f == [k \in DOMAIN Startup |-> PortsOf(k)]
  <2>3. IsFiniteSet({f[k] : k \in DOMAIN Startup})
    BY <2>2, FiniteImage
  <2>4. {f[k] : k \in DOMAIN Startup} = {PortsOf(k) : k \in DOMAIN Startup}
    OBVIOUS
  <2>5. QED
    BY <2>3, <2>4
<1>3. \A S \in {PortsOf(k) : k \in DOMAIN Startup} : IsFiniteSet(S)
  BY <1>1
<1>4. Ports = UNION {PortsOf(k) : k \in DOMAIN Startup}
  BY DEF Ports
<1> HIDE DEF PortsOf
<1>5. QED
  BY <1>2, <1>3, <1>4, FS_UNION

Update == Ports \X Int

\* The values of some ports, in a sequence.
LEMMA ValuesAreUpdates ==
  ASSUME NEW ports \in SUBSET Ports, NEW inputs \in [Ports -> Int]
  PROVE  Values(ports, inputs) \in Seq(Update)
<1> DEFINE sel == {q \in ports : IsSelector(q)}
           dat == {q \in ports : ~IsSelector(q)}
<1>1. IsFiniteSet(sel) /\ IsFiniteSet(dat)
  BY PortsAreFinite, FS_Subset
<1>2. SetToSeq(sel) \in Seq(sel) /\ SetToSeq(dat) \in Seq(dat)
  BY <1>1, SequenceOfSet
<1>3. sel \subseteq Ports /\ dat \subseteq Ports
  OBVIOUS
<1>4. InOrder(ports) = SetToSeq(sel) \o SetToSeq(dat)
  BY DEF InOrder
<1> HIDE DEF sel, dat
<1>5. SetToSeq(sel) \in Seq(Ports) /\ SetToSeq(dat) \in Seq(Ports)
  BY <1>2, <1>3
<1>6. InOrder(ports) \in Seq(Ports)
  BY <1>4, <1>5
<1>7. QED
  BY <1>6 DEF Values, Update

\* The databases of both stations.
Databanks == {m \in [Kind -> UNION {Database(k) : k \in Kind}] : \A k \in Kind : m[k] \in Database(k)}

LEMMA DatabanksStay ==
  ASSUME NEW m \in Databanks, NEW k \in Kind, NEW db \in Database(k)
  PROVE  /\ [m EXCEPT ![k] = db] \in Databanks
         /\ \A j \in Kind : [m EXCEPT ![k] = db][j] = IF j = k THEN db ELSE m[j]
BY DEF Databanks

\* What is written: a selector is given a number.
Write == {w \in [op : {"write"}, port : Ports, value : Int] : IsSelector(w.port) => w.value \in Nat}

\* An operate leaves whole databases and integer inputs.
LEMMA OperatesStayInBounds ==
  ASSUME shown \in [Ports -> Int], dbs \in Databanks, \A k \in Kind : Whole(k, dbs[k]),
         NEW w \in Write
  PROVE  /\ OperatedInputs(w.port, w.value) \in [Ports -> Int]
         /\ Whole(w.port[1], OperatedDb(w.port, w.value))
<1> DEFINE port == w.port
           v == w.value
           k == port[1]
           db == dbs[k]
           new == OperatedDb(port, v)
<1>1. port \in Ports /\ v \in Int /\ (IsSelector(port) => v \in Nat)
  BY DEF Write
<1>2. k \in Kind /\ k \in DOMAIN Startup
  BY <1>1, PortsHaveOneName
<1> HIDE DEF port, v
<1>3. Whole(k, db)
  BY <1>2
<1>4. Whole(k, new)
  <2>1. CASE IsSelector(port)
    BY <1>1, <1>2, <1>3, <2>1, SelectingKeepsWhole DEF OperatedDb
  <2>2. CASE ~IsSelector(port)
    BY <1>1, <1>2, <1>3, <2>2, WritingKeepsWhole DEF OperatedDb
  <2>3. QED
    BY <2>1, <2>2
<1> DEFINE readback == [shown EXCEPT ![port] = v]
<1>5. readback \in [Ports -> Int]
  BY <1>1
<1>6. ASSUME NEW q \in Ports, q[1] = k, ~IsSelector(q) PROVE new.points[PointOf(q)] \in Int
  <2>1. PointOf(q) \in Points(k) /\ Startup[k] # <<>>
    BY <1>6, PortsHaveOneName
  <2>2. DOMAIN new.points = Points(k) /\ new \in Database(k)
    BY <1>2, <1>4, <2>1 DEF Whole
  <2>3. new.points \in [Points(k) -> Int]
    BY <2>2, DatabaseParts, ContentsAre
  <2>4. QED
    BY <2>1, <2>3
<1> HIDE DEF new, readback
<1>7. OperatedInputs(port, v) \in [Ports -> Int]
  <2>1. CASE IsSelector(port) /\ Selectable(dbs[k], v)
    <3>1. OperatedInputs(port, v) =
            [q \in Ports |-> IF q[1] = k /\ ~IsSelector(q) THEN new.points[PointOf(q)] ELSE readback[q]]
      BY <2>1 DEF OperatedInputs, new, readback
    <3>2. QED
      BY <1>5, <1>6, <3>1
  <2>2. CASE ~(IsSelector(port) /\ Selectable(dbs[k], v))
    BY <1>5, <2>2 DEF OperatedInputs, readback
  <2>3. QED
    BY <2>1, <2>2
<1>8. QED
  BY <1>4, <1>7 DEF port, v, new

-----------------------------------------------------------------------------
(* What the control station makes of a message.                            *)

Known == [mirror : Databanks, latest : [Kind -> Int]]

LEMMA HeardOnce ==
  ASSUME NEW k \in Known, NEW u \in Update
  PROVE  Heard(k, u[1], u[2]) \in Known
<1> DEFINE q == u[1]
           v == u[2]
           new == Mirrored(k.mirror, q, v)
<1>1. q \in Ports /\ v \in Int /\ q[1] \in Kind
  BY PortsHaveOneName DEF Update
<1>2. k.mirror \in Databanks /\ k.latest \in [Kind -> Int]
  BY DEF Known
<1>3. k.mirror[q[1]] \in Database(q[1])
  BY <1>1, <1>2 DEF Databanks
<1> HIDE DEF q, v
<1>4. new \in Databanks
  <2> DEFINE m == k.mirror
             db == m[q[1]]
             room == 0 .. 65535
  <2>1. new = IF IsSelector(q)
              THEN IF v \in room THEN [m EXCEPT ![q[1]] = SetActive(db, v)] ELSE m
              ELSE IF PointOf(q) \in DOMAIN db.points
                   THEN [m EXCEPT ![q[1]] = UpdateValue(db, PointOf(q), v)] ELSE m
    BY DEF Mirrored
  <2>2. v \in room => SetActive(db, v) \in Database(q[1])
    <3>1. v \in room => v \in Nat
      <4> HIDE DEF db, new, m
      <4>1. QED
        BY SMT
    <3>2. db \in Database(q[1])
      BY <1>3
    <3> HIDE DEF db, room
    <3>3. QED
      BY <1>1, <3>1, <3>2, SelectingKeepsDatabases
  <2>3. UpdateValue(db, PointOf(q), v) \in Database(q[1])
    BY <1>1, <1>3, WritingKeepsDatabases
  <2>4. m \in Databanks
    BY <1>2
  <2> HIDE DEF new, m, db, room
  <2>5. /\ [m EXCEPT ![q[1]] = UpdateValue(db, PointOf(q), v)] \in Databanks
        /\ v \in room => [m EXCEPT ![q[1]] = SetActive(db, v)] \in Databanks
    BY <1>1, <2>2, <2>3, <2>4, DatabanksStay
  <2>6. QED
    BY <2>1, <2>4, <2>5
<1>5. [k.latest EXCEPT ![q[1]] = v] \in [Kind -> Int]
  BY <1>1, <1>2
<1> HIDE DEF new
<1>6. QED
  BY <1>2, <1>4, <1>5 DEF Heard, Known, q, v, new

\* A message is taken in value by value.
LEMMA HeardOneByOne ==
  ASSUME NEW k \in Known, NEW s \in Seq(Update)
  PROVE  \E g \in [0 .. Len(s) -> Known] :
           /\ g[0] = k
           /\ \A n \in 0 .. Len(s) - 1 : g[n + 1] = Heard(g[n], s[n + 1][1], s[n + 1][2])
           /\ HeardAll(k, s) = g[Len(s)]
<1> DEFINE N == Len(s)
<1> DEFINE H(a, n) == Heard(a, s[n][1], s[n][2])
<1> DEFINE F == [a \in Known \X (1 .. N) |-> H(a[1], a[2])]
<1>1. N \in Nat /\ N = Len(s) /\ DOMAIN s = 1 .. N /\ \A n \in 1 .. N : s[n] \in Update
  OBVIOUS
<1> DEFINE Eq(f) == f = [t \in SUBSET (DOMAIN s) |->
                         IF t = {} THEN k
                         ELSE LET x == Max(t) IN Heard(f[t \ {x}], s[x][1], s[x][2])]
<1> DEFINE it == CHOOSE f : Eq(f)
<1>2. HeardAll(k, s) = it[DOMAIN s]
  BY DEF HeardAll, FoldLeft, MapThenFoldSet
<1> HIDE DEF it
<1>3. ASSUME NEW a \in Known, NEW n \in 1 .. N PROVE H(a, n) \in Known
  <2>1. s[n] \in Update
    BY <1>1
  <2>2. QED
    BY <2>1, HeardOnce
<1>4. N \in Nat
  BY <1>1
<1> HIDE DEF N
<1>5. \E f : Eq(f)
  <2>1. F \in [Known \X (1 .. N) -> Known]
    <3>1. \A a \in Known \X (1 .. N) : H(a[1], a[2]) \in Known
      BY <1>3
    <3> HIDE DEF H
    <3>2. QED
      BY <3>1
  <2>2. \A a \in Known, n \in 1 .. N : F[<<a, n>>] = Heard(a, s[n][1], s[n][2])
    <3>1. ASSUME NEW a \in Known, NEW n \in 1 .. N PROVE F[<<a, n>>] = H(a, n)
      <4> HIDE DEF H, Eq
      <4>1. <<a, n>> \in Known \X (1 .. N)
        OBVIOUS
      <4>2. QED
        BY <4>1
    <3>2. QED
      BY <3>1
  <2> HIDE DEF F
  <2>3. PICK f \in [SUBSET (1 .. N) -> Known] : Folds(f, F, k, N)
    BY <1>4, <2>1, FoldExists
  <2>4. ASSUME NEW t \in SUBSET (1 .. N), t # {}
        PROVE  F[<<f[t \ {Max(t)}], Max(t)>>]
                 = Heard(f[t \ {Max(t)}], s[Max(t)][1], s[Max(t)][2])
    <3>1. Max(t) \in 1 .. N
      BY <1>4, <2>4, MaxIn
    <3>2. t \ {Max(t)} \in SUBSET (1 .. N)
      OBVIOUS
    <3>3. QED
      BY <2>2, <2>3, <3>1, <3>2
  <2>5. \A t \in SUBSET (1 .. N) :
          f[t] = IF t = {} THEN k ELSE Heard(f[t \ {Max(t)}], s[Max(t)][1], s[Max(t)][2])
    BY <2>3, <2>4 DEF Folds
  <2>6. f = [t \in SUBSET (1 .. N) |->
               IF t = {} THEN k ELSE Heard(f[t \ {Max(t)}], s[Max(t)][1], s[Max(t)][2])]
    BY <2>5
  <2>7. QED
    BY <1>1, <2>6
<1>6. Eq(it)
  <2> HIDE DEF Eq
  <2>1. QED
    BY <1>5 DEF it
<1>7. \A t \in SUBSET (1 .. N) :
        it[t] = IF t = {} THEN k ELSE Heard(it[t \ {Max(t)}], s[Max(t)][1], s[Max(t)][2])
  <2>1. it = [t \in SUBSET (1 .. N) |->
                IF t = {} THEN k ELSE Heard(it[t \ {Max(t)}], s[Max(t)][1], s[Max(t)][2])]
    BY <1>1, <1>6
  <2>2. QED
    BY <2>1
<1> HIDE DEF Eq, F, H
<1> DEFINE g == [n \in 0 .. N |-> it[1 .. n]]
<1>8. g[0] = k /\ g[N] = it[DOMAIN s]
  <2>1. 1 .. 0 = {} /\ 1 .. 0 \in SUBSET (1 .. N)
    BY <1>4
  <2>2. it[1 .. 0] = k
    BY <1>7, <2>1
  <2>3. QED
    BY <1>1, <2>2
<1>9. ASSUME NEW n \in 0 .. N - 1 PROVE g[n + 1] = Heard(g[n], s[n + 1][1], s[n + 1][2])
  <2>1. 1 .. n + 1 \in SUBSET (1 .. N) /\ 1 .. n + 1 # {} /\ n + 1 \in 1 .. n + 1
    <3> HIDE DEF g
    <3>1. n \in Nat /\ n + 1 <= N
      BY <1>4
    <3>2. \A m \in 1 .. n + 1 : m \in 1 .. N
      BY <1>4, <3>1
    <3>3. n + 1 \in 1 .. n + 1
      BY <3>1
    <3>4. QED
      BY <3>2, <3>3
  <2>2. Max(1 .. n + 1) = n + 1
    <3>1. 1 .. n + 1 \subseteq Nat /\ \A x \in 1 .. n + 1 : x <= n + 1
      OBVIOUS
    <3>2. QED
      BY <2>1, <3>1, MaxOf
  <2>3. (1 .. n + 1) \ {n + 1} = 1 .. n
    BY <1>4
  <2>4. it[1 .. n + 1] = Heard(it[1 .. n], s[n + 1][1], s[n + 1][2])
    BY <1>7, <2>1, <2>2, <2>3
  <2>5. g[n + 1] = it[1 .. n + 1] /\ g[n] = it[1 .. n]
    BY <1>4
  <2>6. QED
    BY <2>4, <2>5
<1> HIDE DEF g
<1>10. ASSUME NEW n \in Nat, n <= N => g[n] \in Known PROVE n + 1 <= N => g[n + 1] \in Known
  <2> SUFFICES ASSUME n + 1 <= N PROVE g[n + 1] \in Known
    OBVIOUS
  <2>1. n \in 0 .. N - 1 /\ n + 1 \in 1 .. N /\ g[n] \in Known
    BY <1>4, <1>10
  <2>2. QED
    BY <1>3, <1>9, <2>1 DEF H
<1>11. \A n \in 0 .. N : g[n] \in Known
  <2> DEFINE T == {n \in Nat : n <= N => g[n] \in Known}
  <2>1. 0 \in T
    BY <1>8
  <2>2. \A n \in Nat : n \in T => n + 1 \in T
    BY <1>10
  <2>3. \A n \in Nat : n \in T
    <3> HIDE DEF T
    <3>1. QED
      BY <2>1, <2>2, SetInduction
  <2>4. QED
    BY <2>3
<1>12. g \in [0 .. N -> Known]
  BY <1>11 DEF g
<1>13. QED
  BY <1>1, <1>2, <1>8, <1>9, <1>12

\* So what it knows stays of its type.
LEMMA HeardIsKnown ==
  ASSUME mirror \in Databanks, latest \in [Kind -> Int], NEW s \in Seq(Update)
  PROVE  /\ HeardAll([mirror |-> mirror, latest |-> latest], s).mirror \in Databanks
         /\ HeardAll([mirror |-> mirror, latest |-> latest], s).latest \in [Kind -> Int]
<1> DEFINE k == [mirror |-> mirror, latest |-> latest]
<1>1. k \in Known /\ Len(s) \in Nat
  BY DEF Known
<1>2. HeardAll(k, s) \in Known
  BY <1>1, HeardOneByOne
<1>3. QED
  BY <1>2 DEF Known

-----------------------------------------------------------------------------
(* The scripts of the writers.                                             *)

Select(k, n) == [op |-> "write", port |-> Selector(k), value |-> n]
Put(k, p, v) == [op |-> "write", port |-> Data(k, p), value |-> v]
FollowTo(k, n) == [op |-> "follow", kind |-> k, number |-> n]
ReadAll == [op |-> "read"]

Item == Write \cup [op : {"follow"}, kind : DOMAIN Startup, number : Nat \ {0}] \cup {ReadAll}

Selecting(item) == item.op = "write" /\ IsSelector(item.port)

\* At step j, entry n of kind k is the last that the script selected.
Under(s, k, j, n) ==
  \E h \in 1 .. j - 1 : s[h] = Select(k, n) /\ \A g \in h + 1 .. j - 1 : ~Selecting(s[g])

LEMMA ItemsDiffer ==
  /\ \A k, n, j, m : Select(k, n) = Select(j, m) => k = j /\ n = m
  /\ \A k, n : Selecting(Select(k, n))
  /\ \A k, p, v : IsPoint(p) => ~Selecting(Put(k, p, v))
  /\ \A k, n : ~Selecting(FollowTo(k, n))
  /\ ~Selecting(ReadAll)
<1>1. \A k, n, j, m : Select(k, n) = Select(j, m) => k = j /\ n = m
  <2>1. ASSUME NEW k, NEW n, NEW j, NEW m, Select(k, n) = Select(j, m) PROVE k = j /\ n = m
    <3>1. Select(k, n).port[1] = k /\ Select(k, n).value = n
      BY PortNames DEF Select
    <3>2. Select(j, m).port[1] = j /\ Select(j, m).value = m
      BY PortNames DEF Select
    <3>3. QED
      BY <2>1, <3>1, <3>2
  <2>2. QED
    BY <2>1
<1>2. \A k, n : Selecting(Select(k, n))
  BY PortNames DEF Selecting, Select
<1>3. \A k, p, v : IsPoint(p) => ~Selecting(Put(k, p, v))
  BY PortNames DEF Selecting, Put
<1>4. (\A k, n : ~Selecting(FollowTo(k, n))) /\ ~Selecting(ReadAll)
  BY DEF Selecting, FollowTo, ReadAll
<1>5. QED
  BY <1>1, <1>2, <1>3, <1>4

\* One step further: only the selection of another entry makes a difference.
LEMMA UnderNext ==
  ASSUME NEW s, NEW k, NEW n, NEW j \in Nat, j >= 1, ~Selecting(s[j])
  PROVE  Under(s, k, j + 1, n) <=> Under(s, k, j, n)
<1>1. (j + 1) - 1 = j
  OBVIOUS
<1>2. ASSUME Under(s, k, j + 1, n) PROVE Under(s, k, j, n)
  <2>1. PICK h \in 1 .. j : s[h] = Select(k, n) /\ \A g \in h + 1 .. j : ~Selecting(s[g])
    BY <1>1, <1>2 DEF Under
  <2>2. h # j
    BY <2>1, ItemsDiffer
  <2>3. h \in 1 .. j - 1 /\ \A g \in h + 1 .. j - 1 : g \in h + 1 .. j
    BY <2>2
  <2>4. QED
    BY <2>1, <2>3 DEF Under
<1>3. ASSUME Under(s, k, j, n) PROVE Under(s, k, j + 1, n)
  <2>1. PICK h \in 1 .. j - 1 : s[h] = Select(k, n) /\ \A g \in h + 1 .. j - 1 : ~Selecting(s[g])
    BY <1>3 DEF Under
  <2>2. h \in 1 .. j /\ \A g \in h + 1 .. j : g = j \/ g \in h + 1 .. j - 1
    OBVIOUS
  <2>3. QED
    BY <1>1, <2>1, <2>2 DEF Under
<1>4. QED
  BY <1>2, <1>3

LEMMA UnderSelection ==
  ASSUME NEW s, NEW k, NEW n, NEW j \in Nat, j >= 1, s[j] = Select(k, n)
  PROVE  /\ Under(s, k, j + 1, n)
         /\ \A i, m : Under(s, i, j + 1, m) => i = k /\ m = n
<1>1. (j + 1) - 1 = j
  OBVIOUS
<1>2. Under(s, k, j + 1, n)
  <2>1. j \in 1 .. j /\ \A g \in j + 1 .. j : FALSE
    OBVIOUS
  <2>2. QED
    BY <1>1, <2>1 DEF Under
<1>3. ASSUME NEW i, NEW m, Under(s, i, j + 1, m) PROVE i = k /\ m = n
  <2>1. PICK h \in 1 .. j : s[h] = Select(i, m) /\ \A g \in h + 1 .. j : ~Selecting(s[g])
    BY <1>1, <1>3 DEF Under
  <2>2. h = j
    <3>1. Selecting(s[j])
      BY ItemsDiffer
    <3>2. ~(j \in h + 1 .. j)
      BY <2>1, <3>1
    <3>3. QED
      BY <3>2
  <2>3. QED
    BY <2>1, <2>2, ItemsDiffer
<1>4. QED
  BY <1>2, <1>3

\* Only one entry is the last.
LEMMA UnderOne ==
  ASSUME NEW s, NEW j \in Nat, NEW k, NEW n, Under(s, k, j, n),
         NEW i, NEW m, Under(s, i, j, m)
  PROVE  i = k /\ m = n
<1>1. PICK h \in 1 .. j - 1 : s[h] = Select(k, n) /\ \A g \in h + 1 .. j - 1 : ~Selecting(s[g])
  BY DEF Under
<1>2. PICK f \in 1 .. j - 1 : s[f] = Select(i, m) /\ \A g \in f + 1 .. j - 1 : ~Selecting(s[g])
  BY DEF Under
<1>3. Selecting(s[h]) /\ Selecting(s[f])
  BY <1>1, <1>2, ItemsDiffer
<1>4. ~(h \in f + 1 .. j - 1) /\ ~(f \in h + 1 .. j - 1)
  BY <1>1, <1>2, <1>3
<1>5. h = f
  BY <1>4
<1>6. QED
  BY <1>1, <1>2, <1>5, ItemsDiffer

\* It depends on what comes before.
LEMMA UnderSame ==
  ASSUME NEW s, NEW t, NEW j \in Nat, \A h \in 1 .. j - 1 : s[h] = t[h],
         NEW k, NEW n, Under(s, k, j, n)
  PROVE  Under(t, k, j, n)
<1>1. PICK h \in 1 .. j - 1 : s[h] = Select(k, n) /\ \A g \in h + 1 .. j - 1 : ~Selecting(s[g])
  BY DEF Under
<1>2. \A g \in h + 1 .. j - 1 : g \in 1 .. j - 1
  OBVIOUS
<1>3. QED
  BY <1>1, <1>2 DEF Under

\* The block of an entry: its selector, then its points, and the read that follows.
Block(b, k, entry, n, skipped) ==
  /\ b \in Seq(Item) /\ Len(b) >= 1
  /\ b[1] = Select(k, n)
  /\ \A j \in 2 .. Len(b) :
       \/ \E p \in DOMAIN entry : b[j] = Put(k, p, entry[p])
       \/ b[j] = FollowTo(k, n)
       \/ j > 2 /\ b[j - 1] = FollowTo(k, n) /\ b[j] = ReadAll
  /\ \A p \in DOMAIN entry : entry[p] \notin skipped =>
       \E j \in 2 .. Len(b) : b[j] = Put(k, p, entry[p])

LEMMA EntryBlock ==
  ASSUME NEW k \in DOMAIN Startup, NEW entry, entry \in [DOMAIN entry -> Int],
         DOMAIN entry \subseteq PointsOf(k), NEW n \in Nat \ {0}, NEW skipped
  PROVE  Block(WriteEntry(k, entry, n, skipped), k, entry, n, skipped)
<1> DEFINE due == {p \in DOMAIN entry : entry[p] \notin skipped}
           points == SetToSeq(due)
           a == <<Select(k, n)>>
           d == [i \in DOMAIN points |-> Put(k, points[i], entry[points[i]])]
           c == <<FollowTo(k, n), ReadAll>>
           b == WriteEntry(k, entry, n, skipped)
<1>1. b = a \o d \o c
  BY DEF WriteEntry, Select, Put, FollowTo, ReadAll
<1>2. IsFiniteSet(due) /\ IsFiniteSet(PointsOf(k))
  <2>1. IsFiniteSet(PointsOf(k))
    BY PointsOfKind
  <2>2. due \subseteq PointsOf(k)
    OBVIOUS
  <2>3. QED
    BY <2>1, <2>2, FS_Subset
<1>3. points \in Seq(due) /\ \A p \in due : \E i \in DOMAIN points : points[i] = p
  BY <1>2, SequenceOfSet
<1>4. ASSUME NEW p \in due PROVE Put(k, p, entry[p]) \in Item
  <2>1. p \in PointsOf(k) /\ IsPoint(p) /\ entry[p] \in Int
    BY PointsOfKind
  <2>2. Data(k, p) \in Ports
    BY <2>1 DEF Ports
  <2>3. ~IsSelector(Data(k, p))
    BY <2>1, PortNames
  <2>4. QED
    BY <2>1, <2>2, <2>3 DEF Put, Item, Write
<1>5. Select(k, n) \in Item /\ FollowTo(k, n) \in Item /\ ReadAll \in Item
  <2>1. Selector(k) \in Ports
    BY DEF Ports
  <2>2. QED
    BY <2>1 DEF Select, FollowTo, ReadAll, Item, Write
<1> DEFINE L == Len(points)
<1> HIDE DEF points, due
<1>6. L \in Nat /\ DOMAIN points = 1 .. L /\ \A i \in 1 .. L : points[i] \in due
  BY <1>3
<1> HIDE DEF L
<1>7. d \in Seq(Item) /\ Len(d) = L /\ \A i \in 1 .. L : d[i] = Put(k, points[i], entry[points[i]])
  <2>1. \A i \in 1 .. L : Put(k, points[i], entry[points[i]]) \in Item
    BY <1>4, <1>6
  <2>2. d \in [1 .. L -> Item]
    BY <1>6, <2>1
  <2>3. QED
    BY <1>6, <2>2
<1>8. a \in Seq(Item) /\ c \in Seq(Item)
  BY <1>5
<1> HIDE DEF d
<1>9. /\ b \in Seq(Item) /\ Len(b) = L + 3
      /\ b[1] = Select(k, n)
      /\ \A j \in 2 .. L + 1 : b[j] = d[j - 1]
      /\ b[L + 2] = FollowTo(k, n) /\ b[L + 3] = ReadAll
  <2> HIDE DEF b
  <2>1. a \o d \in Seq(Item) /\ Len(a \o d) = L + 1 /\ (a \o d)[1] = Select(k, n)
        /\ \A j \in 2 .. L + 1 : (a \o d)[j] = d[j - 1]
    BY <1>6, <1>7, <1>8
  <2> DEFINE ad == a \o d
  <2> HIDE DEF ad
  <2>2. ad \in Seq(Item) /\ Len(ad) = L + 1 /\ ad[1] = Select(k, n)
        /\ (\A j \in 2 .. L + 1 : ad[j] = d[j - 1]) /\ b = ad \o c
    BY <1>1, <2>1 DEF ad
  <2>3. Len(c) = 2 /\ c[1] = FollowTo(k, n) /\ c[2] = ReadAll
    OBVIOUS
  <2> HIDE DEF c
  <2>4. /\ b \in Seq(Item) /\ Len(b) = L + 3
        /\ \A j \in 1 .. L + 1 : b[j] = ad[j]
        /\ b[L + 2] = c[1] /\ b[L + 3] = c[2]
    <3>1. /\ b \in Seq(Item) /\ Len(b) = Len(ad) + Len(c)
          /\ \A i \in 1 .. Len(ad) : b[i] = ad[i]
          /\ \A i \in 1 .. Len(c) : b[Len(ad) + i] = c[i]
      <4>1. /\ ad \o c \in Seq(Item) /\ Len(ad \o c) = Len(ad) + Len(c)
            /\ \A i \in 1 .. Len(ad) : (ad \o c)[i] = ad[i]
            /\ \A i \in 1 .. Len(c) : (ad \o c)[Len(ad) + i] = c[i]
        <5>1. ad \in Seq(Item) /\ c \in Seq(Item)
          BY <1>8, <2>2
        <5>2. QED
          BY <5>1, ConcatParts
      <4>2. QED
        BY <2>2, <4>1
    <3>2. b[L + 1 + 1] = c[1] /\ b[L + 1 + 2] = c[2]
      BY <2>2, <2>3, <3>1
    <3>3. L + 1 + 1 = L + 2 /\ L + 1 + 2 = L + 3
      BY <1>6
    <3>4. QED
      BY <2>2, <2>3, <3>1, <3>2, <3>3
  <2>5. 1 \in 1 .. L + 1 /\ \A j \in 2 .. L + 1 : j \in 1 .. L + 1
    BY <1>6
  <2>6. QED
    BY <2>2, <2>3, <2>4, <2>5
<1> HIDE DEF b
<1>10. ASSUME NEW j \in 2 .. Len(b)
       PROVE  \/ \E p \in DOMAIN entry : b[j] = Put(k, p, entry[p])
              \/ b[j] = FollowTo(k, n)
              \/ j > 2 /\ b[j - 1] = FollowTo(k, n) /\ b[j] = ReadAll
  <2>1. CASE j <= L + 1
    <3>1. j \in 2 .. L + 1 /\ j - 1 \in 1 .. L
      BY <1>6, <1>9, <2>1
    <3>2. points[j - 1] \in DOMAIN entry
      BY <1>6, <3>1 DEF due
    <3>3. QED
      BY <1>7, <1>9, <3>1, <3>2
  <2>2. CASE j = L + 2
    BY <1>9, <2>2
  <2>3. CASE j = L + 3
    <3>1. j > 2 /\ j - 1 = L + 2
      BY <1>6, <2>3
    <3>2. QED
      BY <1>9, <2>3, <3>1
  <2>4. QED
    BY <1>6, <1>9, <2>1, <2>2, <2>3
<1>11. ASSUME NEW p \in DOMAIN entry, entry[p] \notin skipped
       PROVE  \E j \in 2 .. Len(b) : b[j] = Put(k, p, entry[p])
  <2>1. PICK i \in 1 .. L : points[i] = p
    BY <1>3, <1>6, <1>11 DEF due
  <2>2. i + 1 \in 2 .. L + 1 /\ i + 1 \in 2 .. L + 3 /\ (i + 1) - 1 = i
    BY <1>6
  <2>3. b[i + 1] = Put(k, p, entry[p])
    BY <1>7, <1>9, <2>1, <2>2
  <2>4. QED
    BY <1>9, <2>2, <2>3
<1>12. Len(b) >= 1
  BY <1>6, <1>9
<1>13. QED
  BY <1>9, <1>10, <1>11, <1>12 DEF Block, b

\* A script of a kind's entries up to m: every entry is selected after the one
\* before, every point is written and every read is made with its entry selected.
Entries(s, k, prof, skipped, m) ==
  /\ s \in Seq(Item)
  /\ \A j \in DOMAIN s :
       \/ \E n \in 1 .. m : s[j] = Select(k, n) /\ (n = 1 \/ Under(s, k, j, n - 1))
       \/ \E n \in 1 .. m : /\ Under(s, k, j, n)
                           /\ \E p \in DOMAIN prof[k][n] : s[j] = Put(k, p, prof[k][n][p])
       \/ \E n \in 1 .. m : Under(s, k, j, n) /\ s[j] = FollowTo(k, n)
       \/ \E n \in 1 .. m : /\ Under(s, k, j, n) /\ s[j] = ReadAll
                           /\ j > 1 /\ s[j - 1] = FollowTo(k, n)
  /\ \A n \in 1 .. m : \A p \in DOMAIN prof[k][n] : prof[k][n][p] \notin skipped =>
       \E j \in DOMAIN s : Under(s, k, j, n) /\ s[j] = Put(k, p, prof[k][n][p])
  /\ m > 0 => Under(s, k, Len(s) + 1, m)

\* With the block of the next entry it is one of an entry more.
LEMMA OneEntryMore ==
  ASSUME NEW k \in DOMAIN Startup, NEW prof, NEW skipped, NEW m \in Nat,
         NEW s, Entries(s, k, prof, skipped, m),
         NEW b, Block(b, k, prof[k][m + 1], m + 1, skipped),
         DOMAIN prof[k][m + 1] \subseteq PointsOf(k)
  PROVE  Entries(s \o b, k, prof, skipped, m + 1)
<1> DEFINE t == s \o b
           N == Len(s)
           entry == prof[k][m + 1]
<1>1. s \in Seq(Item) /\ b \in Seq(Item) /\ N \in Nat /\ DOMAIN s = 1 .. N /\ Len(b) \in Nat
  BY DEF Entries, Block
<1>2. /\ t \in Seq(Item) /\ DOMAIN t = 1 .. N + Len(b) /\ Len(t) = N + Len(b)
      /\ \A i \in 1 .. N : t[i] = s[i]
      /\ \A i \in 1 .. Len(b) : t[N + i] = b[i]
  BY <1>1, ConcatParts
<1> HIDE DEF t, N, entry
<1>3. \A i \in 1 .. N : i \in DOMAIN t /\ t[i] = s[i]
  <2>1. \A i \in 1 .. N : i \in 1 .. N + Len(b)
    BY <1>1
  <2>2. QED
    BY <1>2, <2>1
<1>4. ASSUME NEW i \in 1 .. N + 1, NEW n, Under(s, k, i, n) PROVE Under(t, k, i, n)
  <2>1. i \in Nat /\ \A h \in 1 .. i - 1 : h \in 1 .. N
    BY <1>1
  <2>2. \A h \in 1 .. i - 1 : s[h] = t[h]
    BY <1>3, <2>1
  <2>3. QED
    BY <1>4, <2>1, <2>2, UnderSame
<1>5. Len(b) >= 1 /\ b[1] = Select(k, m + 1)
  BY DEF Block
<1>6. N + 1 \in DOMAIN t /\ t[N + 1] = Select(k, m + 1)
  <2>1. 1 \in 1 .. Len(b) /\ N + 1 \in 1 .. N + Len(b)
    BY <1>1, <1>5
  <2>2. QED
    BY <1>2, <1>5, <2>1
<1>7. \A j \in 2 .. Len(b) : N + j \in DOMAIN t /\ t[N + j] = b[j]
  <2>1. \A j \in 2 .. Len(b) : j \in 1 .. Len(b) /\ N + j \in 1 .. N + Len(b)
    BY <1>1
  <2>2. QED
    BY <1>2, <2>1
<1>8. ASSUME NEW j \in 2 .. Len(b) PROVE ~Selecting(b[j])
  <2>1. \A p \in DOMAIN entry : IsPoint(p)
    BY PointsOfKind DEF entry
  <2>2. \/ \E p \in DOMAIN entry : b[j] = Put(k, p, entry[p])
        \/ b[j] = FollowTo(k, m + 1)
        \/ b[j] = ReadAll
    BY DEF Block, entry
  <2>3. QED
    BY <2>1, <2>2, ItemsDiffer
<1>9. \A j \in 2 .. Len(b) + 1 : Under(t, k, N + j, m + 1)
  <2>1. ASSUME NEW j \in 2 .. Len(b) + 1 PROVE Under(t, k, N + j, m + 1)
    <3>1. N + 1 \in 1 .. (N + j) - 1
      BY <1>1
    <3>2. ASSUME NEW g \in (N + 1) + 1 .. (N + j) - 1 PROVE ~Selecting(t[g])
      <4>1. g - N \in 2 .. Len(b) /\ N + (g - N) = g
        BY <1>1
      <4>2. QED
        BY <1>7, <1>8, <4>1
    <3>3. QED
      BY <1>6, <3>1, <3>2 DEF Under
  <2>2. QED
    BY <2>1
<1>10. \A n \in 1 .. m : n \in 1 .. m + 1
  OBVIOUS
<1>11. m + 1 \in 1 .. m + 1
  OBVIOUS
<1>12. ASSUME NEW j \in DOMAIN t
       PROVE  \/ \E n \in 1 .. m + 1 : t[j] = Select(k, n) /\ (n = 1 \/ Under(t, k, j, n - 1))
              \/ \E n \in 1 .. m + 1 : /\ Under(t, k, j, n)
                                      /\ \E p \in DOMAIN prof[k][n] : t[j] = Put(k, p, prof[k][n][p])
              \/ \E n \in 1 .. m + 1 : Under(t, k, j, n) /\ t[j] = FollowTo(k, n)
              \/ \E n \in 1 .. m + 1 : /\ Under(t, k, j, n) /\ t[j] = ReadAll
                                      /\ j > 1 /\ t[j - 1] = FollowTo(k, n)
  <2>1. CASE j \in 1 .. N
    <3>1. t[j] = s[j] /\ (j > 1 => j - 1 \in 1 .. N /\ t[j - 1] = s[j - 1]) /\ j \in 1 .. N + 1
      BY <1>1, <1>3, <2>1
    <3>2. \/ \E n \in 1 .. m : s[j] = Select(k, n) /\ (n = 1 \/ Under(s, k, j, n - 1))
          \/ \E n \in 1 .. m : /\ Under(s, k, j, n)
                              /\ \E p \in DOMAIN prof[k][n] : s[j] = Put(k, p, prof[k][n][p])
          \/ \E n \in 1 .. m : Under(s, k, j, n) /\ s[j] = FollowTo(k, n)
          \/ \E n \in 1 .. m : /\ Under(s, k, j, n) /\ s[j] = ReadAll
                              /\ j > 1 /\ s[j - 1] = FollowTo(k, n)
      BY <1>1, <2>1 DEF Entries
    <3>3. \A n : Under(s, k, j, n) => Under(t, k, j, n)
      BY <1>4, <3>1
    <3>4. QED
      BY <1>10, <3>1, <3>2, <3>3
  <2>2. CASE j = N + 1
    <3>1. m + 1 # 1 => Under(t, k, j, (m + 1) - 1)
      <4>1. SUFFICES ASSUME m > 0 PROVE Under(t, k, j, m)
        OBVIOUS
      <4>2. Under(s, k, N + 1, m)
        BY <4>1 DEF Entries, N
      <4>3. N + 1 \in 1 .. N + 1
        BY <1>1
      <4>4. QED
        BY <1>4, <2>2, <4>2, <4>3
    <3>2. QED
      BY <1>6, <1>11, <2>2, <3>1
  <2>3. CASE j > N + 1
    <3>1. j - N \in 2 .. Len(b) /\ j - N \in 2 .. Len(b) + 1 /\ N + (j - N) = j /\ j > 1
      BY <1>1, <1>2, <2>3
    <3>2. Under(t, k, j, m + 1) /\ t[j] = b[j - N]
      BY <1>7, <1>9, <3>1
    <3>3. \/ \E p \in DOMAIN entry : b[j - N] = Put(k, p, entry[p])
          \/ b[j - N] = FollowTo(k, m + 1)
          \/ j - N > 2 /\ b[(j - N) - 1] = FollowTo(k, m + 1) /\ b[j - N] = ReadAll
      BY <3>1 DEF Block, entry
    <3>4. j - N > 2 => t[j - 1] = b[(j - N) - 1]
      <4>1. ASSUME j - N > 2 PROVE (j - N) - 1 \in 2 .. Len(b) /\ N + ((j - N) - 1) = j - 1
        BY <1>1, <3>1, <4>1
      <4>2. QED
        BY <1>7, <4>1
    <3>5. QED
      BY <1>11, <3>1, <3>2, <3>3, <3>4 DEF entry
  <2>4. QED
    BY <1>1, <1>2, <2>1, <2>2, <2>3
<1>13. ASSUME NEW n \in 1 .. m + 1, NEW p \in DOMAIN prof[k][n], prof[k][n][p] \notin skipped
       PROVE  \E j \in DOMAIN t : Under(t, k, j, n) /\ t[j] = Put(k, p, prof[k][n][p])
  <2>1. CASE n \in 1 .. m
    <3>1. PICK j \in DOMAIN s : Under(s, k, j, n) /\ s[j] = Put(k, p, prof[k][n][p])
      BY <1>13, <2>1 DEF Entries
    <3>2. j \in 1 .. N /\ j \in 1 .. N + 1
      BY <1>1
    <3>3. QED
      BY <1>3, <1>4, <3>1, <3>2
  <2>2. CASE n = m + 1
    <3>1. PICK j \in 2 .. Len(b) : b[j] = Put(k, p, prof[k][n][p])
      BY <1>13, <2>2 DEF Block
    <3>2. j \in 2 .. Len(b) + 1
      BY <1>1
    <3>3. Under(t, k, N + j, n) /\ N + j \in DOMAIN t /\ t[N + j] = Put(k, p, prof[k][n][p])
      BY <1>7, <1>9, <2>2, <3>1, <3>2
    <3>4. QED
      BY <3>3
  <2>3. QED
    BY <2>1, <2>2
<1>14. Under(t, k, Len(t) + 1, m + 1)
  <2>1. Len(b) + 1 \in 2 .. Len(b) + 1 /\ N + (Len(b) + 1) = Len(t) + 1
    BY <1>1, <1>2, <1>5
  <2>2. QED
    BY <1>9, <2>1
<1>15. QED
  BY <1>2, <1>12, <1>13, <1>14 DEF Entries, t

\* How many entries of a kind a profile has, and which values are not written.
Count(prof, k) == IF k \in DOMAIN prof THEN Len(prof[k]) ELSE 0
Skipped(k) == IF k = "schedule_bc" THEN {} ELSE {NA}

\* What the writers of entries write.
LEMMA ScriptsOfEntries ==
  ASSUME NEW prof \in Profiles, NEW k, NEW skipped
  PROVE  Entries(WriteEntries(k, prof, skipped), k, prof, skipped, Count(prof, k))
<1>1. Entries(<<>>, k, prof, skipped, 0)
  <2>1. DOMAIN <<>> = {} /\ 1 .. 0 = {} /\ <<>> \in Seq(Item)
    OBVIOUS
  <2>2. QED
    BY <2>1 DEF Entries
<1>2. CASE k \notin DOMAIN prof
  BY <1>1, <1>2 DEF WriteEntries, Count
<1>3. CASE k \in DOMAIN prof
  <2> DEFINE N == Len(prof[k])
             ss == [n \in DOMAIN prof[k] |-> WriteEntry(k, prof[k][n], n, skipped)]
  <2>1. /\ k \in DOMAIN Startup /\ N \in Nat /\ DOMAIN prof[k] = 1 .. N
        /\ \A n \in 1 .. N : /\ prof[k][n] \in [DOMAIN prof[k][n] -> Int]
                            /\ DOMAIN prof[k][n] \subseteq PointsOf(k)
    BY <1>3, EntriesOfProfiles
  <2>2. WriteEntries(k, prof, skipped) = FlattenSeq(ss) /\ Count(prof, k) = N
    BY <1>3 DEF WriteEntries, Count
  <2> HIDE DEF N
  <2>3. \A n \in 1 .. N : ss[n] = WriteEntry(k, prof[k][n], n, skipped)
    BY <2>1
  <2>4. ASSUME NEW n \in 1 .. N PROVE Block(ss[n], k, prof[k][n], n, skipped)
    <3>1. n \in Nat \ {0}
      BY <2>1
    <3>2. QED
      BY <2>1, <2>3, <3>1, EntryBlock
  <2>5. ss \in [1 .. N -> Seq(Item)]
    <3>1. \A n \in 1 .. N : ss[n] \in Seq(Item)
      BY <2>4 DEF Block
    <3>2. ss = [n \in 1 .. N |-> ss[n]]
      BY <2>1
    <3> HIDE DEF ss
    <3>3. QED
      BY <3>1, <3>2
  <2>6. CASE N = 0
    <3>1. ss = <<>>
      BY <2>1, <2>6
    <3>2. FlattenSeq(ss) = <<>>
      BY <3>1 DEF FlattenSeq
    <3>3. QED
      BY <1>1, <2>2, <2>6, <3>2
  <2>7. CASE N # 0
    <3> HIDE DEF ss
    <3>1. N >= 1
      BY <2>1, <2>7
    <3>2. PICK g \in [1 .. N -> Seq(Item)] : GrowsBy(g, ss, N) /\ FlattenSeq(ss) = g[N]
      <4>1. N \in Nat /\ N >= 1 /\ ss \in [1 .. N -> Seq(Item)]
        BY <2>1, <2>5, <3>1
      <4>2. QED
        BY <4>1, FlattenByParts
    <3> DEFINE T == {n \in Nat : n + 1 <= N => Entries(g[n + 1], k, prof, skipped, n + 1)}
    <3>3. 0 \in T
      <4>1. Block(ss[1], k, prof[k][0 + 1], 0 + 1, skipped) /\ DOMAIN prof[k][0 + 1] \subseteq PointsOf(k)
        <5>1. 1 \in 1 .. N /\ 0 + 1 = 1
          BY <2>1, <3>1
        <5>2. QED
          BY <2>1, <2>4, <5>1
      <4>2. Entries(<<>> \o ss[1], k, prof, skipped, 0 + 1)
        BY <1>1, <2>1, <4>1, OneEntryMore
      <4>3. <<>> \o ss[1] = ss[1]
        <5>1. ss[1] \in Seq(Item)
          BY <4>1 DEF Block
        <5>2. QED
          BY <5>1, ConcatEmptySeq
      <4>4. Entries(g[1], k, prof, skipped, 1) /\ 0 + 1 = 1
        BY <3>2, <4>2, <4>3 DEF GrowsBy
      <4>5. QED
        BY <4>4
    <3>4. ASSUME NEW n \in Nat, n \in T PROVE n + 1 \in T
      <4> SUFFICES ASSUME (n + 1) + 1 <= N PROVE Entries(g[(n + 1) + 1], k, prof, skipped, (n + 1) + 1)
        OBVIOUS
      <4>1. n + 1 <= N /\ n + 1 \in Nat /\ n + 1 \in 1 .. N - 1 /\ (n + 1) + 1 \in 1 .. N
        BY <2>1
      <4>2. Entries(g[n + 1], k, prof, skipped, n + 1)
        BY <3>4, <4>1
      <4>3. Block(ss[(n + 1) + 1], k, prof[k][(n + 1) + 1], (n + 1) + 1, skipped)
            /\ DOMAIN prof[k][(n + 1) + 1] \subseteq PointsOf(k)
        BY <2>1, <2>4, <4>1
      <4>4. g[(n + 1) + 1] = g[n + 1] \o ss[(n + 1) + 1]
        BY <3>2, <4>1 DEF GrowsBy
      <4>5. QED
        BY <2>1, <4>1, <4>2, <4>3, <4>4, OneEntryMore
    <3> HIDE DEF T
    <3>5. N - 1 \in T /\ (N - 1) + 1 = N
      <4>1. N - 1 \in Nat /\ (N - 1) + 1 = N
        BY <2>1, <3>1
      <4>2. QED
        BY <3>3, <3>4, <4>1, SetInduction
    <3>6. Entries(g[N], k, prof, skipped, N)
      BY <2>1, <3>5 DEF T
    <3>7. QED
      BY <2>2, <3>2, <3>6
  <2>8. QED
    BY <2>6, <2>7
<1>4. QED
  BY <1>2, <1>3

\* The kind whose entries the writer of a number writes.
KindOf == <<"ao", "curve", "schedule_bc", "schedule">>

\* What a script of a writer is.
Scripted(s, writer, prof) ==
  IF writer = 1 THEN s \in Seq({Select(k, 0) : k \in DOMAIN Startup})
  ELSE Entries(s, KindOf[writer], prof, Skipped(KindOf[writer]), Count(prof, KindOf[writer]))

LEMMA ScriptsOfWriters ==
  ASSUME NEW prof \in Profiles, NEW w \in 1 .. 4
  PROVE  Scripted(Script(Writers[w], prof), w, prof)
<1>1. CASE w = 1
  <2> DEFINE due == {k \in DOMAIN prof : k \notin sent \/ latest[k] # 0}
             items == {Select(k, 0) : k \in due}
  <2>1. Script(Writers[w], prof) = SetToSeq(items)
    BY <1>1 DEF Script, Writers, WriteAllAO, Select
  <2>2. IsFiniteSet(due)
    <3>1. Kind = {"curve"} \cup {"schedule_bc"} \cup {"schedule"}
      BY DEF Kind
    <3>2. IsFiniteSet(Kind)
      BY <3>1, FS_Singleton, FS_Union
    <3>3. due \subseteq Kind
      BY EntriesOfProfiles
    <3>4. QED
      BY <3>2, <3>3, FS_Subset
  <2>3. IsFiniteSet(items)
    <3> DEFINE f == [k \in due |-> Select(k, 0)]
    <3>1. items = {f[k] : k \in due}
      OBVIOUS
    <3> HIDE DEF f, items, due
    <3>2. QED
      BY <2>2, <3>1, FiniteImage
  <2>4. items \subseteq {Select(k, 0) : k \in DOMAIN Startup}
    BY EntriesOfProfiles
  <2> HIDE DEF items, due
  <2>5. SetToSeq(items) \in Seq({Select(k, 0) : k \in DOMAIN Startup})
    BY <2>3, <2>4, SequenceOfSet
  <2>6. QED
    BY <1>1, <2>1, <2>5 DEF Scripted
<1>2. CASE w \in 2 .. 4
  <2>1. Script(Writers[w], prof) = WriteEntries(KindOf[w], prof, Skipped(KindOf[w])) /\ w # 1
    BY <1>2 DEF Script, Writers, KindOf, Skipped, WriteCurves, WriteSchedulesBC, WriteSchedules
  <2>2. QED
    BY <2>1, ScriptsOfEntries DEF Scripted
<1>3. QED
  BY <1>1, <1>2

-----------------------------------------------------------------------------
(* Types.                                                                  *)

Asked == Write \cup {ReadAll}
ToOutstation == Asked \cup [op : {"integrity", "confirm"}]
Message == [type : {"answer", "integrity", "report"}, values : Seq(Update)]

Loops == [at : Passes \cup {"select", "test"}, writer : 0 .. 4, script : Seq(Item),
          i : Nat \ {0}, waits : BOOLEAN, since : Nat]

Outstation ==
  /\ shown \in [Ports -> Int] /\ dbs \in Databanks /\ \A k \in Kind : Whole(k, dbs[k])
  /\ changes \in Seq(Update) /\ reported \in Nat
Connection == reqs \in Seq(ToOutstation) /\ wire \in Seq(Message) /\ broken \in Nat
Station ==
  /\ mirror \in Databanks /\ latest \in [Kind -> Int]
  /\ profile \in Profiles /\ scenario \in Nat /\ notify \in BOOLEAN
  /\ loop \in Loops /\ loop.since <= broken
  /\ loop.writer = 0 => loop.script = <<>> /\ loop.i = 1
  /\ loop.writer # 0 => loop.at \in Passes
                        /\ \E prof \in Profiles : Scripted(loop.script, loop.writer, prof)

TypeOK == Outstation /\ Connection /\ Station

\* One request is open at most, the item the loop waits for: it is on its way, or
\* being answered.
IsAsked(r) == r.op \in {"write", "read"}
NoRequest == \A j \in DOMAIN reqs : ~IsAsked(reqs[j])
NoAnswer == \A j \in DOMAIN wire : wire[j].type # "answer"

OneOpen ==
  /\ loop.waits => loop.at \in Passes /\ loop.i <= Len(loop.script) /\ IsAsked(Written)
  /\ \A j \in DOMAIN reqs : IsAsked(reqs[j]) =>
       /\ loop.waits /\ reqs[j] = Written
       /\ \A h \in DOMAIN reqs : IsAsked(reqs[h]) => h = j
       /\ NoAnswer
  /\ \A j \in DOMAIN wire : wire[j].type = "answer" =>
       loop.waits /\ \A h \in DOMAIN wire : wire[h].type = "answer" => h = j

\* What is written and read is one of the loop's; a script is of items.
LEMMA ScriptsOfItems ==
  ASSUME NEW prof \in Profiles, NEW w \in 1 .. 4, NEW s, Scripted(s, w, prof)
  PROVE  s \in Seq(Item)
<1>1. CASE w = 1
  <2>1. \A k \in DOMAIN Startup : Select(k, 0) \in Item
    BY DEF Select, Item, Write, Ports
  <2>2. {Select(k, 0) : k \in DOMAIN Startup} \subseteq Item
    BY <2>1
  <2>3. s \in Seq({Select(k, 0) : k \in DOMAIN Startup})
    BY <1>1 DEF Scripted
  <2> DEFINE I == {Select(k, 0) : k \in DOMAIN Startup}
  <2>4. s \in Seq(I) /\ I \subseteq Item
    BY <2>2, <2>3
  <2> HIDE DEF I
  <2>5. QED
    BY <2>4
<1>2. CASE w # 1
  BY <1>2 DEF Scripted, Entries
<1>3. QED
  BY <1>1, <1>2

LEMMA AdvancedTypes ==
  ASSUME TypeOK
  PROVE  /\ Advanced \in Loops /\ Advanced.at = loop.at /\ Advanced.writer = loop.writer
         /\ Advanced.script = loop.script /\ Advanced.i = loop.i + 1 /\ ~Advanced.waits
         /\ Advanced.since = loop.since
<1>1. loop \in Loops /\ loop.i \in Nat \ {0} /\ loop.i + 1 \in Nat \ {0}
  BY DEF TypeOK, Station, Loops
<1> DEFINE j == loop.i + 1
<1>2. Advanced = [loop EXCEPT !.i = j, !.waits = FALSE]
  BY DEF Advanced
<1>3. j \in Nat \ {0}
  BY <1>1
<1> HIDE DEF j
<1>4. QED
  BY <1>1, <1>2, <1>3 DEF Loops, j

LEMMA PassTypes ==
  ASSUME TypeOK, NEW at \in Passes \cup {"select", "test"}
  PROVE  /\ Pass(at) \in Loops /\ Pass(at).at = at /\ Pass(at).writer = 0
         /\ Pass(at).script = <<>> /\ Pass(at).i = 1 /\ ~Pass(at).waits
         /\ Pass(at).since = broken
<1>1. broken \in Nat /\ <<>> \in Seq(Item)
  BY DEF TypeOK, Connection
<1>2. QED
  BY <1>1 DEF Pass, Loops

\* The item the loop is at.
LEMMA WrittenIsItem ==
  ASSUME TypeOK, loop.i <= Len(loop.script)
  PROVE  /\ loop.i \in DOMAIN loop.script /\ Written \in Item
         /\ Written.op \in {"write", "read"} => Written \in Asked
         /\ Written.op = "write" => Written \in Write
         /\ Written.op = "read" => Written = ReadAll
         /\ Written.op = "follow" =>
              Written \in [op : {"follow"}, kind : DOMAIN Startup, number : Nat \ {0}]
<1>1. loop.script \in Seq(Item) /\ loop.i \in Nat \ {0}
  BY DEF TypeOK, Station, Loops
<1>2. loop.i \in DOMAIN loop.script /\ Written \in Item
  BY <1>1 DEF Written
<1>3. QED
  BY <1>2 DEF Item, Asked, Write, ReadAll

\* What the control station has after an entry was followed.
LEMMA FollowTypes ==
  ASSUME mirror \in Databanks, NEW k \in Kind, NEW n \in Nat
  PROVE  [mirror EXCEPT ![k] = SetActive(@, n)] \in Databanks
<1>1. mirror[k] \in Database(k)
  BY DEF Databanks
<1>2. SetActive(mirror[k], n) \in Database(k)
  BY <1>1, SelectingKeepsDatabases
<1>3. QED
  BY <1>2, DatabanksStay

\* A served operate.
LEMMA OperateTypes ==
  ASSUME TypeOK, ServeOperate
  PROVE  TypeOK'
<1> DEFINE r == Head(reqs)
           all == changes \o ChangesOf(shown, OperatedInputs(r.port, r.value))
           over == IF Len(all) > Capacity THEN Len(all) - Capacity ELSE 0
<1>1. r \in Write
  <2>1. r \in ToOutstation /\ r.op = "write"
    BY Queue DEF ServeOperate, TypeOK, Connection
  <2>2. QED
    BY <2>1 DEF ToOutstation, Asked, ReadAll
<1>2. /\ OperatedInputs(r.port, r.value) \in [Ports -> Int]
      /\ Whole(r.port[1], OperatedDb(r.port, r.value))
      /\ r.port[1] \in Kind
  <2>1. shown \in [Ports -> Int] /\ dbs \in Databanks /\ \A k \in Kind : Whole(k, dbs[k])
    BY DEF TypeOK, Outstation
  <2>2. r.port \in Ports
    BY <1>1 DEF Write
  <2> HIDE DEF r
  <2>3. QED
    BY <1>1, <2>1, <2>2, OperatesStayInBounds, PortsHaveOneName
<1>3. ChangesOf(shown, OperatedInputs(r.port, r.value)) \in Seq(Update)
  <2> HIDE DEF r
  <2>1. QED
    BY <1>2, ValuesAreUpdates DEF ChangesOf
<1>4. all \in Seq(Update) /\ Len(all) \in Nat
  BY <1>3 DEF TypeOK, Outstation
<1>5. Capacity \in Nat
  BY PortsAreFinite, FS_CardinalityType DEF Capacity
<1>6. over \in Nat
  BY <1>4, <1>5
<1>7. /\ shown' = OperatedInputs(r.port, r.value)
      /\ dbs' = [dbs EXCEPT ![r.port[1]] = OperatedDb(r.port, r.value)]
      /\ changes' = SubSeq(all, over + 1, Len(all))
      /\ reported' = IF reported > over THEN reported - over ELSE 0
      /\ wire' = Append(wire, [type |-> "answer", values |-> <<>>])
      /\ reqs' = Tail(reqs) /\ reqs # <<>>
      /\ UNCHANGED <<broken, stationVars>>
  BY DEF ServeOperate
<1> HIDE DEF r, all, over
<1>8. changes' \in Seq(Update) /\ reported' \in Nat
  BY <1>4, <1>6, <1>7 DEF TypeOK, Outstation
<1>9. dbs' \in Databanks /\ \A k \in Kind : Whole(k, dbs'[k])
  <2>1. OperatedDb(r.port, r.value) \in Database(r.port[1])
    BY <1>2 DEF Whole
  <2>2. dbs \in Databanks /\ \A k \in Kind : Whole(k, dbs[k])
    BY DEF TypeOK, Outstation
  <2> DEFINE new == OperatedDb(r.port, r.value)
             kind == r.port[1]
  <2>3. new \in Database(kind) /\ kind \in Kind /\ Whole(kind, new) /\ dbs' = [dbs EXCEPT ![kind] = new]
    BY <1>2, <1>7, <2>1
  <2> HIDE DEF new, kind
  <2>4. /\ [dbs EXCEPT ![kind] = new] \in Databanks
        /\ \A k \in Kind : [dbs EXCEPT ![kind] = new][k] = IF k = kind THEN new ELSE dbs[k]
    <3>1. dbs \in Databanks /\ new \in Database(kind) /\ kind \in Kind
      BY <2>2, <2>3
    <3>2. QED
      BY <3>1, DatabanksStay
  <2>5. QED
    BY <2>2, <2>3, <2>4
<1>10. Outstation'
  BY <1>2, <1>7, <1>8, <1>9 DEF Outstation
<1>11. Connection'
  <2>1. [type |-> "answer", values |-> <<>>] \in Message
    <3>1. <<>> \in Seq(Update)
      OBVIOUS
    <3>2. QED
      BY <3>1 DEF Message
  <2>2. wire' \in Seq(Message)
    BY <1>7, <2>1, Enqueue DEF TypeOK, Connection
  <2>3. reqs' \in Seq(ToOutstation)
    BY <1>7, Queue DEF TypeOK, Connection
  <2>4. QED
    BY <1>7, <2>2, <2>3 DEF TypeOK, Connection
<1>12. Station'
  BY <1>7 DEF TypeOK, Station, stationVars
<1>13. QED
  BY <1>10, <1>11, <1>12 DEF TypeOK

\* All values, and what else the outstation sends.
LEMMA ServeTypes ==
  ASSUME TypeOK, ServeRead \/ ServeIntegrity \/ Report \/ ServeConfirm
  PROVE  TypeOK'
<1>1. ASSUME reqs # <<>>, reqs' = Tail(reqs) PROVE reqs' \in Seq(ToOutstation)
  BY <1>1, Queue DEF TypeOK, Connection
<1>2. Snapshot \in Seq(Update)
  BY ValuesAreUpdates DEF Snapshot, TypeOK, Outstation
<1>3. ASSUME NEW ty \in {"answer", "integrity", "report"}, NEW v \in Seq(Update),
             wire' = Append(wire, [type |-> ty, values |-> v])
      PROVE  wire' \in Seq(Message)
  <2>1. [type |-> ty, values |-> v] \in Message
    BY DEF Message
  <2>2. QED
    BY <1>3, <2>1, Enqueue DEF TypeOK, Connection
<1>4. Station'
  BY DEF ServeRead, ServeIntegrity, Report, ServeConfirm, TypeOK, Station, stationVars
<1>5. UNCHANGED <<shown, dbs, broken>>
  BY DEF ServeRead, ServeIntegrity, Report, ServeConfirm
<1>6. CASE ServeRead \/ ServeIntegrity
  <2>1. reqs' \in Seq(ToOutstation) /\ UNCHANGED <<changes, reported>>
    BY <1>1, <1>6 DEF ServeRead, ServeIntegrity
  <2>2. wire' \in Seq(Message)
    BY <1>2, <1>3, <1>6 DEF ServeRead, ServeIntegrity
  <2>3. QED
    BY <1>4, <1>5, <2>1, <2>2 DEF TypeOK, Outstation, Connection
<1>7. CASE Report
  <2>1. changes \in Seq(Update) /\ changes' = changes /\ reported' = Len(changes) /\ reqs' = reqs
    BY <1>7 DEF Report, TypeOK, Outstation
  <2>2. wire' \in Seq(Message)
    BY <1>3, <1>7, <2>1 DEF Report
  <2>3. reported' \in Nat
    BY <2>1
  <2>4. QED
    BY <1>4, <1>5, <2>1, <2>2, <2>3 DEF TypeOK, Outstation, Connection
<1>8. CASE ServeConfirm
  <2>1. reqs' \in Seq(ToOutstation) /\ wire' = wire
    BY <1>1, <1>8 DEF ServeConfirm
  <2>2. changes' \in Seq(Update) /\ reported' = 0
    BY <1>8 DEF ServeConfirm, TypeOK, Outstation
  <2>3. QED
    BY <1>4, <1>5, <2>1, <2>2 DEF TypeOK, Outstation, Connection
<1>9. QED
  BY <1>6, <1>7, <1>8

LEMMA ReceiveTypes ==
  ASSUME TypeOK, OneOpen, Receive
  PROVE  TypeOK'
<1> DEFINE m == Head(wire)
           known == HeardAll([mirror |-> mirror, latest |-> latest], m.values)
<1>1. /\ wire # <<>> /\ wire' = Tail(wire)
      /\ mirror' = known.mirror /\ latest' = known.latest
      /\ loop' = loop \/ loop' = Advanced
      /\ reqs' = reqs \/ reqs' = Append(reqs, [op |-> "confirm"])
      /\ UNCHANGED <<outVars, broken, profile, scenario, notify>>
  BY DEF Receive
<1>2. m \in Message /\ wire' \in Seq(Message)
  BY <1>1, Queue DEF TypeOK, Connection
<1>3. m.values \in Seq(Update)
  BY <1>2 DEF Message
<1>4. mirror' \in Databanks /\ latest' \in [Kind -> Int]
  <2> HIDE DEF m
  <2>1. QED
    BY <1>1, <1>3, HeardIsKnown DEF TypeOK, Station
<1>5. reqs' \in Seq(ToOutstation)
  <2> DEFINE c == [op |-> "confirm"]
  <2>1. c \in ToOutstation
    BY DEF ToOutstation
  <2> HIDE DEF c
  <2>2. reqs \in Seq(ToOutstation) /\ (reqs' = reqs \/ reqs' = Append(reqs, c))
    BY <1>1 DEF TypeOK, Connection, c
  <2>3. Append(reqs, c) \in Seq(ToOutstation)
    BY <2>1, <2>2, Enqueue
  <2>4. QED
    BY <2>2, <2>3
<1>6. /\ loop' \in Loops /\ loop'.at = loop.at /\ loop'.writer = loop.writer
      /\ loop'.script = loop.script /\ loop'.since = loop.since
  BY <1>1, AdvancedTypes DEF TypeOK, Station
<1>7. loop.writer = 0 => loop'.i = 1
  <2>1. loop.writer = 0 => ~loop.waits
    <3>1. loop.writer = 0 => loop.script = <<>> /\ loop.i = 1
      BY DEF TypeOK, Station
    <3>2. Len(<<>>) = 0
      OBVIOUS
    <3>3. QED
      BY <3>1, <3>2 DEF OneOpen
  <2>2. m = wire[1] /\ 1 \in DOMAIN wire
    BY <1>1, Queue DEF TypeOK, Connection
  <2>3. ~loop.waits => m.type # "answer"
    BY <2>2 DEF OneOpen
  <2>4. m.type # "answer" => loop' = loop
    BY DEF Receive
  <2>5. QED
    BY <2>1, <2>3, <2>4 DEF TypeOK, Station
<1>8. QED
  BY <1>1, <1>2, <1>4, <1>5, <1>6, <1>7 DEF TypeOK, Outstation, Connection, Station, outVars

\* Where the next step of the loop leaves it.
LEMMA LoopTypes ==
  ASSUME TypeOK, OneOpen, Loop
  PROVE  TypeOK'
<1> DEFINE CopyTyped == mirror' \in Databanks /\ latest' \in [Kind -> Int] /\ notify' \in BOOLEAN
           Rest == UNCHANGED <<outVars, wire, broken, profile, scenario>>
           Looped == /\ loop' \in Loops /\ loop'.since <= broken
                     /\ loop'.writer = 0 => loop'.script = <<>> /\ loop'.i = 1
                     /\ loop'.writer # 0 =>
                          loop'.at \in Passes
                          /\ \E prof \in Profiles : Scripted(loop'.script, loop'.writer, prof)
<1>1. ASSUME Rest, reqs' \in Seq(ToOutstation), CopyTyped, Looped PROVE TypeOK'
  <2>1. Outstation' /\ Connection'
    BY <1>1 DEF TypeOK, Outstation, Connection, outVars
  <2>2. Station'
    BY <1>1 DEF TypeOK, Station
  <2>3. QED
    BY <2>1, <2>2 DEF TypeOK
<1>2. /\ loop \in Loops /\ loop.since <= broken /\ broken \in Nat /\ mirror \in Databanks
      /\ latest \in [Kind -> Int] /\ notify \in BOOLEAN /\ reqs \in Seq(ToOutstation)
      /\ loop.writer \in 0 .. 4
      /\ loop.writer = 0 => loop.script = <<>> /\ loop.i = 1
      /\ loop.writer # 0 => loop.at \in Passes
                            /\ \E prof \in Profiles : Scripted(loop.script, loop.writer, prof)
      /\ loop.writer = 0 => ~(loop.i <= Len(loop.script))
  <2>1. Len(<<>>) = 0
    OBVIOUS
  <2>2. QED
    BY <2>1 DEF TypeOK, Station, Connection, Loops
<1>3. CASE BeginWriter
  <2> DEFINE w == loop.writer + 1
             s == Script(Writers[w], profile)
  <2>1. /\ loop.at \in Passes /\ w \in 1 .. 4 /\ profile \in Profiles
    BY <1>2, <1>3 DEF BeginWriter, Writers, TypeOK, Station
  <2>2. loop' = [loop EXCEPT !.writer = w, !.i = 1, !.script = s]
    BY <1>3 DEF BeginWriter
  <2>3. Scripted(s, w, profile)
    BY <2>1, ScriptsOfWriters
  <2>4. s \in Seq(Item)
    BY <2>1, <2>3, ScriptsOfItems
  <2> HIDE DEF w, s
  <2>5. loop' \in Loops /\ loop'.at = loop.at /\ loop'.writer = w /\ loop'.script = s
        /\ loop'.since = loop.since
    <3>1. loop \in Loops /\ w \in 0 .. 4 /\ 1 \in Nat \ {0}
      BY <1>2, <2>1
    <3>2. QED
      BY <2>2, <2>4, <3>1 DEF Loops
  <2>6. Looped
    BY <1>2, <2>1, <2>3, <2>5
  <2>7. Rest /\ CopyTyped /\ reqs' = reqs
    BY <1>2, <1>3 DEF BeginWriter, linkVars
  <2> HIDE DEF Looped, Rest, CopyTyped
  <2>8. QED
    BY <1>1, <1>2, <2>6, <2>7
<1>4. CASE Request
  <2>1. Written \in Asked
    BY <1>4, WrittenIsItem DEF Request
  <2>2. Written \in ToOutstation
    BY <2>1 DEF ToOutstation
  <2>3. Append(reqs, Written) \in Seq(ToOutstation)
    BY <1>2, <2>2, Enqueue
  <2>4. loop' = [loop EXCEPT !.waits = TRUE]
    BY <1>4 DEF Request
  <2>5. loop' \in Loops /\ loop'.at = loop.at /\ loop'.writer = loop.writer
        /\ loop'.script = loop.script /\ loop'.since = loop.since /\ loop'.i = loop.i
    BY <1>2, <2>4 DEF Loops
  <2>6. Looped
    BY <1>2, <2>5
  <2>7. Rest /\ CopyTyped /\ reqs' = Append(reqs, Written)
    BY <1>2, <1>4 DEF Request, outVars
  <2> HIDE DEF Looped, Rest, CopyTyped
  <2>8. QED
    BY <1>1, <2>3, <2>6, <2>7
<1>5. CASE Follow
  <2>1. Written \in [op : {"follow"}, kind : DOMAIN Startup, number : Nat \ {0}]
    BY <1>5, WrittenIsItem DEF Follow
  <2>2. Written.kind \in Kind /\ Written.number \in Nat
    BY <2>1, PointsOfKind
  <2>3. mirror' \in Databanks
    BY <1>2, <1>5, <2>2, FollowTypes DEF Follow
  <2>4. loop' = Advanced /\ loop.i <= Len(loop.script)
    BY <1>5 DEF Follow
  <2>5. loop' \in Loops /\ loop'.at = loop.at /\ loop'.writer = loop.writer
        /\ loop'.script = loop.script /\ loop'.since = loop.since
    BY <2>4, AdvancedTypes
  <2>6. Looped
    BY <1>2, <2>4, <2>5
  <2>7. Rest /\ CopyTyped /\ reqs' = reqs
    BY <1>2, <1>5, <2>3 DEF Follow, linkVars
  <2> HIDE DEF Looped, Rest, CopyTyped
  <2>8. QED
    BY <1>1, <1>2, <2>6, <2>7
<1>6. CASE PassDone
  <2>1. After[loop.at] \in Passes \cup {"select", "test"}
    BY <1>6 DEF PassDone, Passes, After
  <2> DEFINE at == After[loop.at]
             p == Pass(at)
             since == IF at = "test" THEN loop.since ELSE p.since
  <2>2. p \in Loops /\ p.writer = 0 /\ p.script = <<>> /\ p.i = 1 /\ p.since = broken
    BY <2>1, PassTypes
  <2>3. loop' = [p EXCEPT !.since = since]
    BY <1>6 DEF PassDone
  <2>4. since \in Nat /\ since <= broken
    BY <1>2, <2>2 DEF Loops
  <2> HIDE DEF p, since, at
  <2>5. loop' \in Loops /\ loop'.writer = 0 /\ loop'.script = <<>> /\ loop'.i = 1 /\ loop'.since = since
    BY <2>2, <2>3, <2>4 DEF Loops
  <2>6. Looped
    BY <2>4, <2>5
  <2>7. Rest /\ CopyTyped /\ reqs' = reqs
    BY <1>2, <1>6 DEF PassDone, linkVars
  <2> HIDE DEF Looped, Rest, CopyTyped
  <2>8. QED
    BY <1>1, <1>2, <2>6, <2>7
<1>7. CASE Timer \/ Test \/ Notified
  <2>1. PICK at \in Passes : loop' = Pass(at)
    BY <1>7 DEF Timer, Test, Notified, Passes
  <2>2. Pass(at) \in Loops /\ Pass(at).writer = 0 /\ Pass(at).script = <<>> /\ Pass(at).i = 1
        /\ Pass(at).since = broken
    BY <2>1, PassTypes
  <2>3. Looped
    BY <1>2, <2>1, <2>2
  <2>4. NoneTold \in [Kind -> Int]
    BY DEF NoneTold
  <2>5. Rest /\ CopyTyped /\ reqs' = reqs
    BY <1>2, <1>7, <2>4 DEF Timer, Test, Notified, linkVars
  <2> HIDE DEF Looped, Rest, CopyTyped
  <2>6. QED
    BY <1>1, <1>2, <2>3, <2>5
<1>8. QED
  BY <1>3, <1>4, <1>5, <1>6, <1>7 DEF Loop

\* The databases of a profile.
LEMMA DatabanksOfProfiles ==
  ASSUME NEW prof \in Profiles
  PROVE  Databases(prof) \in Databanks
<1>1. Databases(prof) = [k \in Kind |-> Databases(prof)[k]]
  BY DEF Databases
<1>2. \A k \in Kind : Databases(prof)[k] \in Database(k)
  BY ProfilesMakeDatabases
<1>3. QED
  BY <1>1, <1>2 DEF Databanks

\* A new scenario, and a connection that breaks.
LEMMA OtherTypes ==
  ASSUME TypeOK, OneOpen, Load \/ Break
  PROVE  TypeOK'
<1>1. CASE Load
  <2>1. scenario + 1 \in DOMAIN Plan
    <3>1. Plan \in Seq(ToSet(Plan)) /\ scenario \in Nat /\ scenario < Len(Plan)
      BY <1>1, LinkAssumption DEF Load, TypeOK, Station
    <3>2. QED
      BY <3>1
  <2>2. Plan[scenario + 1] \in Profiles
    BY <2>1 DEF Profiles, ToSet
  <2>3. mirror' \in Databanks /\ profile' \in Profiles
    BY <1>1, <2>2, DatabanksOfProfiles DEF Load
  <2>4. scenario' \in Nat /\ notify' \in BOOLEAN /\ UNCHANGED <<latest, loop, outVars, linkVars>>
    BY <1>1 DEF Load, TypeOK, Station
  <2>5. Outstation' /\ Connection'
    BY <2>4 DEF TypeOK, Outstation, Connection, outVars, linkVars
  <2>6. Station'
    BY <2>3, <2>4 DEF TypeOK, Station, linkVars
  <2>7. QED
    BY <2>5, <2>6 DEF TypeOK
<1>2. CASE Break
  <2> DEFINE c == [op |-> "integrity"]
  <2>1. c \in ToOutstation
    BY DEF ToOutstation
  <2>2. /\ reqs' = <<c>> /\ wire' = <<>> /\ reported' = 0 /\ broken' = broken + 1
        /\ UNCHANGED <<shown, dbs, changes, mirror, latest, profile, scenario, notify>>
    BY <1>2 DEF Break
  <2> HIDE DEF c
  <2>3. Outstation'
    BY <2>2 DEF TypeOK, Outstation
  <2>4. Connection'
    <3>1. <<>> \in Seq(Message) /\ <<c>> \in Seq(ToOutstation)
      BY <2>1
    <3>2. QED
      BY <2>2, <3>1 DEF TypeOK, Connection
  <2>5. loop.writer = 0 => ~loop.waits
    <3>1. loop.writer = 0 => loop.script = <<>> /\ loop.i = 1
      BY DEF TypeOK, Station
    <3>2. Len(<<>>) = 0
      OBVIOUS
    <3>3. QED
      BY <3>1, <3>2 DEF OneOpen
  <2>6. loop' = IF loop.waits THEN Advanced ELSE loop
    BY <1>2 DEF Break
  <2>7. /\ loop' \in Loops /\ loop'.at = loop.at /\ loop'.writer = loop.writer
        /\ loop'.script = loop.script /\ loop'.since = loop.since
        /\ loop.writer = 0 => loop'.i = loop.i
    BY <2>5, <2>6, AdvancedTypes DEF TypeOK, Station
  <2>8. loop.since \in Nat /\ broken \in Nat /\ loop.since <= broken
    BY DEF TypeOK, Station, Connection, Loops
  <2>9. loop'.since <= broken'
    BY <2>2, <2>7, <2>8
  <2>10. Station'
    BY <2>2, <2>7, <2>9 DEF TypeOK, Station
  <2>11. QED
    BY <2>3, <2>4, <2>10 DEF TypeOK
<1>3. QED
  BY <1>1, <1>2

LEMMA InitTypes == Init => TypeOK /\ OneOpen
<1> SUFFICES ASSUME Init PROVE TypeOK /\ OneOpen
  OBVIOUS
<1>1. Startup \in Profiles
  BY DEF Profiles
<1>2. Databases(Startup) \in Databanks /\ \A k \in Kind : Whole(k, Databases(Startup)[k])
  BY <1>1, DatabanksOfProfiles, WholeAtStart
<1> DEFINE first == Databases(Startup)
<1>3. ASSUME NEW q \in Ports, ~IsSelector(q) PROVE first[q[1]].points[PointOf(q)] \in Int
  <2>1. q[1] \in Kind /\ q[1] \in DOMAIN Startup /\ PointOf(q) \in Points(q[1]) /\ Startup[q[1]] # <<>>
    BY <1>3, PortsHaveOneName
  <2>2. Whole(q[1], first[q[1]])
    BY <1>2, <2>1
  <2> DEFINE db == first[q[1]]
  <2> HIDE DEF first
  <2>3. db \in Database(q[1]) /\ DOMAIN db.points = Points(q[1])
    BY <2>1, <2>2 DEF Whole
  <2>4. db.points \in [Points(q[1]) -> Int]
    BY <2>3, DatabaseParts, ContentsAre
  <2>5. QED
    BY <2>1, <2>4
<1>4. shown \in [Ports -> Int]
  <2>1. shown = [q \in Ports |-> IF IsSelector(q) THEN 0 ELSE first[q[1]].points[PointOf(q)]]
    BY DEF Init
  <2> HIDE DEF first
  <2>2. QED
    BY <1>3, <2>1
<1>5. Outstation
  <2>1. changes = <<>> /\ reported = 0 /\ dbs = first
    BY DEF Init
  <2> HIDE DEF first
  <2>2. QED
    BY <1>2, <1>4, <2>1 DEF Outstation, first
<1>6. reqs = <<[op |-> "integrity"]>> /\ wire = <<>> /\ broken = 0 /\ loop = Pass("top")
  BY DEF Init
<1>7. Connection
  <2> DEFINE c == [op |-> "integrity"]
  <2>1. c \in ToOutstation
    BY DEF ToOutstation
  <2>2. reqs = <<c>>
    BY <1>6
  <2> HIDE DEF c
  <2>3. <<c>> \in Seq(ToOutstation) /\ <<>> \in Seq(Message)
    BY <2>1
  <2>4. QED
    BY <1>6, <2>2, <2>3 DEF Connection
<1>8. /\ loop \in Loops /\ loop.writer = 0 /\ loop.script = <<>> /\ loop.i = 1 /\ ~loop.waits
      /\ loop.since = 0
  <2>1. <<>> \in Seq(Item)
    OBVIOUS
  <2>2. QED
    BY <1>6, <2>1 DEF Pass, Loops, Passes
<1>9. Station
  <2>1. latest \in [Kind -> Int] /\ profile \in Profiles /\ scenario = 0 /\ notify = FALSE
        /\ mirror = Databases(Startup)
    BY <1>1 DEF Init, NoneTold
  <2>2. mirror \in Databanks /\ scenario \in Nat /\ notify \in BOOLEAN
    BY <1>2, <2>1
  <2>3. loop.since <= broken /\ loop.writer = 0
    BY <1>6, <1>8
  <2>4. QED
    BY <1>8, <2>1, <2>2, <2>3 DEF Station
<1>10. OneOpen
  <2>1. DOMAIN reqs = {1} /\ ~IsAsked(reqs[1]) /\ DOMAIN wire = {}
    BY <1>6 DEF IsAsked
  <2>2. QED
    BY <1>8, <2>1 DEF OneOpen
<1>11. QED
  BY <1>5, <1>7, <1>9, <1>10 DEF TypeOK

-----------------------------------------------------------------------------
(* One request is open at most.                                            *)

\* When the loop does not wait, nothing it asked for is on its way.
LEMMA NothingOpen ==
  ASSUME OneOpen, ~loop.waits
  PROVE  NoRequest /\ NoAnswer
BY DEF OneOpen, NoRequest, NoAnswer

\* And the other way round: with nothing on its way, no request is open.
LEMMA NothingOpened ==
  ASSUME NoRequest', NoAnswer', ~loop'.waits
  PROVE  OneOpen'
BY DEF OneOpen, NoRequest, NoAnswer

\* The request that is first in the queue is the one the loop waits for.
LEMMA HeadIsWritten ==
  ASSUME TypeOK, OneOpen, reqs # <<>>, IsAsked(Head(reqs))
  PROVE  /\ loop.waits /\ Head(reqs) = Written /\ NoAnswer
         /\ reqs' = Tail(reqs) => NoRequest'
<1>1. Head(reqs) = reqs[1] /\ 1 \in DOMAIN reqs
  BY Queue DEF TypeOK, Connection
<1>2. /\ loop.waits /\ reqs[1] = Written /\ NoAnswer
      /\ \A j \in DOMAIN reqs : IsAsked(reqs[j]) => j = 1
  BY <1>1 DEF OneOpen
<1>3. ASSUME reqs' = Tail(reqs), NEW n \in DOMAIN reqs' PROVE ~IsAsked(reqs'[n])
  <2>1. n \in Nat \ {0} /\ n + 1 \in DOMAIN reqs /\ reqs'[n] = reqs[n + 1]
    BY <1>1, <1>3, Queue DEF TypeOK, Connection
  <2>2. n + 1 # 1
    BY <2>1
  <2>3. QED
    BY <1>2, <2>1, <2>2
<1>4. QED
  BY <1>1, <1>2, <1>3 DEF NoRequest

\* An answer to it, put on the connection.
LEMMA Answered ==
  ASSUME TypeOK, OneOpen, loop.waits, NoAnswer, NoRequest', loop' = loop,
         NEW m \in Message, wire' = Append(wire, m)
  PROVE  OneOpen'
<1>1. /\ DOMAIN wire' = DOMAIN wire \cup {Len(wire) + 1}
      /\ \A n \in DOMAIN wire : wire'[n] = wire[n]
  BY Enqueue DEF TypeOK, Connection
<1>2. \A j \in DOMAIN wire' : wire'[j].type = "answer" => j = Len(wire) + 1
  BY <1>1 DEF NoAnswer
<1>3. Written' = Written
  BY DEF Written
<1>4. QED
  BY <1>2, <1>3 DEF OneOpen, NoRequest

\* Neither what is asked nor what is answered changes.
RequestsKept ==
  \A i \in DOMAIN reqs' : IsAsked(reqs'[i]) =>
    /\ \E j \in DOMAIN reqs : reqs'[i] = reqs[j]
    /\ \A k \in DOMAIN reqs' : IsAsked(reqs'[k]) => k = i
AnswersKept ==
  /\ \A i \in DOMAIN wire' : wire'[i].type = "answer" =>
       /\ \E j \in DOMAIN wire : wire'[i] = wire[j]
       /\ \A k \in DOMAIN wire' : wire'[k].type = "answer" => k = i
  /\ NoAnswer' => NoAnswer

LEMMA StillOpen ==
  ASSUME OneOpen, loop' = loop, RequestsKept, AnswersKept
  PROVE  OneOpen' /\ (NoAnswer' <=> NoAnswer)
<1>1. NoAnswer' <=> NoAnswer
  BY DEF NoAnswer, AnswersKept
<1>2. Written' = Written
  BY DEF Written
<1>3. ASSUME NEW i \in DOMAIN reqs', IsAsked(reqs'[i])
      PROVE  /\ loop'.waits /\ reqs'[i] = Written'
             /\ \A j \in DOMAIN reqs' : IsAsked(reqs'[j]) => j = i
             /\ NoAnswer'
  <2>1. PICK j \in DOMAIN reqs : reqs'[i] = reqs[j]
    BY <1>3 DEF RequestsKept
  <2>2. loop.waits /\ reqs[j] = Written /\ NoAnswer
    BY <1>3, <2>1 DEF OneOpen
  <2>3. QED
    BY <1>1, <1>2, <1>3, <2>1, <2>2 DEF RequestsKept
<1>4. ASSUME NEW i \in DOMAIN wire', wire'[i].type = "answer"
      PROVE  loop'.waits /\ \A j \in DOMAIN wire' : wire'[j].type = "answer" => j = i
  BY <1>4 DEF AnswersKept, OneOpen
<1>5. loop'.waits => loop'.at \in Passes /\ loop'.i <= Len(loop'.script) /\ IsAsked(Written')
  BY <1>2 DEF OneOpen
<1>6. QED
  BY <1>1, <1>3, <1>4, <1>5 DEF OneOpen, IsAsked

\* A request is taken from the queue that is none of the loop's.
LEMMA RestOfRequests ==
  ASSUME TypeOK, OneOpen, reqs # <<>>, ~IsAsked(Head(reqs)), reqs' = Tail(reqs)
  PROVE  RequestsKept
<1> SUFFICES ASSUME NEW i \in DOMAIN reqs', IsAsked(reqs'[i])
             PROVE  /\ \E j \in DOMAIN reqs : reqs'[i] = reqs[j]
                    /\ \A k \in DOMAIN reqs' : IsAsked(reqs'[k]) => k = i
  BY DEF RequestsKept
<1>1. /\ i \in Nat /\ i + 1 \in DOMAIN reqs /\ reqs'[i] = reqs[i + 1]
      /\ \A k \in DOMAIN reqs' : k \in Nat /\ k + 1 \in DOMAIN reqs /\ reqs'[k] = reqs[k + 1]
  BY Queue DEF TypeOK, Connection
<1>2. \A j \in DOMAIN reqs : IsAsked(reqs[j]) => j = i + 1
  BY <1>1 DEF OneOpen
<1>3. ASSUME NEW k \in DOMAIN reqs', IsAsked(reqs'[k]) PROVE k = i
  <2>1. k + 1 = i + 1 /\ k \in Nat
    BY <1>1, <1>2, <1>3
  <2>2. QED
    BY <1>1, <2>1
<1>4. QED
  BY <1>1, <1>3

\* A confirmation is put in the queue.
LEMMA OneConfirmationMore ==
  ASSUME TypeOK, OneOpen, reqs' = reqs \/ reqs' = Append(reqs, [op |-> "confirm"])
  PROVE  RequestsKept /\ (NoRequest => NoRequest')
<1> DEFINE c == [op |-> "confirm"]
<1>1. c \in ToOutstation /\ ~IsAsked(c)
  BY DEF ToOutstation, IsAsked
<1>2. reqs' = reqs \/ reqs' = Append(reqs, c)
  OBVIOUS
<1> HIDE DEF c
<1>3. \A i \in DOMAIN reqs' : IsAsked(reqs'[i]) => i \in DOMAIN reqs /\ reqs'[i] = reqs[i]
  BY <1>1, <1>2, Enqueue DEF TypeOK, Connection
<1>4. QED
  BY <1>3 DEF OneOpen, RequestsKept, NoRequest

\* A message is put on the connection that answers nothing.
LEMMA OneMessageMore ==
  ASSUME TypeOK, OneOpen, NEW m \in Message, m.type # "answer",
         wire' = wire \/ wire' = Append(wire, m)
  PROVE  AnswersKept
<1>1. /\ DOMAIN wire \subseteq DOMAIN wire'
      /\ \A n \in DOMAIN wire : wire'[n] = wire[n]
      /\ \A n \in DOMAIN wire' : wire'[n].type = "answer" => n \in DOMAIN wire
  <2>1. CASE wire' = wire
    BY <2>1
  <2>2. CASE wire' = Append(wire, m)
    BY <2>2, Enqueue DEF TypeOK, Connection
  <2>3. QED
    BY <2>1, <2>2
<1>2. QED
  BY <1>1 DEF AnswersKept, NoAnswer, OneOpen

\* A message is taken from it that answers nothing.
LEMMA RestOfMessages ==
  ASSUME TypeOK, OneOpen, wire # <<>>, Head(wire).type # "answer", wire' = Tail(wire)
  PROVE  AnswersKept
<1>1. /\ \A n \in DOMAIN wire' : n \in Nat \ {0} /\ n + 1 \in DOMAIN wire /\ wire'[n] = wire[n + 1]
      /\ \A n \in DOMAIN wire : n \in Nat \ {0} /\ (n # 1 => n - 1 \in DOMAIN wire')
      /\ Head(wire) = wire[1]
  BY Queue DEF TypeOK, Connection
<1>2. ASSUME NEW i \in DOMAIN wire', wire'[i].type = "answer",
             NEW k \in DOMAIN wire', wire'[k].type = "answer"
      PROVE  k = i
  <2>1. i + 1 \in DOMAIN wire /\ wire[i + 1].type = "answer" /\ k + 1 \in DOMAIN wire /\ wire[k + 1].type = "answer"
    BY <1>1, <1>2
  <2>2. k + 1 = i + 1
    BY <2>1 DEF OneOpen
  <2>3. k \in Nat /\ i \in Nat
    BY <1>1
  <2>4. QED
    BY <2>2, <2>3
<1>3. ASSUME NoAnswer' PROVE NoAnswer
  <2>1. ASSUME NEW n \in DOMAIN wire, wire[n].type = "answer" PROVE FALSE
    <3>1. n # 1 /\ n \in Nat
      BY <1>1, <2>1
    <3>2. n - 1 \in DOMAIN wire' /\ (n - 1) + 1 = n
      BY <1>1, <3>1
    <3>3. wire'[n - 1] = wire[n]
      BY <1>1, <3>2
    <3>4. QED
      BY <1>3, <2>1, <3>2, <3>3 DEF NoAnswer
  <2>2. QED
    BY <2>1 DEF NoAnswer
<1>4. QED
  BY <1>1, <1>2, <1>3 DEF AnswersKept

-----------------------------------------------------------------------------
(* What a step does to the pass that is on.                                *)

\* What the outstation and the pass are for the tests.
PassStays ==
  /\ loop'.at = loop.at /\ loop'.writer = loop.writer /\ loop'.script = loop.script
  /\ loop'.since = loop.since

\* How far the outstation is with the script: an answer on its way tells of an item
\* the loop does not yet know to be done.
Reached == IF NoAnswer THEN loop.i ELSE loop.i + 1

\* Nothing happens to them.
Still == PassStays /\ Reached' = Reached /\ UNCHANGED <<dbs, profile, notify, broken>>

\* The outstation is done with an item: with a write, or with one that changes
\* nothing.
WriteDone ==
  /\ PassStays /\ loop.at \in Passes /\ UNCHANGED <<profile, notify, broken>>
  /\ Reached = loop.i /\ Reached' = loop.i + 1 /\ loop.i \in DOMAIN loop.script
  /\ Written \in Write
  /\ dbs' = [dbs EXCEPT ![Written.port[1]] = OperatedDb(Written.port, Written.value)]
ItemDone ==
  /\ PassStays /\ UNCHANGED <<dbs, profile, notify, broken>>
  /\ Reached = loop.i /\ Reached' = loop.i + 1 /\ loop.i \in DOMAIN loop.script
  /\ Written.op # "write"

LEMMA OperateDone ==
  ASSUME TypeOK, OneOpen, ServeOperate
  PROVE  OneOpen' /\ WriteDone
<1>1. reqs # <<>> /\ Head(reqs).op = "write" /\ reqs' = Tail(reqs) /\ loop' = loop
      /\ UNCHANGED <<profile, notify, broken>>
      /\ dbs' = [dbs EXCEPT ![Head(reqs).port[1]] = OperatedDb(Head(reqs).port, Head(reqs).value)]
      /\ wire' = Append(wire, [type |-> "answer", values |-> <<>>])
  BY DEF ServeOperate, stationVars
<1>2. loop.waits /\ Head(reqs) = Written /\ NoAnswer /\ NoRequest'
  BY <1>1, HeadIsWritten DEF IsAsked
<1> DEFINE m == [type |-> "answer", values |-> <<>>]
<1>3. m \in Message /\ m.type = "answer"
  <2>1. <<>> \in Seq(Update)
    OBVIOUS
  <2>2. QED
    BY <2>1 DEF Message
<1>4. wire' = Append(wire, m)
  BY <1>1
<1> HIDE DEF m
<1>5. OneOpen'
  BY <1>1, <1>2, <1>3, <1>4, Answered
<1>6. ~NoAnswer'
  BY <1>3, <1>4, Enqueue DEF NoAnswer, TypeOK, Connection
<1>7. loop.at \in Passes /\ loop.i \in DOMAIN loop.script /\ Written \in Write
  <2>1. loop.at \in Passes /\ loop.i <= Len(loop.script)
    BY <1>2 DEF OneOpen
  <2>2. QED
    BY <1>1, <1>2, <2>1, WrittenIsItem
<1>8. QED
  BY <1>1, <1>2, <1>5, <1>6, <1>7 DEF WriteDone, PassStays, Reached

LEMMA ReadDone ==
  ASSUME TypeOK, OneOpen, ServeRead
  PROVE  OneOpen' /\ ItemDone
<1>1. reqs # <<>> /\ Head(reqs).op = "read" /\ reqs' = Tail(reqs) /\ loop' = loop
      /\ UNCHANGED <<dbs, profile, notify, broken>>
      /\ wire' = Append(wire, [type |-> "answer", values |-> Snapshot])
  BY DEF ServeRead, stationVars
<1>2. loop.waits /\ Head(reqs) = Written /\ NoAnswer /\ NoRequest'
  BY <1>1, HeadIsWritten DEF IsAsked
<1> DEFINE m == [type |-> "answer", values |-> Snapshot]
<1>3. m \in Message /\ m.type = "answer"
  <2>1. Snapshot \in Seq(Update)
    BY ValuesAreUpdates DEF Snapshot, TypeOK, Outstation
  <2>2. QED
    BY <2>1 DEF Message
<1>4. wire' = Append(wire, m)
  BY <1>1
<1> HIDE DEF m
<1>5. OneOpen'
  BY <1>1, <1>2, <1>3, <1>4, Answered
<1>6. ~NoAnswer'
  BY <1>3, <1>4, Enqueue DEF NoAnswer, TypeOK, Connection
<1>7. loop.i \in DOMAIN loop.script
  BY <1>2, WrittenIsItem DEF OneOpen
<1>8. QED
  BY <1>1, <1>2, <1>5, <1>6, <1>7 DEF ItemDone, PassStays, Reached

\* Reports, confirmations and all values that were asked for at the start.
LEMMA ReportsAreStill ==
  ASSUME TypeOK, OneOpen, ServeIntegrity \/ Report \/ ServeConfirm
  PROVE  OneOpen' /\ Still
<1>1. loop' = loop /\ UNCHANGED <<dbs, profile, notify, broken>>
  BY DEF ServeIntegrity, Report, ServeConfirm, stationVars
<1>2. RequestsKept
  <2>1. CASE Report
    <3>1. reqs' = reqs
      BY <2>1 DEF Report
    <3>2. QED
      BY <3>1, OneConfirmationMore
  <2>2. CASE ServeIntegrity \/ ServeConfirm
    <3>1. reqs # <<>> /\ ~IsAsked(Head(reqs)) /\ reqs' = Tail(reqs)
      BY <2>2 DEF ServeIntegrity, ServeConfirm, IsAsked
    <3>2. QED
      BY <3>1, RestOfRequests
  <2>3. QED
    BY <2>1, <2>2
<1>3. AnswersKept
  <2>1. Snapshot \in Seq(Update) /\ changes \in Seq(Update)
    BY ValuesAreUpdates DEF Snapshot, TypeOK, Outstation
  <2>2. PICK ty \in {"integrity", "report"}, v \in Seq(Update) :
          wire' = wire \/ wire' = Append(wire, [type |-> ty, values |-> v])
    BY <2>1 DEF ServeIntegrity, Report, ServeConfirm
  <2> DEFINE m == [type |-> ty, values |-> v]
  <2>3. m \in Message /\ m.type # "answer"
    BY DEF Message
  <2>4. wire' = wire \/ wire' = Append(wire, m)
    BY <2>2
  <2> HIDE DEF m
  <2>5. QED
    BY <2>3, <2>4, OneMessageMore
<1>4. OneOpen' /\ (NoAnswer' <=> NoAnswer)
  BY <1>1, <1>2, <1>3, StillOpen
<1>5. QED
  BY <1>1, <1>4 DEF Still, PassStays, Reached

\* The control station knows of an item what the outstation did already.
LEMMA ReceiveIsStill ==
  ASSUME TypeOK, OneOpen, Receive
  PROVE  OneOpen' /\ Still
<1>1. /\ wire # <<>> /\ wire' = Tail(wire) /\ UNCHANGED <<dbs, profile, notify, broken>>
      /\ reqs' = reqs \/ reqs' = Append(reqs, [op |-> "confirm"])
      /\ loop' = IF Head(wire).type = "answer" THEN Advanced ELSE loop
  BY DEF Receive, outVars
<1>2. Head(wire) = wire[1] /\ 1 \in DOMAIN wire
  BY <1>1, Queue DEF TypeOK, Connection
<1>3. RequestsKept /\ (NoRequest => NoRequest')
  BY <1>1, OneConfirmationMore
<1>4. CASE Head(wire).type = "answer"
  <2>1. loop.waits /\ \A h \in DOMAIN wire : wire[h].type = "answer" => h = 1
    BY <1>2, <1>4 DEF OneOpen
  <2>2. NoRequest /\ ~NoAnswer
    BY <1>2, <1>4 DEF OneOpen, NoRequest, NoAnswer
  <2>3. NoAnswer'
    <3>1. \A n \in DOMAIN wire' : n \in Nat \ {0} /\ n + 1 \in DOMAIN wire /\ wire'[n] = wire[n + 1]
      BY <1>1, Queue DEF TypeOK, Connection
    <3>2. \A n \in DOMAIN wire' : n + 1 # 1
      BY <3>1
    <3>3. QED
      BY <2>1, <3>1, <3>2 DEF NoAnswer
  <2>4. PassStays /\ ~loop'.waits /\ loop'.i = loop.i + 1
    BY <1>1, <1>4, AdvancedTypes DEF PassStays
  <2>5. OneOpen'
    BY <1>3, <2>2, <2>3, <2>4, NothingOpened
  <2>6. QED
    BY <1>1, <2>2, <2>3, <2>4, <2>5 DEF Still, Reached
<1>5. CASE Head(wire).type # "answer"
  <2>1. AnswersKept
    BY <1>1, <1>5, RestOfMessages
  <2>2. loop' = loop
    BY <1>1, <1>5
  <2>3. OneOpen' /\ (NoAnswer' <=> NoAnswer)
    BY <1>3, <2>1, <2>2, StillOpen
  <2>4. QED
    BY <1>1, <2>2, <2>3 DEF Still, PassStays, Reached
<1>6. QED
  BY <1>4, <1>5

LEMMA RequestIsStill ==
  ASSUME TypeOK, OneOpen, Request
  PROVE  OneOpen' /\ Still
<1>1. /\ loop.at \in Passes /\ loop.i <= Len(loop.script) /\ ~loop.waits /\ IsAsked(Written)
      /\ reqs' = Append(reqs, Written) /\ loop' = [loop EXCEPT !.waits = TRUE] /\ wire' = wire
      /\ UNCHANGED <<dbs, profile, notify, broken>>
  BY DEF Request, IsAsked, outVars
<1>2. NoRequest /\ NoAnswer
  BY <1>1, NothingOpen
<1>3. loop'.waits /\ loop'.i = loop.i /\ PassStays /\ Written' = Written
  BY <1>1 DEF Written, PassStays, TypeOK, Station, Loops
<1>4. Written \in ToOutstation
  BY <1>1, WrittenIsItem DEF ToOutstation, IsAsked
<1>5. \A j \in DOMAIN reqs' : IsAsked(reqs'[j]) => j = Len(reqs) + 1 /\ reqs'[j] = Written
  BY <1>1, <1>2, <1>4, Enqueue DEF NoRequest, TypeOK, Connection
<1>6. NoAnswer'
  BY <1>1, <1>2 DEF NoAnswer
<1>7. OneOpen'
  <2>1. loop'.at \in Passes /\ loop'.i <= Len(loop'.script) /\ IsAsked(Written')
    BY <1>1, <1>3 DEF PassStays
  <2>2. QED
    BY <1>3, <1>5, <1>6, <2>1 DEF OneOpen, NoAnswer, IsAsked
<1>8. QED
  BY <1>1, <1>2, <1>3, <1>6, <1>7 DEF Still, Reached

LEMMA FollowDone ==
  ASSUME TypeOK, OneOpen, Follow
  PROVE  OneOpen' /\ ItemDone
<1>1. /\ loop.i <= Len(loop.script) /\ Written.op = "follow" /\ loop' = Advanced
      /\ reqs' = reqs /\ wire' = wire /\ UNCHANGED <<dbs, profile, notify, broken>>
  BY DEF Follow, linkVars, outVars
<1>2. ~loop.waits
  BY <1>1 DEF OneOpen, IsAsked
<1>3. NoRequest /\ NoAnswer /\ NoRequest' /\ NoAnswer'
  BY <1>1, <1>2, NothingOpen DEF NoRequest, NoAnswer
<1>4. PassStays /\ ~loop'.waits /\ loop'.i = loop.i + 1
  BY <1>1, AdvancedTypes DEF PassStays
<1>5. loop.i \in DOMAIN loop.script
  BY <1>1, WrittenIsItem
<1>6. QED
  BY <1>1, <1>3, <1>4, <1>5, NothingOpened DEF ItemDone, Reached

\* Between the scripts of the writers.
LEMMA TurnsOpen ==
  ASSUME TypeOK, OneOpen, BeginWriter \/ PassDone \/ Timer \/ Test \/ Notified
  PROVE  /\ OneOpen' /\ UNCHANGED <<dbs, broken>> /\ Reached' = loop'.i /\ Reached = loop.i
         /\ ~loop.waits
<1>1. ~loop.waits
  <2>1. BeginWriter \/ PassDone => ~(loop.i <= Len(loop.script))
    BY DEF BeginWriter, PassDone, TypeOK, Station, Loops
  <2>2. Timer \/ Test \/ Notified => loop.at \notin Passes
    BY DEF Timer, Test, Notified, Passes
  <2>3. QED
    BY <2>1, <2>2 DEF OneOpen
<1>2. reqs' = reqs /\ wire' = wire /\ UNCHANGED <<dbs, broken>>
  BY DEF BeginWriter, PassDone, Timer, Test, Notified, outVars, linkVars
<1>3. NoRequest' /\ NoAnswer' /\ NoAnswer
  BY <1>1, <1>2, NothingOpen DEF NoRequest, NoAnswer
<1>4. ~loop'.waits
  <2>1. CASE BeginWriter
    BY <1>1, <2>1 DEF BeginWriter, TypeOK, Station, Loops
  <2>2. CASE PassDone
    <3>1. After[loop.at] \in Passes \cup {"select", "test"}
      BY <2>2 DEF PassDone, Passes, After
    <3>2. Pass(After[loop.at]) \in Loops /\ ~Pass(After[loop.at]).waits
      BY <3>1, PassTypes
    <3>3. QED
      BY <2>2, <3>2 DEF PassDone, Loops
  <2>3. CASE Timer \/ Test \/ Notified
    BY <2>3, PassTypes DEF Timer, Test, Notified, Passes
  <2>4. QED
    BY <2>1, <2>2, <2>3
<1>5. QED
  BY <1>1, <1>2, <1>3, <1>4, NothingOpened DEF Reached

LEMMA LoadOpen ==
  ASSUME TypeOK, OneOpen, Load
  PROVE  OneOpen' /\ loop' = loop /\ Reached' = Reached /\ UNCHANGED <<dbs, broken>> /\ notify'
<1>1. UNCHANGED <<reqs, wire, loop, dbs, broken>> /\ notify'
  BY DEF Load, outVars, linkVars
<1>2. RequestsKept /\ AnswersKept
  BY <1>1 DEF RequestsKept, AnswersKept, OneOpen, NoAnswer
<1>3. OneOpen' /\ (NoAnswer' <=> NoAnswer)
  BY <1>1, <1>2, StillOpen
<1>4. QED
  BY <1>1, <1>3 DEF Reached

LEMMA BreakOpen ==
  ASSUME TypeOK, OneOpen, Break
  PROVE  OneOpen' /\ PassStays /\ loop'.since # broken'
<1>1. reqs' = <<[op |-> "integrity"]>> /\ wire' = <<>> /\ broken' = broken + 1
      /\ loop' = IF loop.waits THEN Advanced ELSE loop
  BY DEF Break
<1>2. DOMAIN reqs' = {1} /\ ~IsAsked(reqs'[1]) /\ DOMAIN wire' = {}
  BY <1>1 DEF IsAsked
<1>3. NoRequest' /\ NoAnswer'
  BY <1>2 DEF NoRequest, NoAnswer
<1>4. PassStays /\ ~loop'.waits
  BY <1>1, AdvancedTypes DEF PassStays
<1>5. loop.since \in Nat /\ broken \in Nat /\ loop.since <= broken
  BY DEF TypeOK, Station, Connection, Loops
<1>6. loop'.since # broken'
  BY <1>1, <1>4, <1>5 DEF PassStays
<1>7. QED
  BY <1>3, <1>4, <1>6, NothingOpened

\* A step is one of these.
Turn ==
  /\ BeginWriter \/ PassDone \/ Timer \/ Test \/ Notified
  /\ UNCHANGED <<dbs, broken>> /\ Reached' = loop'.i /\ Reached = loop.i
Loaded == loop' = loop /\ Reached' = Reached /\ UNCHANGED <<dbs, broken>> /\ notify'
Broken == PassStays /\ loop'.since # broken'

LEMMA Steps ==
  ASSUME TypeOK, OneOpen, [Next]_vars
  PROVE  TypeOK' /\ OneOpen' /\ (Still \/ WriteDone \/ ItemDone \/ Turn \/ Loaded \/ Broken)
<1>1. CASE ServeOperate
  BY <1>1, OperateTypes, OperateDone
<1>2. CASE ServeRead
  BY <1>2, ServeTypes, ReadDone
<1>3. CASE ServeIntegrity \/ Report \/ ServeConfirm
  BY <1>3, ServeTypes, ReportsAreStill
<1>4. CASE Receive
  BY <1>4, ReceiveTypes, ReceiveIsStill
<1>5. CASE Request
  BY <1>5, LoopTypes, RequestIsStill DEF Loop
<1>6. CASE Follow
  BY <1>6, LoopTypes, FollowDone DEF Loop
<1>7. CASE BeginWriter \/ PassDone \/ Timer \/ Test \/ Notified
  BY <1>7, LoopTypes, TurnsOpen DEF Loop, Turn
<1>8. CASE Load
  BY <1>8, OtherTypes, LoadOpen DEF Loaded
<1>9. CASE Break
  BY <1>9, OtherTypes, BreakOpen DEF Broken
<1>10. CASE UNCHANGED vars
  <2>1. TypeOK' /\ OneOpen'
    BY <1>10 DEF vars, TypeOK, Outstation, Connection, Station, OneOpen, NoAnswer, Written
  <2>2. Still
    BY <1>10 DEF vars, Still, PassStays, Reached, NoAnswer
  <2>3. QED
    BY <2>1, <2>2
<1>11. QED
  BY <1>1, <1>2, <1>3, <1>4, <1>5, <1>6, <1>7, <1>8, <1>9, <1>10 DEF Next, Serve, Loop

-----------------------------------------------------------------------------
(* The entry that is selected.                                             *)

\* While a pass is on whose connection held, the outstation has the entry current
\* that the script selected last.
Selected ==
  loop.since = broken =>
    \A k \in DOMAIN Startup, n \in Nat \ {0} :
      Under(loop.script, k, Reached, n) =>
        /\ dbs[k].current = Landing(k, n) /\ Landing(k, n) \in DOMAIN dbs[k].entries
        /\ Landing(k, n) \in 1 .. Limit[k] /\ Startup[k] # <<>>

\* Selecting an entry of the profile after the one before it.
LEMMA SelectionLands ==
  ASSUME NEW prof \in Profiles, NEW k \in DOMAIN prof, NEW n \in DOMAIN prof[k],
         NEW db, Whole(k, db),
         n # 1 => db.current = Landing(k, n - 1)
  PROVE  /\ SetActive(db, n).current = Landing(k, n)
         /\ Landing(k, n) \in DOMAIN SetActive(db, n).entries
         /\ Landing(k, n) \in 1 .. Limit[k] /\ Startup[k] # <<>>
<1>1. /\ k \in Kind /\ k \in DOMAIN Startup /\ n \in Nat /\ n >= 1
      /\ Landing(k, n) \in 1 .. Limit[k] /\ Limit[k] \in Nat
  BY EntriesOfProfiles, LimitsOfKinds
<1>2. Startup[k] # <<>>
  <2>1. prof[k] # <<>>
    OBVIOUS
  <2>2. QED
    BY <2>1, LinkAssumption
<1>3. db \in Database(k) /\ 1 \in DOMAIN db.entries /\ db.max = Limit[k] /\ db.current \in DOMAIN db.entries
  BY <1>1, <1>2, DatabaseParts DEF Whole
<1>4. Whole(k, SetActive(db, n))
  BY <1>1, SelectingKeepsWhole
<1>5. SetActive(db, n).current \in DOMAIN SetActive(db, n).entries
  BY <1>1, <1>2, <1>4 DEF Whole
<1>6. SetActive(db, n).current = IF Selectable(db, n) THEN n ELSE db.current
  BY <1>1, <1>3, SelectingKeepsDatabases
<1>7. Selectable(db, n) <=> n <= Limit[k]
  BY <1>1, <1>3 DEF Selectable
<1>8. CASE n <= Limit[k]
  BY <1>1, <1>2, <1>5, <1>6, <1>7, <1>8 DEF Landing
<1>9. CASE ~(n <= Limit[k])
  <2>1. n # 1 /\ Landing(k, n) = Limit[k]
    BY <1>1, <1>9 DEF Landing
  <2>2. Landing(k, n - 1) = Limit[k]
    BY <1>1, <1>9 DEF Landing
  <2>3. SetActive(db, n).current = Landing(k, n)
    BY <1>6, <1>7, <1>9, <2>1, <2>2
  <2>4. QED
    BY <1>1, <1>2, <1>5, <2>3
<1>10. QED
  BY <1>8, <1>9

\* What a written item of a script is: the selection of an entry, or a point of the
\* entry that is selected.
SelectsEntry(prof, k, n) ==
  /\ Written = Select(k, n) /\ n \in DOMAIN prof[k]
  /\ n = 1 \/ Under(loop.script, k, loop.i, n - 1)
PutsPoint(prof, k, n, p) ==
  /\ n \in DOMAIN prof[k] /\ p \in DOMAIN prof[k][n]
  /\ Written = Put(k, p, prof[k][n][p]) /\ Under(loop.script, k, loop.i, n)

LEMMA WrittenOfScript ==
  ASSUME NEW prof \in Profiles, NEW w \in 1 .. 4, Scripted(loop.script, w, prof),
         loop.i \in DOMAIN loop.script, Written.op = "write"
  PROVE  \/ \E k \in DOMAIN Startup : Written = Select(k, 0)
         \/ \E k \in DOMAIN prof : \E n \in DOMAIN prof[k] : SelectsEntry(prof, k, n)
         \/ \E k \in DOMAIN prof : \E n \in DOMAIN prof[k] : \E p \in DOMAIN prof[k][n] :
              PutsPoint(prof, k, n, p)
<1>1. CASE w = 1
  <2>1. loop.script \in Seq({Select(k, 0) : k \in DOMAIN Startup})
    BY <1>1 DEF Scripted
  <2>2. loop.script[loop.i] \in {Select(k, 0) : k \in DOMAIN Startup}
    BY <2>1
  <2>3. QED
    BY <2>2 DEF Written
<1>2. CASE w # 1
  <2> DEFINE k == KindOf[w]
             m == Count(prof, k)
  <2>1. Entries(loop.script, k, prof, Skipped(k), m)
    BY <1>2 DEF Scripted
  <2>2. FollowTo(k, 0).op = "follow" /\ ReadAll.op = "read" /\ \A n : FollowTo(k, n).op = "follow"
    BY DEF FollowTo, ReadAll
  <2> HIDE DEF k, m
  <2>3. \/ \E n \in 1 .. m : Written = Select(k, n) /\ (n = 1 \/ Under(loop.script, k, loop.i, n - 1))
        \/ \E n \in 1 .. m : /\ Under(loop.script, k, loop.i, n)
                            /\ \E p \in DOMAIN prof[k][n] : Written = Put(k, p, prof[k][n][p])
    BY <2>1, <2>2 DEF Entries, Written
  <2>4. m \in Nat /\ (m # 0 => k \in DOMAIN prof /\ DOMAIN prof[k] = 1 .. m)
    BY EntriesOfProfiles DEF m, Count
  <2>5. k \in DOMAIN prof /\ DOMAIN prof[k] = 1 .. m
    BY <2>3, <2>4
  <2>6. QED
    BY <2>3, <2>5 DEF SelectsEntry, PutsPoint
<1>3. QED
  BY <1>1, <1>2

\* A writer's script is one of items, some profile's.
LEMMA ScriptOfPass ==
  ASSUME TypeOK, loop.i \in DOMAIN loop.script
  PROVE  \E prof \in Profiles, w \in 1 .. 4 : Scripted(loop.script, w, prof) /\ w = loop.writer
<1>1. loop.writer # 0
  <2>1. DOMAIN <<>> = {}
    OBVIOUS
  <2>2. QED
    BY <2>1 DEF TypeOK, Station
<1>2. loop.writer \in 1 .. 4
  BY <1>1 DEF TypeOK, Station, Loops
<1>3. QED
  BY <1>1, <1>2 DEF TypeOK, Station

LEMMA WriteKeepsSelected ==
  ASSUME TypeOK, Selected, WriteDone
  PROVE  Selected'
<1> SUFFICES ASSUME loop.since = broken, NEW k \in DOMAIN Startup, NEW n \in Nat \ {0},
                    Under(loop.script, k, loop.i + 1, n)
             PROVE  /\ dbs'[k].current = Landing(k, n) /\ Landing(k, n) \in DOMAIN dbs'[k].entries
                    /\ Landing(k, n) \in 1 .. Limit[k] /\ Startup[k] # <<>>
  BY DEF Selected, WriteDone, PassStays
<1>1. loop.i \in DOMAIN loop.script /\ loop.i \in Nat /\ loop.i >= 1 /\ Written \in Write /\ Reached = loop.i
  BY DEF WriteDone, TypeOK, Station, Loops
<1>2. PICK prof \in Profiles, w \in 1 .. 4 : Scripted(loop.script, w, prof)
  BY <1>1, ScriptOfPass
<1>3. Written.op = "write"
  BY <1>1 DEF Write
<1>4. dbs \in [Kind -> UNION {Database(j) : j \in Kind}] /\ \A j \in Kind : Whole(j, dbs[j])
  BY DEF TypeOK, Outstation, Databanks
<1>5. dbs' = [dbs EXCEPT ![Written.port[1]] = OperatedDb(Written.port, Written.value)]
  BY DEF WriteDone
<1>6. k \in Kind
  BY PointsOfKind
<1>7. CASE \E j \in DOMAIN Startup : Written = Select(j, 0)
  <2> DEFINE none == 0
  <2>1. PICK j \in DOMAIN Startup : loop.script[loop.i] = Select(j, none)
    BY <1>7 DEF Written
  <2> HIDE DEF none
  <2>2. n = none
    <3>1. \A h, m : Under(loop.script, h, loop.i + 1, m) => h = j /\ m = none
      BY <1>1, <2>1, UnderSelection
    <3>2. QED
      BY <3>1
  <2>3. QED
    BY <2>2 DEF none
<1>8. CASE \E j \in DOMAIN prof : \E m \in DOMAIN prof[j] : SelectsEntry(prof, j, m)
  <2> PICK j \in DOMAIN prof : \E m \in DOMAIN prof[j] : SelectsEntry(prof, j, m)
    BY <1>8
  <2>1. PICK m \in DOMAIN prof[j] : SelectsEntry(prof, j, m)
    OBVIOUS
  <2>2. loop.script[loop.i] = Select(j, m) /\ Written = Select(j, m)
    BY <2>1 DEF SelectsEntry, Written
  <2>3. k = j /\ n = m
    BY <1>1, <2>2, UnderSelection
  <2>4. n # 1 => dbs[k].current = Landing(k, n - 1)
    <3>1. ASSUME n # 1 PROVE dbs[k].current = Landing(k, n - 1)
      <4>1. Under(loop.script, k, loop.i, n - 1) /\ n - 1 \in Nat \ {0}
        BY <2>1, <2>3, <3>1 DEF SelectsEntry
      <4>2. QED
        BY <1>1, <4>1 DEF Selected
    <3>2. QED
      BY <3>1
  <2>5. Written.port[1] = k /\ Written.value = n /\ IsSelector(Written.port)
    BY <2>2, <2>3, PortNames DEF Select
  <2>6. dbs'[k] = SetActive(dbs[k], n)
    BY <1>4, <1>5, <1>6, <2>5 DEF OperatedDb
  <2>7. Whole(k, dbs[k])
    BY <1>4, <1>6
  <2>8. QED
    BY <2>3, <2>4, <2>6, <2>7, SelectionLands
<1>9. CASE \E j \in DOMAIN prof : \E m \in DOMAIN prof[j] : \E p \in DOMAIN prof[j][m] : PutsPoint(prof, j, m, p)
  <2> PICK j \in DOMAIN prof : \E m \in DOMAIN prof[j] : \E p \in DOMAIN prof[j][m] : PutsPoint(prof, j, m, p)
    BY <1>9
  <2> PICK m \in DOMAIN prof[j] : \E p \in DOMAIN prof[j][m] : PutsPoint(prof, j, m, p)
    OBVIOUS
  <2>1. PICK p \in DOMAIN prof[j][m] : PutsPoint(prof, j, m, p)
    OBVIOUS
  <2>2. loop.script[loop.i] = Put(j, p, prof[j][m][p]) /\ Written = Put(j, p, prof[j][m][p])
    BY <2>1 DEF PutsPoint, Written
  <2>3. IsPoint(p) /\ j \in Kind
    BY EntriesOfProfiles, PointsOfKind
  <2>4. ~Selecting(loop.script[loop.i])
    BY <2>2, <2>3, ItemsDiffer
  <2>5. Under(loop.script, k, loop.i, n)
    BY <1>1, <2>4, UnderNext
  <2>6. /\ dbs[k].current = Landing(k, n) /\ Landing(k, n) \in DOMAIN dbs[k].entries
        /\ Landing(k, n) \in 1 .. Limit[k] /\ Startup[k] # <<>>
    BY <1>1, <2>5 DEF Selected
  <2>7. Written.port[1] = j /\ ~IsSelector(Written.port) /\ PointOf(Written.port) = p
    BY <2>2, <2>3, PortNames DEF Put
  <2>8. dbs'[k] = dbs[k] \/ \E v \in Int : dbs'[k] = UpdateValue(dbs[k], p, v)
    <3>1. Written.value \in Int
      BY <1>1 DEF Write
    <3>2. QED
      BY <1>4, <1>5, <1>6, <2>3, <2>7, <3>1 DEF OperatedDb
  <2>9. dbs'[k].current = dbs[k].current /\ DOMAIN dbs'[k].entries = DOMAIN dbs[k].entries
    <3>1. dbs[k] \in Database(k)
      BY <1>4, <1>6 DEF Whole
    <3>2. QED
      BY <1>6, <2>8, <3>1, WritingKeepsDatabases
  <2>10. QED
    BY <2>6, <2>9
<1>10. QED
  BY <1>2, <1>3, <1>1, <1>7, <1>8, <1>9, WrittenOfScript

\* At the start of a script nothing is selected.
LEMMA NothingSelected ==
  ASSUME NEW s, NEW k, NEW n
  PROVE  ~Under(s, k, 1, n)
<1>1. 1 .. 1 - 1 = {}
  OBVIOUS
<1>2. QED
  BY <1>1 DEF Under

LEMMA SelectedStays ==
  ASSUME TypeOK, OneOpen, Selected, [Next]_vars
  PROVE  Selected'
<1>1. CASE Still
  BY <1>1 DEF Still, PassStays, Selected
<1>2. CASE WriteDone
  BY <1>2, WriteKeepsSelected
<1>3. CASE ItemDone
  <2>1. loop.i \in Nat /\ loop.i >= 1 /\ Reached = loop.i /\ Reached' = loop.i + 1
        /\ UNCHANGED <<dbs, broken>> /\ loop'.script = loop.script /\ loop'.since = loop.since
    BY <1>3 DEF ItemDone, PassStays, TypeOK, Station, Loops
  <2>2. ~Selecting(loop.script[loop.i])
    BY <1>3 DEF ItemDone, Selecting, Written
  <2>3. \A k, n : Under(loop.script, k, loop.i + 1, n) => Under(loop.script, k, loop.i, n)
    BY <2>1, <2>2, UnderNext
  <2>4. QED
    BY <2>1, <2>3 DEF Selected
<1>4. CASE Turn
  <2>1. Reached' = 1
    <3>1. loop'.i = 1
      <4>1. CASE BeginWriter
        BY <4>1 DEF BeginWriter, TypeOK, Station, Loops
      <4>2. CASE PassDone
        <5>1. After[loop.at] \in Passes \cup {"select", "test"}
          BY <4>2 DEF PassDone, Passes, After
        <5>2. Pass(After[loop.at]) \in Loops /\ Pass(After[loop.at]).i = 1
          BY <5>1, PassTypes
        <5>3. QED
          BY <4>2, <5>2 DEF PassDone, Loops
      <4>3. CASE Timer \/ Notified \/ Test
        BY <4>3, PassTypes DEF Timer, Notified, Test, Passes
      <4>4. QED
        BY <1>4, <4>1, <4>2, <4>3 DEF Turn
    <3>2. QED
      BY <1>4, <3>1 DEF Turn
  <2>2. QED
    BY <2>1, NothingSelected DEF Selected
<1>5. CASE Loaded
  BY <1>5 DEF Loaded, Selected
<1>6. CASE Broken
  BY <1>6 DEF Broken, Selected
<1>7. QED
  BY <1>1, <1>2, <1>3, <1>4, <1>5, <1>6, Steps

\* So a read finds the entry that was followed.
LEMMA SelectedIsFound ==
  ASSUME TypeOK, OneOpen, Selected
  PROVE  ReadFindsTheEntry
<1> SUFFICES ASSUME loop.waits, Written.op = "read", loop.since = broken,
                    loop.script[loop.i - 1].number <= Limit[loop.script[loop.i - 1].kind]
             PROVE  dbs[loop.script[loop.i - 1].kind].current = loop.script[loop.i - 1].number
  BY DEF ReadFindsTheEntry
<1>1. loop.i \in DOMAIN loop.script /\ Written = ReadAll /\ loop.i \in Nat /\ loop.i >= 1
  BY WrittenIsItem DEF OneOpen, TypeOK, Station, Loops
<1>2. PICK prof \in Profiles, w \in 1 .. 4 : Scripted(loop.script, w, prof)
  BY <1>1, ScriptOfPass
<1>3. w # 1
  <2>1. ASSUME w = 1 PROVE FALSE
    <3>1. loop.script \in Seq({Select(k, 0) : k \in DOMAIN Startup})
      BY <1>2, <2>1 DEF Scripted
    <3>2. loop.script[loop.i] \in {Select(k, 0) : k \in DOMAIN Startup}
      BY <1>1, <3>1
    <3>3. PICK k \in DOMAIN Startup : Written = Select(k, 0)
      BY <3>2 DEF Written
    <3>4. Select(k, 0).op = "write"
      BY DEF Select
    <3>5. QED
      BY <3>3, <3>4
  <2>2. QED
    BY <2>1
<1> DEFINE k == KindOf[w]
<1>4. PICK n \in 1 .. Count(prof, k) : Under(loop.script, k, loop.i, n) /\ loop.script[loop.i - 1] = FollowTo(k, n)
  <2>1. Entries(loop.script, k, prof, Skipped(k), Count(prof, k))
    BY <1>2, <1>3 DEF Scripted
  <2>2. /\ \A m : Select(k, m).op = "write" /\ FollowTo(k, m).op = "follow"
        /\ \A p, v : Put(k, p, v).op = "write"
    BY DEF Select, FollowTo, Put
  <2> HIDE DEF k
  <2>3. QED
    BY <1>1, <2>1, <2>2 DEF Entries, Written
<1>5. k \in DOMAIN Startup /\ n \in Nat \ {0}
  <2>1. k \in DOMAIN prof
    BY <1>4 DEF Count
  <2>2. QED
    BY <1>4, <2>1, EntriesOfProfiles
<1>6. loop.script[loop.i - 1].kind = k /\ loop.script[loop.i - 1].number = n
  BY <1>4 DEF FollowTo
<1>7. Under(loop.script, k, Reached, n)
  <2>1. ~Selecting(loop.script[loop.i])
    BY <1>1, ItemsDiffer DEF Written
  <2>2. Under(loop.script, k, loop.i + 1, n)
    BY <1>1, <1>4, <2>1, UnderNext
  <2>3. QED
    BY <1>4, <2>2 DEF Reached
<1>8. dbs[k].current = Landing(k, n)
  BY <1>5, <1>7 DEF Selected
<1>9. Landing(k, n) = n
  BY <1>6 DEF Landing
<1>10. QED
  BY <1>6, <1>8, <1>9

-----------------------------------------------------------------------------
(* What the outstation holds of the profile.                               *)

Held(k, n, p) ==
  /\ Landing(k, n) \in DOMAIN dbs[k].entries
  /\ dbs[k].entries[Landing(k, n)].value[p] = profile[k][n][p]

KindHeld(k) ==
  k \in DOMAIN profile => \A n \in DOMAIN profile[k] : \A p \in Due(k, n) : Held(k, n, p)

\* What the script put so far.
PutsHeld ==
  \A k \in DOMAIN profile : \A n \in DOMAIN profile[k] : \A p \in DOMAIN profile[k][n] :
    \A j \in DOMAIN loop.script :
      /\ j < Reached /\ Under(loop.script, k, j, n)
      /\ loop.script[j] = Put(k, p, profile[k][n][p])
      => Held(k, n, p)

\* In a scenario's own pass, while the connection holds: the writers before are done,
\* and the one whose turn it is as far as it came.
Holding ==
  ~notify /\ loop.since = broken =>
    /\ loop.at = "notified" /\ loop.writer # 0 =>
         /\ Scripted(loop.script, loop.writer, profile)
         /\ \A w \in 2 .. 4 : w < loop.writer => KindHeld(KindOf[w])
         /\ PutsHeld
    /\ loop.at = "test" => \A w \in 2 .. 4 : KindHeld(KindOf[w])

\* A point that is written holds its value, and what was held is held: entries that
\* land in one place have the same values.
LEMMA WriteHolds ==
  ASSUME TypeOK, Selected, WriteDone, loop.since = broken, NEW w \in 1 .. 4,
         Scripted(loop.script, w, profile),
         NEW k \in DOMAIN profile, NEW n \in DOMAIN profile[k], NEW p \in DOMAIN profile[k][n],
         Held(k, n, p) \/ PutsPoint(profile, k, n, p)
  PROVE  Held(k, n, p)'
<1>1. /\ loop.i \in DOMAIN loop.script /\ Written \in Write /\ Written.op = "write"
      /\ Reached = loop.i /\ profile' = profile /\ profile \in Profiles
      /\ dbs' = [dbs EXCEPT ![Written.port[1]] = OperatedDb(Written.port, Written.value)]
  BY DEF WriteDone, Write, TypeOK, Station
<1>2. dbs \in [Kind -> UNION {Database(j) : j \in Kind}] /\ \A j \in Kind : Whole(j, dbs[j])
  BY DEF TypeOK, Outstation, Databanks
<1>3. /\ k \in Kind /\ p \in Points(k) /\ n \in Nat \ {0}
      /\ profile[k][Landing(k, n)] = profile[k][n]
  BY <1>1, EntriesOfProfiles DEF Points
<1> DEFINE v == profile[k][n][p]
           l == Landing(k, n)
<1>4. dbs[k] \in Database(k) /\ \A m \in DOMAIN dbs[k].entries : DOMAIN dbs[k].entries[m].value = Points(k)
  BY <1>2, <1>3 DEF Whole
<1>5. ASSUME NEW j \in DOMAIN Startup, NEW m \in Nat, Written = Select(j, m) PROVE Held(k, n, p)'
  <2>1. Written.port[1] = j /\ IsSelector(Written.port) /\ Written.value = m /\ j \in Kind
    BY <1>5, PortNames, PointsOfKind DEF Select
  <2>2. Held(k, n, p)
    <3>1. IsPoint(p)
      BY <1>1, EntriesOfProfiles, PointsOfKind
    <3>2. Written # Put(k, p, v)
      BY <1>5, <3>1, ItemsDiffer
    <3>3. QED
      BY <3>2 DEF PutsPoint
  <2>3. CASE j = k
    <3>1. dbs'[k] = SetActive(dbs[k], m)
      BY <1>1, <1>2, <1>3, <2>1, <2>3 DEF OperatedDb
    <3>2. DOMAIN dbs[k].entries \subseteq DOMAIN dbs'[k].entries
          /\ \A h \in DOMAIN dbs[k].entries : dbs'[k].entries[h] = dbs[k].entries[h]
      BY <1>3, <1>4, <3>1, SelectingKeepsDatabases
    <3>3. QED
      BY <1>1, <2>2, <3>2 DEF Held
  <2>4. CASE j # k
    <3>1. dbs'[k] = dbs[k]
      BY <1>1, <1>2, <1>3, <2>1, <2>4
    <3>2. QED
      BY <1>1, <2>2, <3>1 DEF Held
  <2>5. QED
    BY <2>3, <2>4
<1>6. ASSUME NEW j \in DOMAIN profile, NEW m \in DOMAIN profile[j], NEW q \in DOMAIN profile[j][m],
             PutsPoint(profile, j, m, q)
      PROVE  Held(k, n, p)'
  <2> DEFINE x == profile[j][m][q]
             c == Landing(j, m)
  <2>1. /\ j \in Kind /\ j \in DOMAIN Startup /\ q \in Points(j) /\ IsPoint(q) /\ m \in Nat \ {0}
        /\ profile[j][c] = profile[j][m] /\ x \in Int
    <3>1. /\ j \in Kind /\ j \in DOMAIN Startup /\ DOMAIN profile[j] = 1 .. Len(profile[j])
          /\ \A h \in DOMAIN profile[j] :
               /\ profile[j][h] \in [DOMAIN profile[j][h] -> Int]
               /\ DOMAIN profile[j][h] \subseteq PointsOf(j)
               /\ profile[j][Landing(j, h)] = profile[j][h]
      <4> HIDE DEF x, c, v, l
      <4>1. QED
        BY <1>1, EntriesOfProfiles
    <3>2. q \in Points(j) /\ IsPoint(q)
      BY <3>1, PointsOfKind DEF Points
    <3>3. x \in Int
      BY <3>1
    <3>4. QED
      BY <3>1, <3>2, <3>3
  <2>2. Written = Put(j, q, x) /\ Under(loop.script, j, Reached, m)
    BY <1>1, <1>6 DEF PutsPoint
  <2>3. Written.port[1] = j /\ ~IsSelector(Written.port) /\ PointOf(Written.port) = q /\ Written.value = x
    BY <2>1, <2>2, PortNames DEF Put
  <2>4. dbs[j].current = c /\ c \in DOMAIN dbs[j].entries /\ Startup[j] # <<>>
    BY <2>1, <2>2 DEF Selected
  <2>5. q \in Template(dbs[j])
    BY <1>2, <2>1, <2>4 DEF Whole, Template
  <2>6. CASE j # k
    <3>1. dbs'[k] = dbs[k]
      BY <1>1, <1>2, <1>3, <2>3, <2>6
    <3>2. Held(k, n, p)
      <4>1. Written # Put(k, p, v)
        <5>1. IsPoint(p)
          BY <1>1, EntriesOfProfiles, PointsOfKind
        <5>2. Put(k, p, v).port[1] = k
          BY <5>1, PortNames DEF Put
        <5>3. QED
          BY <2>3, <2>6, <5>2
      <4>2. QED
        BY <4>1 DEF PutsPoint
    <3>3. QED
      BY <1>1, <3>1, <3>2 DEF Held
  <2>7. CASE j = k
    <3>1. dbs'[k] = UpdateValue(dbs[k], q, x)
      BY <1>1, <1>2, <1>3, <2>3, <2>5, <2>7 DEF OperatedDb
    <3> HIDE DEF x
    <3>2. /\ DOMAIN dbs'[k].entries = DOMAIN dbs[k].entries
          /\ \A h \in DOMAIN dbs[k].entries : \A r \in Points(k) :
               dbs'[k].entries[h].value[r] =
                 IF h = c /\ r = q THEN x ELSE dbs[k].entries[h].value[r]
      <4>1. dbs[k].current = c
        BY <2>4, <2>7
      <4> HIDE DEF c
      <4>2. QED
        BY <1>3, <1>4, <2>1, <3>1, <4>1, WritingKeepsDatabases
    <3>3. l \in DOMAIN dbs[k].entries
      <4>1. CASE Held(k, n, p)
        BY <4>1 DEF Held
      <4>2. CASE PutsPoint(profile, k, n, p)
        <5>1. Under(loop.script, k, Reached, n)
          BY <1>1, <4>2 DEF PutsPoint
        <5>2. QED
          BY <1>3, <2>1, <2>7, <5>1 DEF Selected
      <4>3. QED
        BY <4>1, <4>2
    <3>4. CASE l = c /\ p = q
      <4>1. x = v
        <5>1. profile[k][n] = profile[j][m]
          BY <1>3, <2>1, <2>7, <3>4
        <5>2. QED
          BY <3>4, <5>1 DEF x
      <4>2. dbs'[k].entries[l].value[p] = v
        BY <1>3, <3>2, <3>3, <3>4, <4>1
      <4>3. QED
        BY <1>1, <3>2, <3>3, <4>2 DEF Held
    <3>5. CASE ~(l = c /\ p = q)
      <4>1. Held(k, n, p)
        <5>1. ASSUME PutsPoint(profile, k, n, p) PROVE FALSE
          <6>1. Under(loop.script, k, loop.i, n) /\ Under(loop.script, j, loop.i, m)
                /\ Put(k, p, v) = Put(j, q, x) /\ loop.i \in Nat
            BY <1>1, <1>6, <2>2, <5>1 DEF PutsPoint, TypeOK, Station, Loops
          <6>2. n = m
            BY <6>1, UnderOne
          <6>3. IsPoint(p)
            BY <1>1, EntriesOfProfiles, PointsOfKind
          <6>4. p = q
            <7>1. PointOf(Put(k, p, v).port) = p /\ PointOf(Put(j, q, x).port) = q
              BY <2>1, <6>3, PortNames DEF Put
            <7>2. QED
              BY <6>1, <7>1
          <6>5. QED
            BY <2>7, <3>5, <6>2, <6>4
        <5>2. QED
          BY <5>1
      <4>2. dbs'[k].entries[l].value[p] = dbs[k].entries[l].value[p]
        BY <1>3, <3>2, <3>3, <3>5
      <4>3. QED
        BY <1>1, <3>2, <3>3, <4>1, <4>2 DEF Held
    <3>6. QED
      BY <3>4, <3>5
  <2>8. QED
    BY <2>6, <2>7
<1>7. CASE \E j \in DOMAIN Startup : Written = Select(j, 0)
  BY <1>5, <1>7
<1>8. CASE \E j \in DOMAIN profile : \E m \in DOMAIN profile[j] : SelectsEntry(profile, j, m)
  <2>1. PICK j \in DOMAIN profile : \E m \in DOMAIN profile[j] : SelectsEntry(profile, j, m)
    BY <1>8
  <2>2. PICK m \in DOMAIN profile[j] : Written = Select(j, m)
    BY <2>1 DEF SelectsEntry
  <2>3. j \in DOMAIN Startup /\ m \in Nat
    BY <1>1, EntriesOfProfiles
  <2>4. QED
    BY <1>5, <2>2, <2>3
<1>9. CASE \E j \in DOMAIN profile : \E m \in DOMAIN profile[j] : \E q \in DOMAIN profile[j][m] :
             PutsPoint(profile, j, m, q)
  BY <1>6, <1>9
<1>10. QED
  BY <1>1, <1>7, <1>8, <1>9, WrittenOfScript

\* An item of the script has put its point when the outstation is done with it.
LEMMA WriteKeepsHolding ==
  ASSUME TypeOK, Selected, Holding, WriteDone
  PROVE  Holding'
<1> SUFFICES ASSUME ~notify, loop.since = broken
             PROVE  /\ loop.at = "notified" /\ loop.writer # 0 =>
                         /\ Scripted(loop.script, loop.writer, profile)
                         /\ \A w \in 2 .. 4 : w < loop.writer => KindHeld(KindOf[w])'
                         /\ PutsHeld'
                    /\ loop.at # "test"
  BY DEF Holding, WriteDone, PassStays
<1>1. loop.at # "test"
  BY DEF WriteDone, Passes
<1>2. ASSUME loop.at = "notified", loop.writer # 0
      PROVE  /\ Scripted(loop.script, loop.writer, profile)
             /\ \A w \in 2 .. 4 : w < loop.writer => KindHeld(KindOf[w])'
             /\ PutsHeld'
  <2>1. /\ Scripted(loop.script, loop.writer, profile) /\ PutsHeld
        /\ \A w \in 2 .. 4 : w < loop.writer => KindHeld(KindOf[w])
    BY <1>2 DEF Holding
  <2>2. /\ loop.writer \in 1 .. 4 /\ profile' = profile /\ loop'.script = loop.script
        /\ Reached = loop.i /\ Reached' = loop.i + 1 /\ loop.i \in Nat
    BY <1>2 DEF TypeOK, Station, Loops, WriteDone, PassStays
  <2>3. ASSUME NEW k \in DOMAIN profile, NEW n \in DOMAIN profile[k], NEW p \in DOMAIN profile[k][n],
               Held(k, n, p) \/ PutsPoint(profile, k, n, p)
        PROVE  Held(k, n, p)'
    BY <2>1, <2>2, <2>3, WriteHolds
  <2>4. ASSUME NEW w \in 2 .. 4, w < loop.writer PROVE KindHeld(KindOf[w])'
    <3> DEFINE k == KindOf[w]
    <3>1. KindHeld(k)
      BY <2>1, <2>4
    <3> HIDE DEF k
    <3>2. KindHeld(k)'
      <4> SUFFICES ASSUME k \in DOMAIN profile, NEW n \in DOMAIN profile[k], NEW p \in Due(k, n)
                   PROVE  Held(k, n, p)'
        BY <2>2 DEF KindHeld, Due
      <4>1. p \in DOMAIN profile[k][n] /\ Held(k, n, p)
        BY <3>1 DEF KindHeld, Due
      <4>2. QED
        BY <2>3, <4>1
    <3>3. QED
      BY <3>2 DEF k
  <2>5. PutsHeld'
    <3> SUFFICES ASSUME NEW k \in DOMAIN profile, NEW n \in DOMAIN profile[k],
                        NEW p \in DOMAIN profile[k][n], NEW j \in DOMAIN loop.script,
                        j < loop.i + 1, Under(loop.script, k, j, n),
                        loop.script[j] = Put(k, p, profile[k][n][p])
                 PROVE  Held(k, n, p)'
      BY <2>2 DEF PutsHeld
    <3>1. j \in Nat
      BY DEF TypeOK, Station, Loops
    <3>2. CASE j < loop.i
      <4>1. Held(k, n, p)
        BY <2>1, <2>2, <3>2 DEF PutsHeld
      <4>2. QED
        BY <2>3, <4>1
    <3>3. CASE j = loop.i
      <4>1. PutsPoint(profile, k, n, p)
        BY <3>3 DEF PutsPoint, Written
      <4>2. QED
        BY <2>3, <4>1
    <3>4. QED
      BY <2>2, <3>1, <3>2, <3>3
  <2>6. QED
    BY <2>1, <2>4, <2>5
<1>3. QED
  BY <1>1, <1>2

\* A step that writes nothing leaves what is held.
LEMMA HeldAlike ==
  ASSUME UNCHANGED <<dbs, profile>>
  PROVE  \A k : KindHeld(k) => KindHeld(k)'
BY DEF KindHeld, Held, Due

\* A writer that is at the end of its script has put all it had to.
LEMMA ScriptDone ==
  ASSUME TypeOK, NEW w \in 2 .. 4, Scripted(loop.script, w, profile), PutsHeld,
         Reached = loop.i, loop.i > Len(loop.script)
  PROVE  KindHeld(KindOf[w])
<1> DEFINE k == KindOf[w]
<1> HIDE DEF k
<1> SUFFICES ASSUME k \in DOMAIN profile, NEW n \in DOMAIN profile[k], NEW p \in Due(k, n)
             PROVE  Held(k, n, p)
  BY DEF KindHeld, k
<1>1. Entries(loop.script, k, profile, Skipped(k), Count(profile, k))
  <2>1. w # 1
    OBVIOUS
  <2>2. QED
    BY <2>1 DEF Scripted, k
<1>2. n \in 1 .. Count(profile, k) /\ p \in DOMAIN profile[k][n] /\ profile[k][n][p] \notin Skipped(k)
  <2>1. DOMAIN profile[k] = 1 .. Len(profile[k])
    BY EntriesOfProfiles DEF TypeOK, Station
  <2>2. QED
    BY <2>1 DEF Count, Due, Skipped
<1>3. PICK j \in DOMAIN loop.script : Under(loop.script, k, j, n) /\ loop.script[j] = Put(k, p, profile[k][n][p])
  BY <1>1, <1>2 DEF Entries
<1>4. j < loop.i
  BY DEF TypeOK, Station, Loops
<1>5. QED
  BY <1>2, <1>3, <1>4 DEF PutsHeld

\* The turn goes to the next writer, or to the tests.
LEMMA TurnKeepsHolding ==
  ASSUME TypeOK, Holding, Turn
  PROVE  Holding'
<1>1. UNCHANGED <<dbs, broken>> /\ Reached' = loop'.i /\ Reached = loop.i
  BY DEF Turn
<1>2. loop \in Loops /\ loop.i \in Nat /\ Len(loop.script) \in Nat /\ loop.writer \in 0 .. 4 /\ profile \in Profiles
  BY DEF TypeOK, Station, Loops
<1>3. ASSUME profile' = profile, ~notify, loop.since = broken, loop.at = "notified",
             loop.i > Len(loop.script), NEW w \in 2 .. 4, w <= loop.writer
      PROVE  KindHeld(KindOf[w])'
  <2>1. /\ Scripted(loop.script, loop.writer, profile) /\ PutsHeld
        /\ \A v \in 2 .. 4 : v < loop.writer => KindHeld(KindOf[v])
    BY <1>2, <1>3 DEF Holding
  <2>2. KindHeld(KindOf[w])
    <3>1. CASE w = loop.writer
      BY <1>1, <1>3, <2>1, <3>1, ScriptDone
    <3>2. CASE w # loop.writer
      BY <1>2, <1>3, <2>1, <3>2
    <3>3. QED
      BY <3>1, <3>2
  <2>3. QED
    BY <1>1, <1>3, <2>2, HeldAlike
<1>4. CASE BeginWriter
  <2> DEFINE v == loop.writer + 1
             s == Script(Writers[v], profile)
  <2>1. /\ loop.i > Len(loop.script) /\ v \in 1 .. 4 /\ UNCHANGED <<profile, notify>>
        /\ loop' = [loop EXCEPT !.writer = v, !.i = 1, !.script = s]
    BY <1>2, <1>4 DEF BeginWriter, Writers
  <2>2. Scripted(s, v, profile)
    BY <1>2, <2>1, ScriptsOfWriters
  <2> DEFINE V == v
  <2>3. V = loop.writer + 1
    OBVIOUS
  <2> HIDE DEF s, V
  <2>4. /\ loop'.at = loop.at /\ loop'.writer = V /\ loop'.script = s /\ loop'.i = 1
        /\ loop'.since = loop.since
    BY <1>2, <2>1, <2>3 DEF Loops
  <2> SUFFICES ASSUME ~notify, loop.since = broken, loop.at = "notified"
               PROVE  /\ Scripted(s, V, profile)
                      /\ \A w \in 2 .. 4 : w < V => KindHeld(KindOf[w])'
                      /\ PutsHeld'
    BY <1>1, <1>4, <2>1, <2>4 DEF Holding, BeginWriter, Passes
  <2>5. \A w \in 2 .. 4 : w < V => KindHeld(KindOf[w])'
    <3>1. ASSUME NEW w \in 2 .. 4, w < V PROVE KindHeld(KindOf[w])'
      <4>1. w <= loop.writer
        BY <1>2, <2>3, <3>1
      <4>2. QED
        BY <1>3, <2>1, <4>1
    <3>2. QED
      BY <3>1
  <2>6. PutsHeld'
    <3>1. s \in Seq(Item)
      BY <1>2, <2>1, <2>2, ScriptsOfItems
    <3>2. \A j \in DOMAIN s : ~(j < 1)
      BY <3>1
    <3>3. QED
      BY <1>1, <2>4, <3>2 DEF PutsHeld
  <2>7. QED
    BY <2>2, <2>3, <2>5, <2>6
<1>5. CASE PassDone
  <2>1. /\ loop.at \in Passes /\ loop.writer = 4 /\ loop.i > Len(loop.script)
        /\ UNCHANGED <<profile, notify>>
        /\ loop' = [Pass(After[loop.at]) EXCEPT !.since = IF After[loop.at] = "test" THEN loop.since ELSE @]
    BY <1>5 DEF PassDone, Writers
  <2> DEFINE at == After[loop.at]
             p == Pass(at)
             since == IF at = "test" THEN loop.since ELSE p.since
  <2>2. at \in {"select", "top", "test"} /\ (at = "test" => loop.at = "notified")
    BY <2>1 DEF Passes, After
  <2>3. p \in Loops /\ p.at = at
    BY <2>2, PassTypes DEF Passes
  <2>4. loop' = [p EXCEPT !.since = since]
    BY <2>1
  <2> HIDE DEF p, since
  <2>5. loop'.at = at /\ loop'.since = since
    BY <2>3, <2>4 DEF Loops
  <2> SUFFICES ASSUME ~notify, loop'.since = broken, loop'.at = "test"
               PROVE  \A w \in 2 .. 4 : KindHeld(KindOf[w])'
    BY <1>1, <2>1, <2>2, <2>5 DEF Holding
  <2>6. loop.at = "notified" /\ loop.since = broken
    BY <2>2, <2>5 DEF since
  <2>7. QED
    BY <1>3, <2>1, <2>6
<1>6. CASE Timer \/ Test \/ Notified
  <2>1. PICK at \in Passes : loop' = Pass(at)
    BY <1>6 DEF Timer, Test, Notified, Passes
  <2>2. loop'.at # "test" /\ loop'.writer = 0
    BY <2>1, PassTypes DEF Passes
  <2>3. QED
    BY <2>2 DEF Holding
<1>7. QED
  BY <1>4, <1>5, <1>6 DEF Turn

LEMMA HoldingStays ==
  ASSUME TypeOK, OneOpen, Selected, Holding, [Next]_vars
  PROVE  Holding'
<1>1. CASE Still
  <2>1. \A k : KindHeld(k) => KindHeld(k)'
    BY <1>1, HeldAlike DEF Still
  <2>2. PutsHeld => PutsHeld'
    BY <1>1 DEF Still, PassStays, PutsHeld, Held
  <2>3. QED
    BY <1>1, <2>1, <2>2 DEF Still, PassStays, Holding
<1>2. CASE WriteDone
  BY <1>2, WriteKeepsHolding
<1>3. CASE ItemDone
  <2>1. \A k : KindHeld(k) => KindHeld(k)'
    BY <1>3, HeldAlike DEF ItemDone
  <2>2. PutsHeld => PutsHeld'
    <3> SUFFICES ASSUME PutsHeld, NEW k \in DOMAIN profile, NEW n \in DOMAIN profile[k],
                        NEW p \in DOMAIN profile[k][n], NEW j \in DOMAIN loop.script,
                        j < loop.i + 1, Under(loop.script, k, j, n),
                        loop.script[j] = Put(k, p, profile[k][n][p])
                 PROVE  Held(k, n, p)
      BY <1>3 DEF ItemDone, PassStays, PutsHeld, Held
    <3>1. j \in Nat /\ loop.i \in Nat
      BY DEF TypeOK, Station, Loops
    <3>2. j # loop.i
      <4>1. loop.script[j].op = "write"
        BY DEF Put
      <4>2. QED
        BY <1>3, <4>1 DEF ItemDone, Written
    <3>3. j < Reached
      BY <1>3, <3>1, <3>2 DEF ItemDone
    <3>4. QED
      BY <3>3 DEF PutsHeld
  <2>3. QED
    BY <1>3, <2>1, <2>2 DEF ItemDone, PassStays, Holding
<1>4. CASE Turn
  BY <1>4, TurnKeepsHolding
<1>5. CASE Loaded
  BY <1>5 DEF Loaded, Holding
<1>6. CASE Broken
  BY <1>6 DEF Broken, Holding
<1>7. QED
  BY <1>1, <1>2, <1>3, <1>4, <1>5, <1>6, Steps

\* So when the tests run, the outstation has what they are to find.
LEMMA HeldAtTheTests ==
  ASSUME TypeOK, Holding
  PROVE  OutstationHasProfile
<1> SUFFICES ASSUME loop.at = "test", ~notify, loop.since = broken,
                    NEW k \in DOMAIN profile, NEW n \in Room(k), NEW p \in Due(k, n)
             PROVE  dbs[k].entries[n].value[p] = profile[k][n][p]
  BY DEF OutstationHasProfile, Tested
<1>1. k \in Kind
  BY EntriesOfProfiles DEF TypeOK, Station
<1>2. k = KindOf[2] \/ k = KindOf[3] \/ k = KindOf[4]
  BY <1>1 DEF Kind, KindOf
<1>3. KindHeld(k)
  BY <1>2 DEF Holding
<1>4. n \in DOMAIN profile[k] /\ Landing(k, n) = n
  BY DEF Room, Landing
<1>5. QED
  BY <1>3, <1>4 DEF KindHeld, Held

\* An entry there is no room for is never received.
LEMMA NoRoomNothingReceived ==
  ASSUME TypeOK
  PROVE  OneTooManyFails
<1> SUFFICES ASSUME NEW k \in DOMAIN profile, Len(profile[k]) > Limit[k], ReadBack(k)
             PROVE  FALSE
  BY DEF OneTooManyFails
<1>1. k \in Kind /\ Len(profile[k]) \in Nat /\ DOMAIN profile[k] = 1 .. Len(profile[k])
  BY EntriesOfProfiles DEF TypeOK, Station
<1>2. Limit[k] \in Nat
  BY <1>1, LimitsOfKinds
<1> DEFINE n == Len(profile[k])
<1>3. n \in DOMAIN profile[k]
  BY <1>1, <1>2
<1>4. n \in DOMAIN mirror[k].entries /\ Received(mirror[k], n) # NoPoints
  BY <1>3 DEF ReadBack
<1>5. RoomIsKept(k, mirror[k])
  BY <1>1 DEF TypeOK, Station, Databanks, Database
<1>6. mirror[k].entries[n].written = {}
  BY <1>4, <1>5 DEF RoomIsKept
<1>7. Received(mirror[k], n) = NoPoints
  BY <1>4, <1>6 DEF Received, NoPoints
<1>8. QED
  BY <1>4, <1>7

-----------------------------------------------------------------------------
(* The theorems.                                                           *)

IInv == TypeOK /\ OneOpen /\ Selected /\ Holding

LEMMA InvariantHolds == Spec => []IInv
<1>1. Init => IInv
  <2> SUFFICES ASSUME Init PROVE IInv
    OBVIOUS
  <2>1. TypeOK /\ OneOpen
    BY InitTypes
  <2>2. /\ DOMAIN wire = {} /\ loop.i = 1 /\ loop.at = "top"
    BY DEF Init, Pass
  <2>3. Reached = 1
    BY <2>2 DEF Reached, NoAnswer
  <2>4. Selected
    BY <2>3, NothingSelected DEF Selected
  <2>5. Holding
    BY <2>2 DEF Holding
  <2>6. QED
    BY <2>1, <2>4, <2>5 DEF IInv
<1>2. IInv /\ [Next]_vars => IInv'
  BY Steps, SelectedStays, HoldingStays DEF IInv
<1>3. QED
  BY <1>1, <1>2, PTL DEF Spec

\* The messages, the inputs, the databases of both stations and the scripts of the
\* loop keep their types, and never is more than one request open.
THEOREM TypeCorrect == Spec => [](TypeOK /\ OneOpen)
<1>1. IInv => TypeOK /\ OneOpen
  BY DEF IInv
<1>2. QED
  BY <1>1, InvariantHolds, PTL

\* While the loop waits for the values it reads after an entry, the outstation has
\* that entry current, whatever was reported in between.
THEOREM ReadsFindTheirEntry == Spec => []ReadFindsTheEntry
<1>1. IInv => ReadFindsTheEntry
  BY SelectedIsFound DEF IInv
<1>2. QED
  BY <1>1, InvariantHolds, PTL

\* When the tests of a scenario run after an unbroken pass, the outstation has every
\* value of its profile in the entry it belongs to.
THEOREM ProfileArrives == Spec => []OutstationHasProfile
<1>1. IInv => OutstationHasProfile
  BY HeldAtTheTests DEF IInv
<1>2. QED
  BY <1>1, InvariantHolds, PTL

\* A profile with more entries than there is room for never passes the tests.
THEOREM TooManyNeverPass == Spec => []OneTooManyFails
<1>1. IInv => OneTooManyFails
  BY NoRoomNothingReceived DEF IInv
<1>2. QED
  BY <1>1, InvariantHolds, PTL

=============================================================================
