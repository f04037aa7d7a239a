---------------------------- MODULE EntryDatabase ----------------------------
(***************************************************************************)
(* The databases of curves and schedules behind a selector                  *)
(* (common/src/profile/indexed_db.rs, multiplexing/database_entry.rs,       *)
(* curves/curve_db.rs, schedules/schedule_db.rs, schedules/                 *)
(* schedule_bc_db.rs), as operators.  The outstation keeps one of each      *)
(* kind, the control station another that mirrors it.                       *)
(*                                                                         *)
(* A database numbers its entries from 1 and shows one of them, the current *)
(* entry, through points that all its entries share.  Every operation runs  *)
(* under the write lock of the database, so an operator is one step.        *)
(***************************************************************************)
EXTENDS Naturals, Sequences

Kind == {"curve", "schedule_bc", "schedule"}

\* The fields of an entry: those it has once, and those it has in each slot.
CurveFields ==
  [once |-> {"curve_type", "number_of_points", "x_units", "y_units"},
   each |-> {"x_values", "y_values"}]

ScheduleBCFields ==
  [once |-> {"identity", "priority", "schedule_type", "start_date", "start_time",
             "repeat_interval", "repeat_interval_units", "validation_status", "status",
             "number_of_points"},
   each |-> {"time_offsets", "values"}]

ScheduleFields ==
  [once |-> {"identity", "priority", "start_date", "start_time", "stop_date",
             "stop_time", "repeat_interval", "repeat_interval_units",
             "validation_state", "status", "number_of_points"},
   each |-> {"time_offsets", "action_types", "action_indexes", "values"}]

\* The points of an entry that has these slots, as all_ai_values lists them; the
\* fields that are there once are in slot 0.
CurvePoints(slots) ==
  (CurveFields.once \X {0}) \cup (CurveFields.each \X slots)
ScheduleBCPoints(slots) ==
  (ScheduleBCFields.once \X {0}) \cup (ScheduleBCFields.each \X slots)
SchedulePoints(slots) ==
  (ScheduleFields.once \X {0}) \cup (ScheduleFields.each \X slots)

FieldsOf(kind, slots) ==
  CASE kind = "curve" -> CurvePoints(slots)
    [] kind = "schedule_bc" -> ScheduleBCPoints(slots)
    [] kind = "schedule" -> SchedulePoints(slots)

-----------------------------------------------------------------------------
(* Entries.                                                                *)

NoPoints == [p \in {} |-> 0]

\* An entry of the profile; nothing of it has been written.
EntryOf(values) == [value |-> values, written |-> {}]

MutBlankCopies(entry) == EntryOf(entry.value)

\* create_blank_instance: the same points, all 0, none written.
Blank(entry) == EntryOf([p \in DOMAIN entry.value |-> 0])

\* update_value: a point the entry has is set and marked.
Updated(entry, p, v) ==
  IF p \in DOMAIN entry.value
  THEN [value |-> [entry.value EXCEPT ![p] = v], written |-> entry.written \cup {p}]
  ELSE entry

-----------------------------------------------------------------------------
(* Databases.                                                              *)

\* DatabasesConfig: as many entries as the profile of start-up has, up to a most.
Limits(profile, most) ==
  [k \in Kind |->
     IF k \notin DOMAIN profile THEN 0
     ELSE IF Len(profile[k]) <= most THEN Len(profile[k]) ELSE most]

\* from_profile: entries are numbered in the order of the profile, the first is
\* the current one; the limit of the selector is given separately.
FromProfile(profile, max) ==
  [entries |-> [n \in DOMAIN profile |-> EntryOf(profile[n])],
   points  |-> IF profile = <<>> THEN NoPoints ELSE profile[1],
   current |-> 1,
   max     |-> max]

\* template_entry: entry 1 tells which points the database has.
Template(db) == IF 1 \in DOMAIN db.entries THEN DOMAIN db.entries[1].value ELSE {}

MutSelectableBelow(db, n) ==
  n # 0 /\ n < db.max /\ (n \in DOMAIN db.entries \/ 1 \in DOMAIN db.entries)

\* get_or_create_entry finds or makes an entry of that number.
Selectable(db, n) == n # 0 /\ n <= db.max /\ (n \in DOMAIN db.entries \/ 1 \in DOMAIN db.entries)

WithEntry(db, n) ==
  IF n \in DOMAIN db.entries
  THEN db.entries
  ELSE [m \in DOMAIN db.entries \cup {n} |->
          IF m = n THEN Blank(db.entries[1]) ELSE db.entries[m]]

\* set_active_entry: out of range changes nothing.
SetActive(db, n) ==
  IF Selectable(db, n)
  THEN LET entries == WithEntry(db, n) IN
       [db EXCEPT !.entries = entries, !.points = entries[n].value, !.current = n]
  ELSE db

MutUpdateValueStale(db, p, v) ==
  IF db.current \in DOMAIN db.entries /\ p \in DOMAIN db.entries[db.current].value
  THEN [db EXCEPT !.entries[db.current] = Updated(@, p, v)]
  ELSE db

\* update_value: the current entry and the list of its points follow.
UpdateValue(db, p, v) ==
  IF db.current \in DOMAIN db.entries /\ p \in DOMAIN db.entries[db.current].value
  THEN [db EXCEPT !.entries[db.current] = Updated(@, p, v),
                  !.points = IF p \in DOMAIN @ THEN [@ EXCEPT ![p] = v] ELSE @]
  ELSE db

\* received_values (written_values): what was written into an entry.
Received(db, n) ==
  IF n \in DOMAIN db.entries
  THEN [p \in db.entries[n].written |-> db.entries[n].value[p]]
  ELSE NoPoints

=============================================================================
