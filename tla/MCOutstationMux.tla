--------------------------- MODULE MCOutstationMux ---------------------------
(* Small instances of OutstationMux. *)
EXTENDS OutstationMux

Type == <<"curve_type", 0>>
X1 == <<"x_values", 1>>
Priority == <<"priority", 0>>

\* A scenario with two curves and a schedule of the old kind, and one with fewer
\* curves, of other points.
MCProfiles ==
  [first |-> [curve |-> <<[p \in {Type} |-> 2], [p \in {Type} |-> 0]>>,
              schedule_bc |-> <<[p \in {Priority} |-> 2]>>],
   second |-> [curve |-> <<[p \in {X1} |-> 0]>>, schedule |-> <<>>]]

MCScenarios == {"first", "second"}

\* 5 is one more than a narrowed selector holds, and out of bounds for data.
MCBounds == [s \in MCScenarios |-> [selector |-> <<0, 5>>, data |-> <<0, 2>>]]
MCValues == {2, 5}
=============================================================================
