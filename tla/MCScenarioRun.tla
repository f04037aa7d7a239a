--------------------------- MODULE MCScenarioRun ----------------------------
(***************************************************************************)
(* Instances of ScenarioRun for TLC.  Two tests stand for the thirty-one,   *)
(* and a channel of three events for one of 256: a run of the tests sends   *)
(* four events, so that the channel overflows.                              *)
(***************************************************************************)
EXTENDS ScenarioRun

\* What the scenario generator offers: the functional scenarios expect no test.
AllTests == {1, 2}
MCExpected == [id \in {Plan[n] : n \in DOMAIN Plan} |-> IF id = "functional" THEN {} ELSE AllTests]

\* Two scenarios that wait for results, the first twice, and one that does not.
FullPlan == <<"configuration", "modify_points", "configuration", "functional">>
\* The one that does not wait comes first.
FunctionalFirst == <<"functional", "configuration">>
=============================================================================
