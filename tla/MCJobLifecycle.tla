--------------------------- MODULE MCJobLifecycle ---------------------------
(* Model-checking instances of JobLifecycle.                               *)
EXTENDS JobLifecycle, TLC

\* Job ids and handlers are interchangeable.
Symmetry == Permutations(Job) \cup Permutations(Client)

\* Every choice of stations, with at most two scenarios.
AllRequests == [os : BOOLEAN, cs : BOOLEAN, scenarios : 0..2]

\* A complete bench with a scenario, and an outstation that runs until stopped.
TwoRequests ==
  {[os |-> TRUE, cs |-> TRUE, scenarios |-> 1],
   [os |-> TRUE, cs |-> FALSE, scenarios |-> 0]}

\* A complete bench with a scenario.
FullRequest == {[os |-> TRUE, cs |-> TRUE, scenarios |-> 1]}

=============================================================================
