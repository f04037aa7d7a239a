------------------------------ MODULE MCMuxLink ------------------------------
(* Small instances of MuxLink. *)
EXTENDS MuxLink

X == <<"x_values", 1>>
One(v) == [q \in {X} |-> v]

\* Three curves; a scenario that changes two of them to the value of the third,
\* and one that has a curve too many.
MCStartup == [curve |-> <<One(0), One(0), One(2)>>]
MCPlan == <<[curve |-> <<One(1), One(2), One(2)>>],
            [curve |-> <<One(1), One(2), One(2), One(2)>>]>>
MCNA == -9
=============================================================================
