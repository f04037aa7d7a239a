--------------------------- MODULE MCPointExchange ---------------------------
(* A small instance of PointExchange: two analog outputs, of which the second *)
(* is out of range in the last scenario, and three binary ones: the second    *)
(* is not read back, and the third shares its input with the first, which     *)
(* alone is written.                                                         *)
EXTENDS PointExchange

MCAoToAi == [ao1 |-> "ai1", ao2 |-> "ai2"]
MCBoToBi == [bo1 |-> "bi1", bo3 |-> "bi1"]
MCBiToBo == [bi1 |-> "bo1"]
MCAiBounds == [ai1 |-> <<0, 3>>, ai2 |-> <<0, 3>>]
MCAoBounds == [ao1 |-> <<0, 2>>, ao2 |-> <<0, 2>>]
MCStartup == [ai1 |-> 0, ai2 |-> 2]
MCPlan == <<[ai1 |-> 2, ai2 |-> 2], [ai1 |-> 1, ai2 |-> 3]>>
MCTests ==
  [one |-> [family |-> "mode", ai |-> {"ai1"}, bi |-> {"bi1"}, ao |-> {"ao1"}, bo |-> {"bo1"}],
   both |-> [family |-> "mode", ai |-> {"ai1", "ai2"}, bi |-> {}, ao |-> {"ao1", "ao2"}, bo |-> {}],
   curve |-> [family |-> "curve", ai |-> {"ai2"}, bi |-> {"bi1"}, ao |-> {"ao2"}, bo |-> {}],
   unread |-> [family |-> "mode", ai |-> {}, bi |-> {}, ao |-> {}, bo |-> {"bo1", "bo2"}],
   shared |-> [family |-> "mode", ai |-> {}, bi |-> {"bi1"}, ao |-> {}, bo |-> {"bo1", "bo3"}],
   schedule |-> [family |-> "schedule", ai |-> {"ai1"}, bi |-> {}, ao |-> {"ao1"}, bo |-> {"bo1"}]]
=============================================================================
