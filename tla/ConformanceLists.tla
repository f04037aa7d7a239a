--------------------------- MODULE ConformanceLists ---------------------------
(***************************************************************************)
(* The points each of the conformance tests exchanges, by index            *)
(* (common/src/conformance_testing/point_lists.rs).  The source names them *)
(* by identifiers that a build script makes of the bundled full profile;   *)
(* the indices here are the ones those identifiers get.  family tells the  *)
(* tests that also look at the entries of a curve or schedule database.    *)
(***************************************************************************)
EXTENDS Integers

mon_001 == [family |-> "mode", ai |-> 533..556, bi |-> {}, ao |-> {}, bo |-> {}]
alarm_001 == [family |-> "mode", ai |-> {}, bi |-> 0..9 \cup 94..105, ao |-> {}, bo |-> {}]
conn_001 == [family |-> "mode", ai |-> 60..61, bi |-> 23..24, ao |-> 16..17, bo |-> {5}]
serv_001 == [family |-> "mode", ai |-> 50..59, bi |-> 12..17, ao |-> 6..15, bo |-> 2..4]
op_001 == [family |-> "mode", ai |-> {}, bi |-> 10..22, ao |-> {}, bo |-> {}]
curve_001 == [family |-> "curve", ai |-> {328}, bi |-> {107}, ao |-> {244}, bo |-> {}]
curve_002 == [family |-> "curve", ai |-> {328}, bi |-> {107}, ao |-> {244}, bo |-> {}]
curve_003 == [family |-> "curve", ai |-> {328}, bi |-> {107}, ao |-> {244}, bo |-> {}]
vrt_001 == [family |-> "mode", ai |-> 71..76, bi |-> {64}, ao |-> 22..26, bo |-> {12}]
frt_001 == [family |-> "mode", ai |-> 77..82, bi |-> {65}, ao |-> 27..31, bo |-> {13}]
fw_001 == [family |-> "mode", ai |-> 115..141, bi |-> 86..87 \cup {68}, ao |-> 57..81, bo |-> 34..35 \cup {16}]
drcs_001 == [family |-> "mode", ai |-> 83..89 \cup 91..101, bi |-> {66, 85}, ao |-> 32..46, bo |-> {14, 33}]
dvw_001 == [family |-> "mode", ai |-> 102..114, bi |-> {67}, ao |-> 48..56, bo |-> {15}]
apl_001 == [family |-> "mode", ai |-> 142..149, bi |-> {69}, ao |-> 82..88, bo |-> {17}]
chg_001 == [family |-> "mode", ai |-> 150..162, bi |-> {70, 90}, ao |-> 89..101, bo |-> {18, 38}]
ccm_001 == [family |-> "mode", ai |-> 163..175, bi |-> {71}, ao |-> 102..114, bo |-> {19}]
apr1_001 == [family |-> "mode", ai |-> 176..186, bi |-> {72}, ao |-> 115..123, bo |-> {20}]
apr2_001 == [family |-> "mode", ai |-> 187..197, bi |-> {73}, ao |-> 124..132, bo |-> {21}]
apr3_001 == [family |-> "mode", ai |-> 198..208, bi |-> {74}, ao |-> 133..141, bo |-> {22}]
agc_001 == [family |-> "mode", ai |-> 209..225, bi |-> {75, 91}, ao |-> 142..154, bo |-> {23, 39}]
aps_001 == [family |-> "mode", ai |-> 227..241, bi |-> {76}, ao |-> 155..167, bo |-> {24}]
vw_001 == [family |-> "mode", ai |-> 242..256, bi |-> {77}, ao |-> 168..180, bo |-> {25}]
fwc_001 == [family |-> "mode", ai |-> 257..276, bi |-> 88..89 \cup {78}, ao |-> 181..198, bo |-> 36..37 \cup {26}]
cvar_001 == [family |-> "mode", ai |-> 277..283, bi |-> {28, 79}, ao |-> 199..205, bo |-> {9, 27}]
fpf_001 == [family |-> "mode", ai |-> 284..289, bi |-> 29..30 \cup {80}, ao |-> 206..211, bo |-> 10..11 \cup {28}]
vv_001 == [family |-> "mode", ai |-> 290..301, bi |-> {81}, ao |-> 212..220, bo |-> {29}]
wv_001 == [family |-> "mode", ai |-> 302..311, bi |-> {82}, ao |-> 221..228, bo |-> {30}]
pfc_001 == [family |-> "mode", ai |-> 312..320, bi |-> {83}, ao |-> 229..236, bo |-> {31}]
psig_001 == [family |-> "mode", ai |-> 321..327, bi |-> {84}, ao |-> 237..243, bo |-> {32}]
sched_001 == [family |-> "schedule", ai |-> 2000..2011 \cup {24}, bi |-> 2000..2007, ao |-> 2000..2008, bo |-> 2000..2007]
sched_002 == [family |-> "schedule", ai |-> {}, bi |-> 3000..3001, ao |-> 3000..3004 \cup 3007..3009, bo |-> {}]

\* TestName::iter() with its lists.
ConformanceTests ==
  [mon_001 |-> mon_001, alarm_001 |-> alarm_001, conn_001 |-> conn_001,
   serv_001 |-> serv_001, op_001 |-> op_001, curve_001 |-> curve_001,
   curve_002 |-> curve_002, curve_003 |-> curve_003, vrt_001 |-> vrt_001,
   frt_001 |-> frt_001, fw_001 |-> fw_001, drcs_001 |-> drcs_001,
   dvw_001 |-> dvw_001, apl_001 |-> apl_001, chg_001 |-> chg_001,
   ccm_001 |-> ccm_001, apr1_001 |-> apr1_001, apr2_001 |-> apr2_001,
   apr3_001 |-> apr3_001, agc_001 |-> agc_001, aps_001 |-> aps_001,
   vw_001 |-> vw_001, fwc_001 |-> fwc_001, cvar_001 |-> cvar_001,
   fpf_001 |-> fpf_001, vv_001 |-> vv_001, wv_001 |-> wv_001,
   pfc_001 |-> pfc_001, psig_001 |-> psig_001, sched_001 |-> sched_001,
   sched_002 |-> sched_002]
=============================================================================
