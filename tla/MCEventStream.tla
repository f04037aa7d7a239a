---------------------------- MODULE MCEventStream ----------------------------
(* One page and one station; two calls besides finish_job, which make up to  *)
(* six events: more than the channel and the ring hold.                      *)
EXTENDS EventStream

MCStation == {"control_station"}
MCPage == {"page"}
=============================================================================
