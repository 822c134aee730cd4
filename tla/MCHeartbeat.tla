---------------------------- MODULE MCHeartbeat ----------------------------
(***************************************************************************)
(* Instances of Heartbeat for TLC.                                         *)
(***************************************************************************)
EXTENDS Heartbeat

CONSTANTS m1, m2

MCOneMonitor == {m1}
MCTwoMonitors == {m1, m2}
=============================================================================
