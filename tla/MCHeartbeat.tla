----------------------------- MODULE MCHeartbeat -----------------------------
(***************************************************************************)
(* Heartbeat with every fault: processes end and start, machines lose      *)
(* power, the network comes and goes.                                      *)
(***************************************************************************)
EXTENDS Heartbeat

AllFaults == {"exit", "power", "link"}
=============================================================================
