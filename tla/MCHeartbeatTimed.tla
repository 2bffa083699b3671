-------------------------- MODULE MCHeartbeatTimed --------------------------
(***************************************************************************)
(* HeartbeatTimed with every fault, and with none: then the units only     *)
(* start.                                                                  *)
(***************************************************************************)
EXTENDS HeartbeatTimed

AllFaults == {"exit", "power", "link"}
NoFaults  == {}
=============================================================================
