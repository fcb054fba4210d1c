--------------------------- MODULE MC_LiveSession ---------------------------
(* LiveSession for TLC, with the barrier's empty list of required sensors.   *)
EXTENDS LiveSession

MCRequired == {}
=============================================================================
