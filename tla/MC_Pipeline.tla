---------------------------- MODULE MC_Pipeline ----------------------------
(* The pipeline with three map revisions, a policy that each of its limits  *)
(* can be the first to trip, and dwells of two ticks.                       *)
EXTENDS Pipeline
=============================================================================
