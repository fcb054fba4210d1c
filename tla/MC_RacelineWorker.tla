------------------------- MODULE MC_RacelineWorker -------------------------
(* The planner worker with four map revisions and up to three unread events *)
(* at a submission: enough for one revision to be solved while a second one *)
(* waits and a third one replaces it, with every earlier event unread.      *)
EXTENDS RacelineWorker
=============================================================================
