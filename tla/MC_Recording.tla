---------------------------- MODULE MC_Recording ----------------------------
(* Recording for TLC.                                                       *)
EXTENDS Recording
=============================================================================
