-------------------------- MODULE MC_MappingWorker --------------------------
(* The mapping worker with a queue of two items and four scans: the queue   *)
(* fills up with scans, with a lap mark between them and before a shutdown, *)
(* while the worker is at any point of its loop.                            *)
EXTENDS MappingWorker
=============================================================================
