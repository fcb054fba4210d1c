------------------------------ MODULE MapFeed ------------------------------
(***************************************************************************)
(* What the mapping worker promises to its readers, with its thread, its   *)
(* queue and its locks left out: a published track map whose revision and  *)
(* whose complete flag never go back, that becomes complete only after the *)
(* start line was crossed.  The loop-closure verdict published beside it   *)
(* is the last scan's, and promises nothing.                               *)
(*                                                                         *)
(* MappingWorker implements this specification; Pipeline reads from it.    *)
(***************************************************************************)
EXTENDS Integers

CONSTANT MaxRev   (* largest map revision (a bound)                         *)

VARIABLES
  published,  (* the map that readers find: its revision, None before the
                 first one, and whether it is complete                      *)
  marked      (* the start line has been crossed                            *)

vars == <<published, marked>>

None == -1

Maps == [revision : 0 .. MaxRev, complete : BOOLEAN]

NoMap == [revision |-> None, complete |-> FALSE]

Init ==
  /\ published = NoMap
  /\ marked = FALSE

CrossLine ==
  /\ marked' = TRUE
  /\ UNCHANGED published

Base == IF published = NoMap THEN 0 ELSE published.revision

(* Mutant: a lap starts a map anew.                                         *)
Publish_NewSession ==
  /\ \E m \in Maps :
       /\ m.revision \in {0, Base, Base + 1}
       /\ published.complete => m.complete
       /\ m.complete => marked
       /\ published' = m
  /\ UNCHANGED marked

(* The first map has no scan in it or one; every later one is as new as the *)
(* last, or one revision newer, and complete if the last one was.           *)
Publish ==
  /\ \E m \in Maps :
       /\ m.revision \in {Base, Base + 1}
       /\ published.complete => m.complete
       /\ m.complete => marked
       /\ published' = m
  /\ UNCHANGED marked

Next == CrossLine \/ Publish

Spec == Init /\ [][Next]_vars
=============================================================================
