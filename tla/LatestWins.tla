----------------------------- MODULE LatestWins -----------------------------
(***************************************************************************)
(* What the race-line planner worker promises to the pipeline, with the    *)
(* thread, its condition variable and its queue slot left out: a server    *)
(* that works on one map revision at a time, always turns next to the      *)
(* newest revision it was asked for, and answers every revision it turns   *)
(* to with exactly one result, in the order it turned to them.             *)
(*                                                                         *)
(* RacelineWorker implements this specification; Pipeline composes with    *)
(* it instead of with the detailed worker.                                 *)
(***************************************************************************)
EXTENDS Integers, Sequences

CONSTANT
  MaxRev      (* largest map revision that is ever submitted (a bound)      *)

VARIABLES
  open,    (* FALSE once the server is told to stop                         *)
  wanted,  (* newest revision asked for; falls back when an attempt fails   *)
  busy,    (* revision being worked on                                      *)
  done,    (* newest revision worked out successfully                       *)
  outbox   (* answers that were given and not yet read, oldest first        *)

vars == <<open, wanted, busy, done, outbox>>

(* Option::None, below every revision. *)
None == -1

Revisions == 0 .. MaxRev

Answer(kind, r) == [kind |-> kind, revision |-> r]

Init ==
  /\ open = TRUE
  /\ wanted = None /\ busy = None /\ done = None
  /\ outbox = <<>>

(* A revision newer than everything asked for so far becomes the goal, and  *)
(* the one it replaces is forgotten unless work on it has begun.            *)
CanAsk(r) == open /\ r > wanted

Ask(r) ==
  /\ CanAsk(r)
  /\ wanted' = r
  /\ UNCHANGED <<open, busy, done, outbox>>

TurnTo ==
  /\ open
  /\ busy = None
  /\ wanted > done
  /\ busy' = wanted
  /\ outbox' = Append(outbox, Answer("Started", wanted))
  /\ UNCHANGED <<open, wanted, done>>

Succeed ==
  /\ busy # None
  /\ done' = busy
  /\ busy' = None
  /\ outbox' = Append(outbox, Answer("Completed", busy))
  /\ UNCHANGED <<open, wanted>>

(* A failed revision is no longer wanted, so that it may be asked for again. *)
Fail ==
  /\ busy # None
  /\ busy' = None
  /\ wanted' = IF wanted = busy THEN done ELSE wanted
  /\ outbox' = Append(outbox, Answer("Failed", busy))
  /\ UNCHANGED <<open, done>>

Read ==
  /\ outbox # <<>>
  /\ outbox' = Tail(outbox)
  /\ UNCHANGED <<open, wanted, busy, done>>

(* Stopping abandons the goal; work that has begun is still answered.       *)
Close ==
  /\ open
  /\ open' = FALSE
  /\ wanted' = IF busy # None THEN busy ELSE done
  /\ UNCHANGED <<busy, done, outbox>>

Next ==
  \/ \E r \in Revisions : Ask(r)
  \/ TurnTo
  \/ Succeed
  \/ Fail
  \/ Read
  \/ Close

Spec == Init /\ [][Next]_vars
=============================================================================
