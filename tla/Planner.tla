------------------------------ MODULE Planner ------------------------------
(***************************************************************************)
(* PlannerState of nfe-runtime (pipeline.rs): the pipeline's view of the   *)
(* race line, advanced by the map revisions it reads and by the results it *)
(* drains from the planner worker.  Each operator is one method: it maps a *)
(* planner record to the next one.                                         *)
(***************************************************************************)
EXTENDS Integers

CONSTANTS
  MaxFailures,   (* policy.max_consecutive_failures                         *)
  MaxOutdated,   (* policy.max_outdated_ticks                               *)
  MaxLag         (* policy.max_revision_lag                                 *)

ASSUME PolicyAssumption ==
  /\ MaxFailures \in Nat
  /\ MaxOutdated \in Nat \ {0}
  /\ MaxLag \in Nat

(* Option::None, below every revision.                                      *)
None == -1

(* StaleReason: why a line that was computed may not be driven.             *)
StaleReasons == {"SolverFailedWithoutPrevious", "TooManyFailures",
                 "TooOldInTicks", "MapRevisionLagTooLarge",
                 "MapRevisionInconsistent"}

(* PlannerAvailability, an unusable one named by its reason.  A line is     *)
(* present exactly when its source revision is: the solver never returns    *)
(* one without points.                                                      *)
Usable == {"Fresh", "UsableStale"}
Availability == {"NoLine"} \cup Usable \cup StaleReasons

NewPlanner ==
  [source |-> None, availability |-> "NoLine", attempted |-> None,
   failed |-> None, failures |-> 0, outdated |-> 0]

(* The counters saturate, in the code at u32::MAX; beyond their limit their *)
(* value makes no difference, and the model lets them saturate there.       *)
SaturateAbove(limit, n) == IF n > limit THEN limit + 1 ELSE n

HasUsableLine(p) == p.availability \in Usable /\ p.source # None

(* Mutant: a failed revision is tried again.                                *)
ShouldAttempt_FailedAgain(p, rev) ==
  p.source # rev /\ (p.attempted # rev \/ p.failed = rev)

ShouldAttempt(p, rev) == p.source # rev /\ p.attempted # rev

(* record_attempt_started: the newest attempt is remembered.                *)
Attempted(p, rev) == [p EXCEPT !.attempted = IF rev > @ THEN rev ELSE @]

(* A map older than the line's: the line is of another map.                 *)
Inconsistent(p) ==
  [p EXCEPT !.source = None, !.outdated = 0,
            !.availability = "MapRevisionInconsistent"]

(* Mutant: the revision lag is not limited.                                 *)
EvaluateStalePolicy_LagUnchecked(p, rev) ==
  IF p.source = None THEN [p EXCEPT !.availability = "NoLine"]
  ELSE IF rev < p.source THEN Inconsistent(p)
  ELSE [p EXCEPT !.availability =
    CASE rev = p.source             -> "Fresh"
      [] p.failures > MaxFailures   -> "TooManyFailures"
      [] p.outdated > MaxOutdated   -> "TooOldInTicks"
      [] OTHER                      -> "UsableStale"]

(* evaluate_stale_policy: the limits in the code's order of precedence.     *)
EvaluateStalePolicy(p, rev) ==
  IF p.source = None THEN [p EXCEPT !.availability = "NoLine"]
  ELSE IF rev < p.source THEN Inconsistent(p)
  ELSE [p EXCEPT !.availability =
    IF rev = p.source THEN "Fresh"
    ELSE IF p.failures > MaxFailures THEN "TooManyFailures"
    ELSE IF p.outdated > MaxOutdated THEN "TooOldInTicks"
    ELSE IF rev - p.source > MaxLag THEN "MapRevisionLagTooLarge"
    ELSE "UsableStale"]

(* advance_for_map_revision: once per tick that sees a complete map.        *)
AdvanceForMapRevision(p, rev) ==
  IF p.source = None THEN p
  ELSE IF rev < p.source THEN Inconsistent(p)
  ELSE IF rev = p.source
       THEN [p EXCEPT !.outdated = 0, !.availability = "Fresh"]
  ELSE EvaluateStalePolicy(
              [p EXCEPT !.outdated = SaturateAbove(MaxOutdated, @ + 1)], rev)

RecordSuccess(p, rev) ==
  [Attempted(p, rev) EXCEPT !.source = rev, !.availability = "Fresh",
                            !.failed = None, !.failures = 0, !.outdated = 0]

RecordFailure(p, rev) ==
  LET q == [Attempted(p, rev) EXCEPT
              !.failed = rev,
              !.failures = SaturateAbove(MaxFailures, @ + 1)]
  IN  IF q.source = None
      THEN [q EXCEPT !.availability = "SolverFailedWithoutPrevious"]
      ELSE EvaluateStalePolicy(q, rev)
=============================================================================
