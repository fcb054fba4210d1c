---------------------------- MODULE ApexPerception ----------------------------
(***************************************************************************)
(* Apex perception (nfe-algo/src/perception/apex.rs and apex/tracking.rs): *)
(* the corridor estimate of a scan, and what is remembered of the scans    *)
(* before it.  An apex near the tracked one, and not much clearer, does    *)
(* not replace it: the estimate made for the tracked apex is held.         *)
(*                                                                         *)
(* An estimate has the fields of CorridorEstimate but target_x_m, and      *)
(* target_y_m, which equals lateral_error_m.  Curvatures are in 1/km.      *)
(***************************************************************************)
EXTENDS ApexScan

VARIABLES
  tracker,      (* ApexTracker: a record of optional values                 *)
  corridor,     (* the last CorridorEstimate                                *)
  seen          (* history: how it came about ("blind", "held", "target"),  *)
                (* the apex of the scan, and the apex its target was made of*)

percVars == <<tracker, corridor, seen>>

HoldMinConfidence == 50         (* APEX_HOLD_MIN_CONFIDENCE                 *)
RememberMinConfidence == 30     (* APEX_REMEMBER_MIN_CONFIDENCE             *)

NewTracker == [lateral |-> << >>, apex |-> << >>, estimate |-> << >>, curvature |-> 0]

Estimate(lateral, rate, heading, curvature, obstacle, confidence) ==
  [lateral |-> lateral, rate |-> rate, heading |-> heading, curvature |-> curvature,
   obstacle |-> obstacle, confidence |-> confidence]

PercInit ==
  /\ tracker = NewTracker
  /\ corridor = Estimate(0, 0, 0, 0, 0, 0)
  /\ seen = [how |-> "blind", apex |-> 0, aim |-> 0]

-----------------------------------------------------------------------------
(* How far to look                                                          *)

LookaheadBounds ==
  LET a == Max({Apex.min_lookahead_m, 0})
      b == Max({Apex.max_lookahead_m, 0})
  IN <<Min({a, b}), Max({a, b})>>
(* The signal in hundredths                                                 *)
LookaheadFromSignal(signal) ==
  Clamp(LookaheadBounds[2] - signal * Apex.lookahead_sensitivity,
        LookaheadBounds[1], LookaheadBounds[2])

(* A side without a return counts as half a metre away.                     *)
SideDiffLookahead(cloud) ==
  LET Side(center) ==
        LET nearest == NearestInArc(cloud, center, Apex.side_lookahead_fov_deg)
        IN IF nearest = << >> THEN 50 ELSE nearest[1]
  IN LookaheadFromSignal(Abs(Side(Apex.side_lookahead_center_deg)
                               - Side(-Apex.side_lookahead_center_deg)))

(* A degree is 0.01745 rad.                                                 *)
AngleLookahead(angle) == LookaheadFromSignal((Abs(angle) * 1745) \div 1000)

DynamicLookahead(cloud) ==
  LET side == SideDiffLookahead(cloud)
      weight == Clamp(Apex.apex_lookahead_weight, 0, 100)
  IN IF tracker.apex = << >> THEN side
     ELSE Clamp((weight * AngleLookahead(tracker.apex[1].angle) + (100 - weight) * side) \div 100,
                LookaheadBounds[1], LookaheadBounds[2])

-----------------------------------------------------------------------------
(* What is remembered                                                       *)

LastLateral == IF tracker.lateral = << >> THEN 0 ELSE tracker.lateral[1].error

ShouldHold(gap) ==
  /\ tracker.apex # << >>
  /\ Abs(AngleDiff(gap.breakpoint.angle, tracker.apex[1].angle)) <= Apex.apex_switch_threshold
  /\ 10 * gap.score <= tracker.apex[1].score * Apex.apex_switch_hysteresis_factor

InsufficientPoints(cloud) ==
  Estimate(LastLateral, 0, 0, 0, NearestObstacle(cloud), 0)

(* Mutant: a held estimate keeps the obstacle of its own scan.              *)
PreviousEstimate_OldObstacle(cloud, confidence) ==
  IF tracker.estimate = << >>
  THEN Estimate(LastLateral, 0, 0, tracker.curvature, NearestFrontObstacle(cloud), confidence)
  ELSE [tracker.estimate[1] EXCEPT !.confidence = confidence]

(* previous_estimate_with_confidence                                        *)
PreviousEstimate(cloud, confidence) ==
  IF tracker.estimate = << >>
  THEN Estimate(LastLateral, 0, 0, tracker.curvature, NearestFrontObstacle(cloud), confidence)
  ELSE [tracker.estimate[1] EXCEPT !.obstacle = NearestFrontObstacle(cloud),
                                   !.confidence = confidence]

(* lateral_rate_m_s, in centimetres per tick                                *)
LateralRate(lateral, now) ==
  LET before == tracker.lateral[1]
  IN IF tracker.lateral = << >> \/ now <= before.at THEN 0
     ELSE Quotient(lateral - before.error, now - before.at)

(* target_curvature_m_inv                                                   *)
TargetCurvature(target) ==
  LET l2 == X(target) * X(target) + Y(target) * Y(target)
  IN IF X(target) <= 5 \/ l2 <= 1 THEN tracker.curvature
     ELSE Quotient(200000 * Y(target), l2)

-----------------------------------------------------------------------------
(* estimate_observed, by the outcome                                        *)

(* Too few points, or no pair of them                                       *)
SeeNothing(cloud, points, gap) ==
  /\ Len(points) < Apex.min_points \/ gap = << >>
  /\ corridor' = InsufficientPoints(cloud)
  /\ tracker' = [tracker EXCEPT !.apex = << >>]
  /\ seen' = [seen EXCEPT !.how = "blind"]

Holds(points, gap) ==
  /\ ScanConfidence(points) >= HoldMinConfidence
  /\ ShouldHold(gap)

(* Mutant: the tracked apex follows the one that did not replace it.        *)
HeldTracker_Follows(estimate, gap, now) ==
  [tracker EXCEPT !.lateral = <<[error |-> estimate.lateral, at |-> now]>>,
                  !.estimate = <<estimate>>,
                  !.apex = <<[angle |-> gap.breakpoint.angle, score |-> gap.score]>>]
HeldTracker(estimate, gap, now) ==
  [tracker EXCEPT !.lateral = <<[error |-> estimate.lateral, at |-> now]>>,
                  !.estimate = <<estimate>>]

(* held_estimate_with_confidence                                            *)
HoldTarget(cloud, points, gap, now) ==
  LET confidence == IF tracker.estimate = << >> THEN ScanConfidence(points)
                    ELSE tracker.estimate[1].confidence
      previous == PreviousEstimate(cloud, confidence)
      held == [previous EXCEPT !.rate = LateralRate(previous.lateral, now)]
  IN /\ Holds(points, gap)
     /\ corridor' = held
     /\ tracker' = HeldTracker(held, gap, now)
     /\ seen' = [seen EXCEPT !.how = "held", !.apex = gap.breakpoint.angle]

(* A new target.  Neither side of a gap is empty, so an opposite point is   *)
(* always found: the code's answer to its absence never happens.            *)
NewTarget(cloud, points, gap, now) ==
  LET confidence == ScanConfidence(points)
      opposite == OppositePoint(OppositeWall(points, gap), gap.breakpoint)
      target == PolarMidpoint(gap.breakpoint, opposite[1])
      curvature == TargetCurvature(target)
      estimate == Estimate(Y(target), LateralRate(Y(target), now), target.angle, curvature,
                           NearestFrontObstacle(cloud), confidence)
  IN /\ ~ Holds(points, gap)
     /\ opposite # << >>
     /\ corridor' = estimate
     /\ tracker' =
          [lateral   |-> <<[error |-> Y(target), at |-> now]>>,
           apex      |-> IF confidence >= RememberMinConfidence
                         THEN <<[angle |-> gap.breakpoint.angle, score |-> gap.score]>>
                         ELSE << >>,
           estimate  |-> <<estimate>>,
           curvature |-> IF curvature = 0 THEN tracker.curvature ELSE curvature]
     /\ seen' = [how |-> "target", apex |-> gap.breakpoint.angle, aim |-> gap.breakpoint.angle]

Perceive(cloud, now) ==
  LET points == Preprocess(cloud, DynamicLookahead(cloud))
      found == FindDiscontinuity(points)
  IN \/ SeeNothing(cloud, points, found)
     \/ /\ Len(points) >= Apex.min_points /\ found # << >>
        /\ \/ HoldTarget(cloud, points, found[1], now)
           \/ NewTarget(cloud, points, found[1], now)

(* reset; the corridor is that of the last scan until the next one          *)
PercReset ==
  /\ tracker' = NewTracker
  /\ UNCHANGED <<corridor, seen>>
=============================================================================
