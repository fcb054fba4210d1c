---------------------------- MODULE RaceLineControl ----------------------------
(***************************************************************************)
(* The race-line controller (nfe-algo/src/raceline/controller.rs, with     *)
(* lateral.rs, steering.rs and longitudinal.rs).  It keeps no state: every *)
(* tick is computed from the reference and the motion of the car.          *)
(*                                                                         *)
(* Units as in ReactiveControl; yaw rates in thousandths of rad/s,         *)
(* accelerations in cm/s^2.                                                *)
(***************************************************************************)
EXTENDS Angles

CONSTANTS
  Lateral,         (* HighLevelLateralParams; omega2 and twice_damping are  *)
                   (* omega^2 and 2 * damping * omega, in hundredths        *)
  Steering,        (* LowLevelSteeringParams; p_gain in thousandths         *)
  Longitudinal     (* LongitudinalForceParams; brake_gain in tenths, drag_k *)
                   (* in thousandths per cm, deadband in thousandths        *)

(* Both laws raise a negative parameter to zero, and a speed they divide by  *)
(* to a positive one (lateral.rs:94-104, steering.rs:74-86).                *)
ASSUME LateralAssumption ==
  Lateral \in [omega2: Nat, twice_damping: Nat, min_speed: Nat \ {0},
               max_feedback_accel: Nat, max_curvature: Nat]
ASSUME SteeringAssumption ==
  Steering \in [wheelbase: Nat, p_gain: Nat, min_feedback_speed: Nat \ {0},
                max_steering: Nat]

-----------------------------------------------------------------------------
(* compute_high_level_lateral                                               *)

LateralFeedback(lateral, heading, v) ==
  LET rate == Quotient(v * Sin(heading), 1000)
      raw == Quotient(-Lateral.omega2 * lateral - Lateral.twice_damping * rate, 100)
      clamped == Clamp(raw, -Lateral.max_feedback_accel, Lateral.max_feedback_accel)
      fade == Clamp((1000 * v) \div Lateral.min_speed, 0, 1000)
  IN Quotient(clamped * ((fade * fade) \div 1000), 1000)

CurvatureCommand(reference, lateral, heading, v) ==
  LET feedback == LateralFeedback(lateral, heading, v)
      slow == Max({v, Lateral.min_speed})
  IN Clamp(reference + Quotient(100000 * feedback, slow * slow),
           -Lateral.max_curvature, Lateral.max_curvature)

-----------------------------------------------------------------------------
(* compute_low_level_steering                                               *)

SteeringAngle(curvature, v, yawRate) ==
  LET error == Quotient(v * curvature, 100) - yawRate
      fade == Clamp((1000 * v) \div Steering.min_feedback_speed, 0, 1000)
      feedback == Quotient(Quotient(Steering.p_gain * error, 1000) * fade, 1000)
  IN Clamp(Atan(Quotient(Steering.wheelbase * curvature, 100), 1000)
             + Quotient(feedback * 1000, 17453),
           -Steering.max_steering, Steering.max_steering)

-----------------------------------------------------------------------------
(* compute_longitudinal_force                                               *)

DeadbandInverse(effective) ==
  LET deadband == Clamp(Longitudinal.motor_deadband, 0, 990)
  IN IF effective = 0 THEN 0
     ELSE Sign(effective) * (deadband + ((1000 - deadband) * Abs(effective)) \div 1000)

TargetAccel(target, v, feedforward) ==
  Clamp(feedforward + Longitudinal.k_speed * (target - v),
        -Longitudinal.max_brake, Longitudinal.max_accel)

(* A car that rolls backwards counts as standing, a negative target as zero. *)
ThrottleFor(targetSpeed, speed, feedforward) ==
  LET target == Max({targetSpeed, 0})
      v == Max({speed, 0})
      drag == (Longitudinal.drag_k * v * v) \div 1000
      tractive == TargetAccel(target, v, feedforward) + drag
      effective == IF tractive >= 0 THEN (1000 * tractive) \div Longitudinal.motor_gain
                   ELSE Quotient(10000 * tractive, Longitudinal.motor_gain * Longitudinal.brake_gain)
  IN Clamp(DeadbandInverse(effective), -Longitudinal.max_throttle, Longitudinal.max_throttle)

-----------------------------------------------------------------------------
(* The car's heading minus the line's                                       *)
HeadingOff(ref) == WrapAngle(-ref.heading)

(* RaceLineController::compute with a reference                             *)
RaceLineCommand(ref, v, yawRate) ==
  LET curvature == CurvatureCommand(ref.curvature, ref.lateral, HeadingOff(ref), v)
  IN [steering |-> SteeringAngle(curvature, v, yawRate),
      throttle |-> ThrottleFor(ref.speed, v, ref.accel),
      target |-> ref.speed,
      status |-> IF ref.confidence > 50 THEN "nominal" ELSE "degraded"]
=============================================================================
