---------------------------- MODULE ReactiveControl ----------------------------
(***************************************************************************)
(* The reactive controller (nfe-algo/src/control/): a Stanley law steers,  *)
(* a planner with an acceleration limit gives the target speed, and a PID  *)
(* the throttle.  Planner and PID remember only the ticks they were asked: *)
(* while the race line drives, their state stays as it was.                *)
(*                                                                         *)
(* Speeds are in cm/s, errors in cm, angles in degrees, throttles in       *)
(* thousandths, a curvature in 1/km.                                       *)
(***************************************************************************)
EXTENDS Angles

CONSTANTS
  Speed,         (* SpeedParams, with v_max and v_min in cm/s, limits in    *)
                 (* cm/s per tick, a_lat_max in cm/s^2                      *)
  Gains,         (* PidParams: gains per cm/s as thousandths of throttle,   *)
                 (* i over the sum of errors, d over a tick                 *)
  Stanley        (* StanleyParams                                           *)

ASSUME LimitIsNat == Gains.windup_limit \in Nat
ASSUME SpeedIsTyped ==
  Speed \in [v_max: Int, v_min: Int, k_heading: Int, k_lateral: Int, obstacle_slowdown: Int,
             a_lat_max: Int, accel_limit: Int, decel_limit: Int]

VARIABLES
  targetSpeed,   (* SpeedPlanner.prev_target_speed_ms                       *)
  integral,      (* Pid.integral, in cm/s times ticks                       *)
  prevError      (* Pid.prev_error                                          *)

reactiveVars == <<targetSpeed, integral, prevError>>

ReactiveInit == targetSpeed = 0 /\ integral = 0 /\ prevError = 0

-----------------------------------------------------------------------------
(* The target speed                                                         *)

VMax == Max({Speed.v_max, 0})

(* error_speed_cap, of an error in thousandths                              *)
ErrorCap(gain, error) ==
  IF gain <= 0 \/ error <= 0 THEN VMax ELSE (1000 * VMax) \div (1000 + gain * error)

(* curvature_speed_cap: the greatest v with v^2 * curvature within a_lat    *)
CurvatureCap(curvature) ==
  LET square == (100000 * Speed.a_lat_max) \div Abs(curvature)
  IN IF curvature = 0 \/ Speed.a_lat_max <= 0 \/ VMax * VMax <= square THEN VMax
     ELSE CHOOSE v \in 0..VMax : (v + 1) * (v + 1) > square /\ v * v <= square

ObstacleCap(obstacle) ==
  LET slowdown == Max({Speed.obstacle_slowdown, 1})
  IN (VMax * Clamp(obstacle, 0, slowdown)) \div slowdown
ConfidenceCap(confidence) == (VMax * Clamp(confidence, 10, 100)) \div 100

(* A square of degrees is 0.0003046 rad^2; a centimetre 0.01 m.             *)
PathCap(c) ==
  Min({ErrorCap(Speed.k_heading, (c.heading * c.heading * 305) \div 1000),
       ErrorCap(Speed.k_lateral, 10 * Abs(c.lateral)),
       CurvatureCap(c.curvature)})
PathTarget(c) ==
  LET cap == PathCap(c)
  IN IF cap > 0 THEN Max({cap, Clamp(Speed.v_min, 0, VMax)}) ELSE 0

RawTargetSpeed(c) ==
  IF VMax = 0 THEN 0
  ELSE Clamp(Min({PathTarget(c), ObstacleCap(c.obstacle), ConfidenceCap(c.confidence)}),
             0, VMax)

(* rate_limit: a limit of zero holds the speed for ever.                    *)
RateLimit(target) ==
  LET limit == Max({IF target >= targetSpeed THEN Speed.accel_limit ELSE Speed.decel_limit, 0})
  IN targetSpeed + Clamp(target - targetSpeed, -limit, limit)

-----------------------------------------------------------------------------
(* The throttle                                                             *)

(* signum is 1 for zero.                                                    *)
SameSign(a, b) == a < 0 <=> b < 0

(* The integral with a new error                                            *)
Wound(error) ==
  Clamp((IF SameSign(error, prevError) THEN integral ELSE 0) + error,
        -Gains.windup_limit, Gains.windup_limit)

Throttle(error, sum) ==
  Clamp(Gains.kp * error + Quotient(sum, Gains.ki_divisor) + Gains.kd * (error - prevError),
        -Gains.max_throttle, Gains.max_throttle)

-----------------------------------------------------------------------------
(* Stanley::compute                                                         *)
StanleySteering(v, c) ==
  Clamp(c.heading + Atan(Stanley.k_cross_track * c.lateral, Abs(v) + Stanley.softening_speed),
        -Stanley.max_steering, Stanley.max_steering)

(* ReactiveStanleyController::compute with its state before this tick, when *)
(* there is a corridor, as the pipeline always gives one                    *)
ReactiveCommand(v, c) ==
  LET target == RateLimit(RawTargetSpeed(c))
      error == target - v
  IN [steering |-> StanleySteering(v, c), throttle |-> Throttle(error, Wound(error)),
      target |-> target, status |-> IF c.confidence > 30 THEN "nominal" ELSE "degraded"]

(* What the controller remembers of a tick                                  *)
ReactiveRemember(v, target) ==
  /\ targetSpeed' = target
  /\ integral' = Wound(target - v)
  /\ prevError' = target - v

ReactiveReset ==
  /\ targetSpeed' = 0
  /\ integral' = 0
  /\ prevError' = 0
=============================================================================
