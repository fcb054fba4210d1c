------------------------------- MODULE Vehicle -------------------------------
(***************************************************************************)
(* The simulated vehicle (nfe-sim/src/model.rs): the kinematic bicycle, the*)
(* dynamic one with its servo and motor, and the dynamic one with          *)
(* identified parameters.  One step is one tick: a speed is a number of    *)
(* cells per tick, a yaw rate a number of quarter turns per tick, and a    *)
(* steering angle of SteerUnit turns the car by a quarter turn per cell.   *)
(*                                                                         *)
(* The tyre forces of the dynamic bicycle and their integration are not    *)
(* computed: they may give any change of speed and any yaw rate of a small *)
(* set, and what the model does with them afterwards is exact.             *)
(***************************************************************************)
EXTENDS TrackWorld

CONSTANTS
  Cell,            (* length of a cell                                      *)
  SteerUnit,       (* steering that turns by a quarter turn per cell        *)
  FullThrottle,    (* the throttle 1.0                                      *)
  MotorGain, DragK, AccelMax,        (* of the kinematic bicycle            *)
  BaseParams,      (* DynamicBicycleParams: record with the groups below    *)
  SpeedChanges,    (* what the forces may do to the speed in a tick         *)
  TopSpeed,        (* the speed at which drag balances the motor            *)
  ForcedYawRates   (* the yaw rates the forces may give                     *)

(* BaseParams has the groups                                                *)
(*   servo     [backlash, gain, limit]   gain: dt / tau_s, 0 for no lag     *)
(*   motor     [deadband, gain, brake, lag]   lag: tau_s / dt               *)
(*   low_speed [start, end, margin].                                        *)
(* The code reads what is negative of a servo or of a blend's start as 0.   *)
ServoParams == [backlash : Nat, gain : Nat, limit : Nat]
LowSpeedParams == [start : Nat, end : Int, margin : Int]

ASSUME VehicleIsTyped ==
  /\ Cell \in Nat \ {0} /\ SteerUnit \in Nat \ {0} /\ FullThrottle \in Nat \ {0}
  /\ MotorGain \in Int /\ DragK \in Int /\ AccelMax \in Int /\ TopSpeed \in Int
  /\ SpeedChanges \subseteq Int /\ ForcedYawRates \subseteq Int
  /\ {"servo", "low_speed"} \subseteq DOMAIN BaseParams
  /\ BaseParams.servo \in ServoParams /\ BaseParams.low_speed \in LowSpeedParams

Abs(v) == IF v < 0 THEN -v ELSE v
Sign(v) == IF v < 0 THEN -1 ELSE 1
(* Division towards zero                                                    *)
Quotient(v, d) == Sign(v) * (Abs(v) \div d)

(* A car [x, y, yaw, v, rate] after a tick with its old speed and heading;  *)
(* slip and lateral speed move it by less than a cell and are left out.     *)
Moved(car, rate, v) ==
  [x |-> car.x + car.v * Cos(car.yaw) * Cell,
   y |-> car.y + car.v * Sin(car.yaw) * Cell,
   yaw |-> (car.yaw + rate) % 4, v |-> v, rate |-> rate]

KinematicYawRate(v, steer) == Quotient(Max({v, 0}) * steer, SteerUnit)

-----------------------------------------------------------------------------
(* KinematicBicycle::step; there is no reverse.                             *)
KinematicStep(car, cmd) ==
  LET accel == Clamp(Clamp(cmd.throttle, -FullThrottle, FullThrottle) * MotorGain
                       - DragK * car.v * Abs(car.v), -AccelMax, AccelMax)
  IN Moved(car, KinematicYawRate(car.v, cmd.steer), Max({car.v + accel, 0}))

-----------------------------------------------------------------------------
(* DynamicBicycle                                                           *)

(* IdentifiedModel::from_params_with_base: a group the file does not have   *)
(* keeps the base's values.                                                 *)
FromParamsWithBase(identified) ==
  [g \in DOMAIN BaseParams |-> IF g \in DOMAIN identified THEN identified[g]
                               ELSE BaseParams[g]]

(* The servo half of update_actuators                                       *)
UpdateServo(servo, actual, target) ==
  LET error == target - actual
      effective == IF Abs(error) <= servo.backlash THEN 0
                   ELSE error - servo.backlash * Sign(error)
      wanted == IF servo.gain = 0 THEN effective ELSE effective * servo.gain
      delta == Clamp(wanted, -servo.limit, servo.limit)
  IN actual + IF effective # 0 /\ Abs(delta) > Abs(effective) THEN effective ELSE delta

(* The motor half: deadband, brake gain and first-order lag                 *)
UpdateMotor(motor, applied, throttle) ==
  LET t == Clamp(throttle, -FullThrottle, FullThrottle)
      past == IF Abs(t) <= motor.deadband THEN 0 ELSE Sign(t) * (Abs(t) - motor.deadband)
      gain == IF past < 0 THEN motor.gain * motor.brake ELSE motor.gain
      target == Quotient(past * gain, FullThrottle - motor.deadband)
  IN applied + Quotient(target - applied, Max({motor.lag, 1}))

UpdateActuators(params, memory, cmd) ==
  [steer |-> UpdateServo(params.servo, memory.steer, cmd.steer),
   accel |-> UpdateMotor(params.motor, memory.accel, cmd.throttle)]

(* What eom and rk4 make of a state and an input: drag and traction never   *)
(* speed a car up that is not driven, or beyond TopSpeed.                   *)
Forces(car, input) ==
  {[v |-> car.v + dv, rate |-> r] :
     dv \in {d \in SpeedChanges : d > 0 => input.accel > 0 /\ car.v + d <= TopSpeed},
     r \in ForcedYawRates}

(* low_speed_dynamic_weight and the yaw rate of stabilize_low_speed         *)
StableYawRate(low, v, steer, forced) ==
  LET span == Max({low.end - low.start, 1})
      weight == Clamp(v - low.start, 0, span)
      kinematic == KinematicYawRate(v, steer)
      limit == Abs(kinematic) * Max({low.margin, 1})
      blend == Quotient(kinematic * (span - weight) + forced * weight, span)
  IN IF limit > 0 THEN Clamp(blend, -limit, limit) ELSE 0

(* DynamicBicycle::step, for one outcome of the forces                      *)
DynamicStep(params, car, input, force) ==
  Moved(car, StableYawRate(params.low_speed, car.v, input.steer, force.rate),
        Max({force.v, 0}))
=============================================================================
