-------------------------------- MODULE Driving --------------------------------
(***************************************************************************)
(* Perception and the two controllers in the pipeline's step               *)
(* (nfe-runtime/src/pipeline.rs:405-508), in apex perception mode.  Every  *)
(* tick perceives the scan it finds, which is often the one of the tick    *)
(* before, and lets one controller drive: the reactive one, or the race    *)
(* line's where the supervisor asks for it and there is a line.  What the  *)
(* supervisor asks for, and where the car is, are the environment's choice.*)
(***************************************************************************)
EXTENDS ApexPerception, ReactiveControl, RaceLineControl

CONSTANTS
  Scans,         (* the clouds the LiDAR may give                           *)
  Cars,          (* estimates: records [x, y, yaw, v, yaw_rate], in cm      *)
  Line,          (* the RaceLine's points: a sequence of records            *)
                 (* [x, y, yaw, curvature, speed, accel]                    *)
  MaxScans       (* bound: scans of a run                                   *)

(* A pose and a line are finite numbers: finite_or_zero takes what is not   *)
(* (raceline/lateral.rs:132-138, steering.rs:100-106).                       *)
ASSUME CarsAssumption == Cars \subseteq [x: Int, y: Int, yaw: Int, v: Int, yaw_rate: Int]
ASSUME LineAssumption ==
  Line \in Seq([x: Int, y: Int, yaw: Int, curvature: Int, speed: Int, accel: Int])
(* So is a scan: a return out of range is dropped (sensors/lidar.rs:334).    *)
ASSUME CloudsAssumption == Scans \subseteq Seq([angle: Int, dist: Int])

VARIABLES
  cloud,         (* the scan in the sensor snapshot                         *)
  now,           (* its timestamp, the number of scans so far               *)
  driven         (* who drove the last tick, from what, and the command     *)

vars == <<percVars, reactiveVars, cloud, now, driven>>

NoCommand == [steering |-> 0, throttle |-> 0, target |-> 0, status |-> "unavailable"]
AtStart == [x |-> 0, y |-> 0, yaw |-> 0, v |-> 0, yaw_rate |-> 0]
Undriven == [by |-> "none", car |-> AtStart, command |-> NoCommand]

Init ==
  /\ PercInit
  /\ ReactiveInit
  /\ cloud = << >> /\ now = 0
  /\ driven = Undriven

(* The LiDAR thread puts a new scan into the shared state.                  *)
NewScan ==
  /\ now < MaxScans
  /\ now' = now + 1
  /\ cloud' \in Scans
  /\ UNCHANGED <<percVars, reactiveVars, driven>>

-----------------------------------------------------------------------------
(* nearest_point: of equally near points the first of the whole line        *)
Distance2(i, car) ==
  (Line[i].x - car.x) * (Line[i].x - car.x) + (Line[i].y - car.y) * (Line[i].y - car.y)
NearestPoint(car) ==
  Line[CHOOSE i \in DOMAIN Line :
         \A j \in DOMAIN Line : \/ Distance2(i, car) < Distance2(j, car)
                                \/ Distance2(i, car) = Distance2(j, car) /\ i <= j]

(* Mutant: the place of the line beside the car                              *)
ReferenceForPose_LineMinusCar(car) ==
  LET target == NearestPoint(car)
      left == Cos(target.yaw) * (target.y - car.y) - Sin(target.yaw) * (target.x - car.x)
  IN [lateral |-> Quotient(left, 1000), heading |-> WrapAngle(target.yaw - car.yaw),
      curvature |-> target.curvature, speed |-> target.speed, accel |-> target.accel,
      confidence |-> 100]

(* reference_for_pose: the car's place left of the line, and the turn that  *)
(* would bring it along the line; the confidence is always full.            *)
ReferenceForPose(car) ==
  LET target == NearestPoint(car)
      left == Cos(target.yaw) * (car.y - target.y) - Sin(target.yaw) * (car.x - target.x)
  IN [lateral |-> Quotient(left, 1000), heading |-> WrapAngle(target.yaw - car.yaw),
      curvature |-> target.curvature, speed |-> target.speed, accel |-> target.accel,
      confidence |-> 100]

(* The step's choice of a controller, after perception: corridor' is what   *)
(* it saw in this tick.                                                     *)
DriveReactive(car) ==
  LET command == ReactiveCommand(car.v, corridor')
  IN /\ driven' = [by |-> "reactive", car |-> car, command |-> command]
     /\ ReactiveRemember(car.v, command.target)

DriveRaceLine(car) ==
  /\ Line # << >>
  /\ driven' = [by |-> "raceline", car |-> car,
                command |-> RaceLineCommand(ReferenceForPose(car), car.v, car.yaw_rate)]
  /\ UNCHANGED reactiveVars

(* Pipeline::step.  A race line that is asked for and has no points leaves  *)
(* the tick to the reactive controller.                                     *)
Step ==
  /\ Perceive(cloud, now)
  /\ \E car \in Cars : DriveReactive(car) \/ DriveRaceLine(car)
  /\ UNCHANGED <<cloud, now>>

(* Pipeline::reset, for a new session                                       *)
Reset ==
  /\ PercReset
  /\ ReactiveReset
  /\ UNCHANGED <<cloud, now, driven>>

Next == NewScan \/ Step \/ Reset
Spec == Init /\ [][Next]_vars

-----------------------------------------------------------------------------
(* Properties                                                               *)

(* A target is held only while the scan's apex is near the one the target   *)
(* was made of: over however many scans it wanders, by however little each  *)
(* time, the car never steers for an apex farther away than the switching   *)
(* threshold (tracking.rs:29-46, 91-101).                                   *)
AimsNearTheApex ==
  seen.how = "held" => Abs(AngleDiff(seen.apex, seen.aim)) <= Apex.apex_switch_threshold

(* Whatever perception holds on to, an obstacle ahead counts at once: the   *)
(* tick after it appears in the scan the target speed is within what is     *)
(* left of the road, or falls as fast as it may (speed.rs:87-120,           *)
(* tracking.rs:86).                                                         *)
BrakesForWhatIsAhead ==
  [][driven'.by = "reactive" /\ driven' # driven =>
       \/ targetSpeed' <= ObstacleCap(NearestFrontObstacle(cloud))
       \/ targetSpeed' = targetSpeed - Max({Speed.decel_limit, 0})]_vars

(* Where the car is and heads, seen from the line's nearest point p: how    *)
(* far it is to the left of the line's direction there, in thousandths of a *)
(* centimetre, and the angle from that direction to the car's, in 0..359    *)
LeftOf(p, car) == Cos(p.yaw) * (car.y - p.y) - Sin(p.yaw) * (car.x - p.x)
TurnedFrom(p, car) == (car.yaw - p.yaw) % 360

(* Left of the line, and along it or away from it to the left; and right    *)
StaysLeft(p, car) == LeftOf(p, car) >= 0 /\ TurnedFrom(p, car) \in 0..180
StaysRight(p, car) == LeftOf(p, car) <= 0 /\ TurnedFrom(p, car) \in {0} \cup 180..359

(* The wheels of the same car, were it on the line and headed along it      *)
Along(car) ==
  SteeringAngle(CurvatureCommand(NearestPoint(car).curvature, 0, 0, car.v), car.v, car.yaw_rate)

(* The acceleration towards the line that a place that far from it deserves,*)
(* and the yaw rate that comes of it, in mrad/s                             *)
Pull(thousandths) ==
  Min({(Lateral.omega2 * (thousandths \div 1000)) \div 100, Lateral.max_feedback_accel})
PullRate(thousandths, v) == (v * ((100000 * Pull(thousandths)) \div (v * v))) \div 100

(* Both laws are in full force at the car's speed, the curvature limit is   *)
(* not in the way, the wheels have to answer by 36 mrad (two of the degrees *)
(* in which angles are counted here), and the line itself leaves them room. *)
Matters(p, car) ==
  /\ car.v >= Lateral.min_speed /\ car.v >= Steering.min_feedback_speed
  /\ Abs(p.curvature) + (100000 * Lateral.max_feedback_accel) \div (car.v * car.v)
       <= Lateral.max_curvature
  /\ Steering.p_gain * (PullRate(Abs(LeftOf(p, car)), car.v) - 1) >= 36000
  /\ Abs(Along(car)) < Steering.max_steering

(* Whoever is beside the line and does not head for it is not steered       *)
(* farther away than the line itself bends, and where the distance matters  *)
(* is turned back to it: the signs of reference_for_pose (line minus car    *)
(* for the heading, car minus line for the place) and of the controller     *)
(* (car minus line for both) fit (pipeline.rs:771-784,                      *)
(* raceline/controller.rs:64-69).                                           *)
TurnsBackToTheLine ==
  LET car == driven.car
      p == NearestPoint(car)
      steering == driven.command.steering
  IN driven.by = "raceline" =>
       /\ StaysLeft(p, car) => steering <= Along(car)
       /\ StaysRight(p, car) => steering >= Along(car)
       /\ StaysLeft(p, car) /\ Matters(p, car) => steering < Along(car)
       /\ StaysRight(p, car) /\ Matters(p, car) => steering > Along(car)
=============================================================================
