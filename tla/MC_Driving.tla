------------------------------ MODULE MC_Driving ------------------------------
(* Scans of a bend to the left whose corner wanders, of a wall ahead, of an *)
(* opening to the right, and with too few points.                           *)
EXTENDS Driving

Scan(points) == [i \in DOMAIN points |-> Polar(points[i][2], points[i][1])]

(* The corner at angle a: the near wall right of it, the far one beyond     *)
Bend(a, far) == Scan(<< <<-90, 80>>, <<-60, 90>>, <<-40, 100>>, <<-20, 120>>, <<0, 140>>,
                   <<a, 160>>, <<a + 6, far>>, <<60, far - 20>>, <<75, far - 40>>, <<90, 200>> >>)
Blocked(dist) == Scan(<< <<-90, 80>>, <<-60, 90>>, <<-40, 100>>, <<-20, 120>>, <<0, dist>>,
                   <<20, 160>>, <<26, 300>>, <<60, 280>>, <<75, 260>>, <<90, 200>> >>)
Opening == Scan(<< <<-90, 150>>, <<-70, 400>>, <<-45, 380>>, <<-30, 120>>, <<0, 500>>,
                   <<20, 130>>, <<45, 110>>, <<60, 100>>, <<90, 90>> >>)
Straight == Scan(<< <<-90, 80>>, <<-60, 90>>, <<-30, 150>>, <<0, 700>>, <<30, 150>>,
                   <<60, 90>>, <<90, 80>> >>)
Few == Scan(<< <<-90, 80>>, <<0, 120>>, <<90, 80>> >>)

MCScans == {Bend(8, 300), Bend(16, 300), Bend(24, 300), Blocked(60), Opening, Straight, Few}

MCApex == [median_window |-> 1, min_points |-> 4, min_forward_m |-> 30,
           min_range_jump_m |-> 25, max_opposite_dist_error_m |-> 8,
           prefer_nearer_opposite |-> TRUE, wall_clearance_m |-> 15,
           apex_switch_threshold |-> 10, apex_switch_hysteresis_factor |-> 18,
           max_lookahead_m |-> 800, min_lookahead_m |-> 50, lookahead_sensitivity |-> 2,
           side_lookahead_fov_deg |-> 60, side_lookahead_center_deg |-> 90,
           apex_lookahead_weight |-> 75]

MCSpeed == [v_max |-> 200, v_min |-> 35, k_heading |-> 2, k_lateral |-> 2,
            obstacle_slowdown |-> 200, a_lat_max |-> 300, accel_limit |-> 100, decel_limit |-> 100]
MCGains == [kp |-> 15, ki_divisor |-> 20, kd |-> 20, windup_limit |-> 20, max_throttle |-> 1000]
MCStanley == [k_cross_track |-> 2, softening_speed |-> 100, max_steering |-> 22]
MCLateral == [omega2 |-> 400, twice_damping |-> 212, min_speed |-> 50,
              max_feedback_accel |-> 800, max_curvature |-> 20000]
MCSteering == [wheelbase |-> 21, p_gain |-> 80, min_feedback_speed |-> 50, max_steering |-> 40]
MCLongitudinal == [motor_gain |-> 2000, brake_gain |-> 14, drag_k |-> 5, k_speed |-> 4,
                   max_accel |-> 1200, max_brake |-> 1600, motor_deadband |-> 50,
                   max_throttle |-> 1000]

(* A car crawling beside the line's first straight, a faster one left of    *)
(* it, and one that leaves the line to the right before the bend            *)
MCCars == {[x |-> 100, y |-> 60, yaw |-> 0, v |-> 10, yaw_rate |-> 0],
           [x |-> 100, y |-> 20, yaw |-> 0, v |-> 70, yaw_rate |-> 0],
           [x |-> 300, y |-> -30, yaw |-> -20, v |-> 150, yaw_rate |-> 500]}
MCLine == << [x |-> 100, y |-> 0, yaw |-> 0, curvature |-> 0, speed |-> 180, accel |-> 100],
             [x |-> 300, y |-> 0, yaw |-> 10, curvature |-> 800, speed |-> 60, accel |-> -300],
             [x |-> 300, y |-> 200, yaw |-> 180, curvature |-> 0, speed |-> 180, accel |-> 0] >>
=============================================================================
