------------------------------ MODULE MC_Tuner ------------------------------
(* A lane of four cells around a triangle, inside a square.                 *)
EXTENDS Tuner

MCInner == <<Point(2, 2), Point(3, 2), Point(2, 3)>>
MCOuter == <<Point(-4, -4), Point(9, -4), Point(9, 9), Point(-4, 9)>>
MCWaypoints == <<Point(0, 0), Point(5, 0), Point(5, 0), Point(5, 5), Point(0, 5)>>
(* With the lane, against it just before the start line, and across it with *)
(* the nose at the inner wall.                                              *)
MCLane == [x |-> 0, y |-> 0, yaw |-> 0]
MCStarts == {MCLane, [x |-> 5, y |-> 0, yaw |-> 2],
             [x |-> 2, y |-> 0, yaw |-> 1]}

MCCommands == {[steer |-> 0, throttle |-> 2, available |-> TRUE],
               [steer |-> 2, throttle |-> 2, available |-> TRUE],
               [steer |-> -2, throttle |-> 0, available |-> FALSE]}

(* Cells of 20 cm, quarter turns, 0.2 rad and half throttle in ticks of     *)
(* 2 ms: an episode that finishes on jerky commands can cost more than one  *)
(* that fails.                                                              *)
MCWeights == [lateral |-> 8, heading |-> 123, steering |-> 10000, throttle |-> 31250]

MCBase == [servo     |-> [backlash |-> 0, gain |-> 2, limit |-> 3],
           motor     |-> [deadband |-> 1, gain |-> 1, brake |-> 2, lag |-> 1],
           low_speed |-> [start |-> 0, end |-> 1, margin |-> 1]]
(* An identified model with its own servo                                   *)
MCIdentified == [servo |-> [backlash |-> 1, gain |-> 0, limit |-> 2]]
MCKinematic == [kind |-> "kinematic", params |-> MCBase]
MCDynamic == [kind |-> "dynamic", params |-> MCIdentified]
MCMissing == [kind |-> "missing", params |-> MCBase]
MCSpeedChanges == {-1, 0, 1}
MCForcedYawRates == {-1, 1}

MCParams == [min_lookahead |-> [kind |-> "real", lo |-> 1, hi |-> 6, default |-> 1],
             max_lookahead |-> [kind |-> "int", lo |-> 2, hi |-> 4, default |-> 4],
             k_cross_track |-> [kind |-> "real", lo |-> 0, hi |-> 8, default |-> 2],
             friction      |-> [kind |-> "real", lo |-> 0, hi |-> 8, default |-> 7]]
MCOverrides == [friction |-> [lo |-> 1, hi |-> 3]]
MCDefaults == [min_lookahead |-> 2, max_lookahead |-> 4, k_cross_track |-> 2, friction |-> 7,
               hz |-> 100, mapping_enabled |-> 1]
MCCompatDefaults == [min_lookahead |-> 1, max_lookahead |-> 4, k_cross_track |-> 3,
                     hz |-> 100, mapping_enabled |-> 0]
MCCandidates == {[min_lookahead |-> 3], [min_lookahead |-> 9], [no_such_key |-> 2]}

(* A car's file with an overlay, a runtime configuration, and neither       *)
MCFiles == {[kind |-> "car", control |-> [k_cross_track |-> 5, hz |-> 50, mapping_enabled |-> 1],
             algo |-> [k_cross_track |-> 6, friction |-> 1]],
            [kind |-> "runtime", control |-> << >>, algo |-> [friction |-> 4]],
            [kind |-> "none", control |-> << >>, algo |-> << >>]}
MCCarFile == CHOOSE f \in MCFiles : f.kind = "car"

MCJobOf(kind, from, seeds, population, m, l, s, file) ==
  [kind |-> kind, source |-> from, seeds |-> seeds, generations |-> 1,
   population |-> population, weight |-> 1, candidates |-> MCCandidates,
   model |-> m, latency |-> l, start |-> s, file |-> file,
   space |-> {"min_lookahead", "max_lookahead"}]
MCJob(kind, from, seeds, population, m, l, s) ==
  MCJobOf(kind, from, seeds, population, m, l, s, MCCarFile)
(* Commands that come one or two ticks late, with both models; two seeds,   *)
(* two individuals, a model without its file, recorded input                *)
MCJobs ==
  {MCJob("candidate", "sim", 1, 1, MCDynamic, 2, s) : s \in MCStarts}
    \cup {MCJob("candidate", "sim", 1, 1, MCKinematic, 3, MCLane)}
    \cup {MCJob("candidate", "sim", 2, 1, MCKinematic, 0, s) : s \in MCStarts}
    \cup {MCJob(k, "sim", 1, 2, m, 0, MCLane) :
            k \in {"candidate", "cma"}, m \in {MCKinematic, MCMissing}}
    \cup {MCJobOf(k, "replay", 1, 2, MCKinematic, 0, MCLane, f) :
            k \in {"candidate", "cma"}, f \in MCFiles}
    \cup {[MCJobOf("dump", "sim", 1, 1, MCKinematic, 0, MCLane, f) EXCEPT !.space = DOMAIN MCParams] :
            f \in MCFiles}

ASSUME MCStartsOffTheWalls == StartsOffTheWalls
=============================================================================
