----------------------------- MODULE TrackWorld -----------------------------
(***************************************************************************)
(* The simulator's world (nfe-sim/src/world.rs) and the progress of a car  *)
(* along its waypoints (nfe-sim/src/progress.rs).  Walls are segments of   *)
(* any direction between integer points; the range of a ray and the clips  *)
(* of a segment are fractions.  Headings are quarter turns, so a footprint *)
(* turned by one keeps integer corners; waypoints are joined by lines      *)
(* along the axes, so lengths along them are integers too.                 *)
(***************************************************************************)
EXTENDS Integers, Sequences, FiniteSetsExt

CONSTANTS
  InnerWalls,      (* the two closed lines of walls, sequences of points    *)
  OuterWalls,
  Waypoints,
  HalfLength,      (* half the footprint                                    *)
  HalfWidth,
  LidarRange       (* DIST_MAX_M                                            *)

ASSUME FootprintIsNat == HalfLength \in Nat /\ HalfWidth \in Nat
ASSUME RangeIsPositive == LidarRange \in Nat \ {0}
ASSUME WallsArePoints ==
  InnerWalls \in Seq([x : Int, y : Int]) /\ OuterWalls \in Seq([x : Int, y : Int])

Point(px, py) == [x |-> px, y |-> py]
Clamp(v, lo, hi) == IF v < lo THEN lo ELSE IF v > hi THEN hi ELSE v

(* The least and the greatest corner of the box around points               *)
Lo(points) == Point(Min({p.x : p \in points}), Min({p.y : p \in points}))
Hi(points) == Point(Max({p.x : p \in points}), Max({p.y : p \in points}))

(* A WallSegment with its envelope                                          *)
Wall(a, b) == [a |-> a, b |-> b, lo |-> Lo({a, b}), hi |-> Hi({a, b})]
LoopToSegs(points) ==
  {Wall(points[i], points[(i % Len(points)) + 1]) : i \in DOMAIN points}
Walls == LoopToSegs(InnerWalls) \cup LoopToSegs(OuterWalls)

(* The direction of a heading: 0 is +x, one quarter turn left is +y.        *)
Cos(yaw) == <<1, 0, -1, 0>>[(yaw % 4) + 1]
Sin(yaw) == <<0, 1, 0, -1>>[(yaw % 4) + 1]

Frac(n, d) == IF d < 0 THEN <<-n, -d>> ELSE <<n, d>>
Less(f, g) == f[1] * g[2] < g[1] * f[2]
Least(fractions) == CHOOSE f \in fractions : \A g \in fractions : ~ Less(g, f)

(* Mutant: only walls that lie inside the box are found (locate_in_envelope)*)
Near_Contained(points) ==
  LET lo == Lo(points)
      hi == Hi(points)
  IN {seg \in Walls : /\ seg.lo.x >= lo.x /\ seg.hi.x <= hi.x
                      /\ seg.lo.y >= lo.y /\ seg.hi.y <= hi.y}

(* locate_in_envelope_intersecting: walls whose box meets the box of points *)
Near(points) ==
  LET lo == Lo(points)
      hi == Hi(points)
  IN {seg \in Walls : /\ seg.lo.x <= hi.x /\ seg.hi.x >= lo.x
                      /\ seg.lo.y <= hi.y /\ seg.hi.y >= lo.y}

-----------------------------------------------------------------------------
(* Rays                                                                     *)

(* ray_intersect: where along the ray the wall is met; none for a wall that *)
(* is parallel to the ray.                                                  *)
Hits(seg, o, d) ==
  LET ex == seg.b.x - seg.a.x    fx == seg.a.x - o.x
      ey == seg.b.y - seg.a.y    fy == seg.a.y - o.y
      denom == d.x * ey - d.y * ex
      t == Frac(fx * ey - fy * ex, denom)
      u == Frac(fx * d.y - fy * d.x, denom)
  IN IF denom # 0 /\ t[1] >= 0 /\ u[1] >= 0 /\ u[1] <= u[2] THEN {t} ELSE {}

Raycast(o, d, range) ==
  LET end == Point(o.x + d.x * range, o.y + d.y * range)
  IN Least({<<range, 1>>} \cup UNION {Hits(seg, o, d) : seg \in Near({o, end})})

Ahead(yaw) == Point(Cos(yaw), Sin(yaw))

(* synthesize_lidar, one ray per quarter turn, without noise: a ray that    *)
(* meets nothing within the range gives no point.                           *)
SynthesizeLidar(pose) ==
  LET scan == {[angle |-> a, dist |-> Raycast(Point(pose.x, pose.y), Ahead(pose.yaw + a), LidarRange)] :
                 a \in -2..1}
  IN {pt \in scan : Less(pt.dist, <<LidarRange, 1>>)}

-----------------------------------------------------------------------------
(* The footprint                                                            *)

FootprintCorners(pose) ==
  {Point(pose.x + lx * Cos(pose.yaw) - ly * Sin(pose.yaw),
         pose.y + lx * Sin(pose.yaw) + ly * Cos(pose.yaw)) :
     lx \in {-HalfLength, HalfLength}, ly \in {-HalfWidth, HalfWidth}}

WorldToVehicle(p, pose) ==
  LET dx == p.x - pose.x
      dy == p.y - pose.y
  IN Point(dx * Cos(pose.yaw) + dy * Sin(pose.yaw),
           -dx * Sin(pose.yaw) + dy * Cos(pose.yaw))

(* clip_segment narrows the part <<t0, t1>> of a segment to one side of the *)
(* box; << >> is an empty part.                                             *)
ClipSegment(part, p, q) ==
  LET r == Frac(q, p)
  IN IF part = << >> THEN << >>
     ELSE IF p = 0 THEN IF q >= 0 THEN part ELSE << >>
     ELSE IF p < 0
          THEN IF Less(part[2], r) THEN << >>
               ELSE <<IF Less(part[1], r) THEN r ELSE part[1], part[2]>>
          ELSE IF Less(r, part[1]) THEN << >>
               ELSE <<part[1], IF Less(r, part[2]) THEN r ELSE part[2]>>

SegmentIntersectsBox(a, b) ==
  LET dx == b.x - a.x
      dy == b.y - a.y
      left  == ClipSegment(<< <<0, 1>>, <<1, 1>> >>, -dx, a.x + HalfLength)
      right == ClipSegment(left, dx, HalfLength - a.x)
      below == ClipSegment(right, -dy, a.y + HalfWidth)
  IN ClipSegment(below, dy, HalfWidth - a.y) # << >>

FootprintIntersectsWall(pose) ==
  /\ HalfLength > 0 /\ HalfWidth > 0
  /\ \E seg \in Near(FootprintCorners(pose)) :
       SegmentIntersectsBox(WorldToVehicle(seg.a, pose), WorldToVehicle(seg.b, pose))

-----------------------------------------------------------------------------
(* Progress along the waypoints                                             *)

Next_(i) == (i % Len(Waypoints)) + 1
Length(i) == LET a == Waypoints[i]
                 b == Waypoints[Next_(i)]
             IN Max({b.x - a.x, a.x - b.x}) + Max({b.y - a.y, a.y - b.y})

(* from_waypoints: two equal neighbours give no segment; no segment at all  *)
(* is an error.                                                             *)
Segments == {i \in DOMAIN Waypoints : Length(i) > 0}
HasTrack == Len(Waypoints) >= 2 /\ Segments # {}
StartOf(i) == SumFunction([j \in {k \in Segments : k < i} |-> Length(j)])
TrackLength == SumFunction([i \in Segments |-> Length(i)])
HeadingOf(i) ==
  CHOOSE h \in 0..3 :
    /\ Waypoints[Next_(i)].x = Waypoints[i].x + Length(i) * Cos(h)
    /\ Waypoints[Next_(i)].y = Waypoints[i].y + Length(i) * Sin(h)
Track == [i \in Segments |->
            [a |-> Waypoints[i], len |-> Length(i), start |-> StartOf(i),
             heading |-> HeadingOf(i), cos |-> Cos(HeadingOf(i)), sin |-> Sin(HeadingOf(i))]]

(* The tuner refuses a world without one.                                   *)
ASSUME WorldHasTrack == HasTrack
ASSUME WaypointsArePoints == Waypoints \in Seq([x : Int, y : Int])
ASSUME WaypointsAlongAxes ==
  \A i \in DOMAIN Waypoints : \/ Waypoints[Next_(i)].x = Waypoints[i].x
                              \/ Waypoints[Next_(i)].y = Waypoints[i].y

(* ProgressSegment::project: the point of segment i nearest to p.           *)
ProjectOnto(i, p) ==
  LET seg == Track[i]
      along == (p.x - seg.a.x) * seg.cos + (p.y - seg.a.y) * seg.sin
      u == Clamp(along, 0, seg.len)
      ex == p.x - (seg.a.x + u * seg.cos)
      ey == p.y - (seg.a.y + u * seg.sin)
  IN [i |-> i, s |-> seg.start + u, heading |-> seg.heading, dist2 |-> ex * ex + ey * ey]

(* min_by keeps the first of equally near segments.                         *)
Project(p) ==
  LET all == {ProjectOnto(i, p) : i \in Segments}
  IN CHOOSE q \in all : \A r \in all : q.dist2 < r.dist2 \/ (q.dist2 = r.dist2 /\ q.i <= r.i)

NoProgress == [last |-> << >>, unwrapped |-> 0]

(* Mutant: only the forward crossing of the start is unwrapped.             *)
Unwrap_ForwardOnly(delta) ==
  IF 2 * delta < -TrackLength THEN delta + TrackLength ELSE delta
(* The way from the last place to s, by the shorter of the two ways round.  *)
Unwrap(delta) ==
  IF 2 * delta < -TrackLength THEN delta + TrackLength
  ELSE IF 2 * delta > TrackLength THEN delta - TrackLength ELSE delta

(* TrackProgress::update                                                    *)
Advance(progress, place) ==
  [last |-> <<place.s>>,
   unwrapped |-> IF progress.last = << >> THEN progress.unwrapped
                 ELSE progress.unwrapped + Unwrap(place.s - progress.last[1])]
Lap(progress) == Max({progress.unwrapped, 0}) \div TrackLength

(* wrap_angle of the heading error, in quarter turns                        *)
HeadingError(yaw, place) == ((yaw - place.heading + 2) % 4) - 2
=============================================================================
