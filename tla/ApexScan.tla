------------------------------- MODULE ApexScan -------------------------------
(***************************************************************************)
(* What apex perception reads from one scan                                *)
(* (nfe-algo/src/perception/apex/scan.rs and geometry.rs): the scan is cut *)
(* to the front and smoothed, a gap between two neighbouring points is     *)
(* chosen, its nearer end is the apex, and the point of the other wall at  *)
(* the same range is the opposite one; the car aims between the two.       *)
(*                                                                         *)
(* A point is [angle, dist], in degrees and centimetres; a scan is a       *)
(* sequence of points.  A result that may be missing is << >> or <<it>>.   *)
(***************************************************************************)
EXTENDS Angles, Functions, Sequences

CONSTANT Apex       (* ApexParams: the record of its fields                 *)

ASSUME ApexIsTyped ==
  /\ Apex.median_window \in Int /\ Apex.min_range_jump_m \in Int
  /\ Apex.wall_clearance_m \in Int

FrontFov == 144     (* FRONT_FOV_RAD                                        *)
Nothing == 1000000  (* the range of an obstacle that is not there           *)

Polar(dist, angle) == [angle |-> angle, dist |-> dist]
X(pt) == Quotient(pt.dist * Cos(pt.angle), 1000)
Y(pt) == Quotient(pt.dist * Sin(pt.angle), 1000)

-----------------------------------------------------------------------------
(* Preprocessing                                                            *)

(* select_nth_unstable: what is at place k, counted from 0, of the sorted   *)
(* values                                                                   *)
NthOf(values, k) ==
  CHOOSE v \in {values[i] : i \in DOMAIN values} :
    /\ Cardinality({i \in DOMAIN values : values[i] < v}) <= k
    /\ Cardinality({i \in DOMAIN values : values[i] <= v}) > k

(* The window goes round the ends of the scan.                              *)
MedianFiltered(points) ==
  LET n == Len(points)
      window == Min({Clamp(Apex.median_window, 1, 256), n})
      Around(i) == [j \in 0..(window - 1) |->
                      points[((i - 1 + n + j - (window \div 2)) % n) + 1].dist]
      Median(i) == NthOf(Around(i), window \div 2)
  IN SubSeq([i \in DOMAIN points |-> Polar(Median(i), points[i].angle)], 1, n)

InFront(pt) == 2 * Abs(pt.angle) <= FrontFov
Usable(pt, lookahead) ==
  InFront(pt) /\ pt.dist >= Apex.min_forward_m /\ pt.dist <= lookahead
(* The usable points of a scan, in its order                                *)
Kept(cloud, lookahead) ==
  LET kept[n \in 0..Len(cloud)] ==
        IF n = 0 THEN << >>
        ELSE IF Usable(cloud[n], lookahead) THEN Append(kept[n - 1], cloud[n]) ELSE kept[n - 1]
  IN kept[Len(cloud)]
Preprocess(cloud, lookahead) == MedianFiltered(Kept(cloud, lookahead))

(* nearest_in_arc                                                           *)
NearestInArc(cloud, center, fov) ==
  LET ranges == {cloud[i].dist : i \in {k \in DOMAIN cloud :
                                          2 * Abs(AngleDiff(cloud[k].angle, center)) <= fov}}
  IN IF ranges = {} THEN << >> ELSE <<Min(ranges)>>

NearestFrontObstacle(cloud) ==
  LET nearest == NearestInArc(cloud, 0, 15)
  IN IF nearest = << >> THEN Nothing ELSE nearest[1]
NearestObstacle(cloud) == Min({Nothing} \cup {cloud[i].dist : i \in DOMAIN cloud})

-----------------------------------------------------------------------------
(* The apex                                                                 *)

Pairs(points) == 1..(Len(points) - 1)
Jump(points, i) == Abs(points[i + 1].dist - points[i].dist)
Closest(points, i) == Min({points[i].dist, points[i + 1].dist})
(* range_derivative, per thousand degrees                                   *)
Derivative(points, i) ==
  LET turn == Abs(AngleDiff(points[i + 1].angle, points[i].angle))
  IN IF turn = 0 THEN 0 ELSE (1000 * Jump(points, i)) \div turn

(* min_by and max_by: of equal pairs the first and the last one             *)
NearestGap(points) ==
  LET gaps == {i \in Pairs(points) : Jump(points, i) >= Apex.min_range_jump_m}
      least == Min({Closest(points, i) : i \in gaps})
  IN IF gaps = {} THEN << >>
     ELSE <<Min({i \in gaps : Closest(points, i) = least})>>
Steepest(points) ==
  LET greatest == Max({Derivative(points, k) : k \in Pairs(points)})
  IN {i \in Pairs(points) : Derivative(points, i) = greatest}

FindDiscontinuity(points) ==
  LET i == IF NearestGap(points) = << >> THEN Max(Steepest(points))
           ELSE NearestGap(points)[1]
      first == points[i].dist < points[i + 1].dist
  IN IF Len(points) < 2 THEN << >>
     ELSE <<[breakpoint |-> points[IF first THEN i ELSE i + 1], gap |-> i,
             first |-> first, score |-> Jump(points, i)]>>

(* confidence_stats, in percent: of the first of the steepest pairs         *)
ScanConfidence(points) ==
  LET i == Min(Steepest(points))
      jump == IF Len(points) < 2 \/ Derivative(points, i) = 0 THEN 0 ELSE Jump(points, i)
  IN IF Apex.min_range_jump_m > 0
     THEN Clamp((100 * jump) \div Apex.min_range_jump_m, 0, 100)
     ELSE IF jump > 0 THEN 100 ELSE 0

-----------------------------------------------------------------------------
(* The opposite wall                                                        *)

OppositeWall(points, gap) ==
  IF gap.first THEN SubSeq(points, gap.gap + 1, Len(points)) ELSE SubSeq(points, 1, gap.gap)

(* bounding_points: the first two neighbours with the range between them    *)
BoundingPoints(wall, range) ==
  LET around == {i \in Pairs(wall) : \/ wall[i].dist <= range /\ range <= wall[i + 1].dist
                                     \/ wall[i + 1].dist <= range /\ range <= wall[i].dist}
      i == Min(around)
  IN IF around = {} THEN << >>
     ELSE <<[prev |-> wall[Max({i - 1, 1})], a |-> wall[i],
             b |-> wall[i + 1], next |-> wall[Min({i + 2, Len(wall)})]]>>

SelectOppositeBound(bounds, range) ==
  LET a == bounds.a
      b == bounds.b
  IN IF Apex.prefer_nearer_opposite
     THEN IF Abs(a.dist - range) <= Abs(b.dist - range) THEN a ELSE b
     ELSE IF a.dist > b.dist THEN a ELSE b

(* hermite_angle_at_range, with t and the four weights in thousandths       *)
HermiteAngle(bounds, range) ==
  LET a == bounds.a
      b == bounds.b
      span == b.dist - a.dist
      t == Clamp(Quotient(1000 * (range - a.dist), span), 0, 1000)
      t2 == (t * t) \div 1000
      t3 == (t2 * t) \div 1000
      Slope(p, q, weight) ==
        IF q.dist = p.dist THEN 0
        ELSE Quotient(weight * span * AngleDiff(q.angle, p.angle), 1000 * (q.dist - p.dist))
  IN IF span = 0 THEN a.angle
     ELSE WrapAngle(a.angle + Quotient((3 * t2 - 2 * t3) * AngleDiff(b.angle, a.angle), 1000)
                      + Slope(bounds.prev, a, t3 - 2 * t2 + t) + Slope(b, bounds.next, t3 - t2))

MedianRange(wall) ==
  LET ranges == [i \in DOMAIN wall |-> wall[i].dist]
      mid == Len(wall) \div 2
  IN IF Len(wall) % 2 = 0 THEN (NthOf(ranges, mid - 1) + NthOf(ranges, mid)) \div 2
     ELSE NthOf(ranges, mid)
(* The direction of the sum of unit vectors; in front of the car their      *)
(* cosines are positive.                                                    *)
AngularCentroid(wall) ==
  Atan(SumFunction([i \in DOMAIN wall |-> Sin(wall[i].angle)]),
       SumFunction([i \in DOMAIN wall |-> Cos(wall[i].angle)]))

PullTowardOrigin(pt) == Polar(Max({pt.dist - Max({Apex.wall_clearance_m, 0}), 0}), pt.angle)

OppositeFromBounds(bounds, range) ==
  IF Abs(bounds.a.dist - bounds.b.dist) >= Apex.max_opposite_dist_error_m
  THEN SelectOppositeBound(bounds, range)
  ELSE Polar(range, HermiteAngle(bounds, range))
ScanFallback(wall) ==
  IF wall = << >> THEN << >> ELSE <<Polar(MedianRange(wall), AngularCentroid(wall))>>

OppositePoint(wall, breakpoint) ==
  LET bounds == BoundingPoints(wall, breakpoint.dist)
      raw == IF bounds = << >> THEN ScanFallback(wall)
             ELSE <<OppositeFromBounds(bounds[1], breakpoint.dist)>>
  IN IF raw = << >> THEN << >> ELSE <<PullTowardOrigin(raw[1])>>

PolarMidpoint(p, q) ==
  Polar((p.dist + q.dist) \div 2, WrapAngle(p.angle + Quotient(AngleDiff(q.angle, p.angle), 2)))
=============================================================================
