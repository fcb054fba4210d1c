---------------------------- MODULE Driving_proofs ----------------------------
(***************************************************************************)
(* Theorems about Driving, for every scan, line, car, number of scans and  *)
(* all parameters.                                                         *)
(*                                                                         *)
(* That held targets are near rests on the tracker alone: nothing is       *)
(* assumed of the geometry of a scan, so that it holds for any way to find *)
(* an apex.  That the race-line controller turns back to the line rests on *)
(* the order that each of its steps keeps, from the sine of the heading to *)
(* the angle of the wheels: rounding, clamping and fading included.  That  *)
(* the target speed falls for an obstacle rests on the whole of perception *)
(* giving numbers for every scan, and on the order of the speed caps.      *)
(***************************************************************************)
EXTENDS Driving, TLAPS, WellFoundedInduction, FiniteSetTheorems, SequenceTheorems

(* The tracker                                                              *)

(* The tracked apex is the one the car's target was made of.                *)
TrackedIsAimed ==
  /\ tracker = [lateral |-> tracker.lateral, apex |-> tracker.apex,
                estimate |-> tracker.estimate, curvature |-> tracker.curvature]
  /\ seen = [how |-> seen.how, apex |-> seen.apex, aim |-> seen.aim]
  /\ tracker.apex # << >> => tracker.apex[1].angle = seen.aim

IInv == TrackedIsAimed /\ AimsNearTheApex

LEMMA InitIInv == Init => IInv
BY DEF Init, PercInit, NewTracker, IInv, TrackedIsAimed, AimsNearTheApex

(* A scan without a target drops the tracked apex.                          *)
LEMMA SeeNothingKeeps ==
  ASSUME IInv, NEW sc, NEW points, NEW gap, SeeNothing(sc, points, gap)
  PROVE  IInv'
BY DEF SeeNothing, IInv, TrackedIsAimed, AimsNearTheApex

(* A held target's apex is near the new scan's, and stays tracked.          *)
LEMMA HoldTargetKeeps ==
  ASSUME IInv, NEW sc, NEW points, NEW gap, NEW at, HoldTarget(sc, points, gap, at)
  PROVE  IInv'
<1>1. PICK estimate : tracker' = HeldTracker(estimate, gap, at)
  BY DEF HoldTarget
<1>2. /\ tracker'.apex = tracker.apex
      /\ tracker' = [lateral |-> tracker'.lateral, apex |-> tracker'.apex,
                     estimate |-> tracker'.estimate, curvature |-> tracker'.curvature]
  BY <1>1 DEF HeldTracker, IInv, TrackedIsAimed
<1>3. /\ seen' = [how |-> "held", apex |-> gap.breakpoint.angle, aim |-> seen.aim]
  BY DEF HoldTarget, IInv, TrackedIsAimed
<1>4. /\ tracker.apex # << >>
      /\ Abs(AngleDiff(gap.breakpoint.angle, tracker.apex[1].angle)) <= Apex.apex_switch_threshold
  BY DEF HoldTarget, Holds, ShouldHold
<1>5. tracker.apex[1].angle = seen.aim
  BY <1>4 DEF IInv, TrackedIsAimed
<1>6. TrackedIsAimed'
  BY <1>2, <1>3, <1>5 DEF TrackedIsAimed
<1>7. AimsNearTheApex'
  BY <1>3, <1>4, <1>5 DEF AimsNearTheApex
<1>. QED  BY <1>6, <1>7 DEF IInv

(* A new target is made of the scan's own apex, which is tracked from then  *)
(* on, or none is.                                                          *)
LEMMA NewTargetKeeps ==
  ASSUME IInv, NEW sc, NEW points, NEW gap, NEW at, NewTarget(sc, points, gap, at)
  PROVE  IInv'
<1>1. /\ seen' = [how |-> "target", apex |-> gap.breakpoint.angle, aim |-> gap.breakpoint.angle]
      /\ \E l, e, c : \E a \in {<<[angle |-> gap.breakpoint.angle, score |-> gap.score]>>, << >>} :
           tracker' = [lateral |-> l, apex |-> a, estimate |-> e, curvature |-> c]
  BY DEF NewTarget
<1>2. PICK l, e, c, a :
        /\ a \in {<<[angle |-> gap.breakpoint.angle, score |-> gap.score]>>, << >>}
        /\ tracker' = [lateral |-> l, apex |-> a, estimate |-> e, curvature |-> c]
  BY <1>1
<1>3. TrackedIsAimed'
  BY <1>1, <1>2 DEF TrackedIsAimed
<1>4. AimsNearTheApex'
  BY <1>1 DEF AimsNearTheApex
<1>. QED  BY <1>3, <1>4 DEF IInv

LEMMA StepKeepsIInv == IInv /\ [Next]_vars => IInv'
<1>. SUFFICES ASSUME IInv, [Next]_vars PROVE IInv'
  OBVIOUS
<1>1. CASE NewScan
  BY <1>1 DEF NewScan, percVars, IInv, TrackedIsAimed, AimsNearTheApex
<1>2. CASE Step
  <2>1. Perceive(cloud, now)
    BY <1>2 DEF Step
  <2>2. PICK points, found : \/ SeeNothing(cloud, points, found)
                             \/ HoldTarget(cloud, points, found[1], now)
                             \/ NewTarget(cloud, points, found[1], now)
    BY <2>1 DEF Perceive
  <2>. QED  BY <2>2, SeeNothingKeeps, HoldTargetKeeps, NewTargetKeeps
<1>3. CASE Reset
  BY <1>3 DEF Reset, PercReset, NewTracker, IInv, TrackedIsAimed, AimsNearTheApex
<1>4. CASE UNCHANGED vars
  BY <1>4 DEF vars, percVars, IInv, TrackedIsAimed, AimsNearTheApex
<1>. QED  BY <1>1, <1>2, <1>3, <1>4 DEF Next

-----------------------------------------------------------------------------
(* Whole numbers                                                            *)

(* Dividing by a positive number keeps the order.                           *)
LEMMA DivideInOrder ==
  ASSUME NEW n \in Int, NEW m \in Int, NEW d \in Nat \ {0}, n <= m
  PROVE  n \div d \in Int /\ m \div d \in Int /\ n \div d <= m \div d
OBVIOUS

(* A smaller divisor gives no smaller a result.                             *)
LEMMA DivideByLess ==
  ASSUME NEW n \in Nat, NEW d \in Nat \ {0}, NEW e \in Nat \ {0}, e <= d
  PROVE  n \div d <= n \div e
OBVIOUS

(* Nor does rounding towards zero change an order.                          *)
LEMMA QuotientInOrder ==
  ASSUME NEW n \in Int, NEW m \in Int, NEW d \in Nat \ {0}, n <= m
  PROVE  /\ Quotient(n, d) \in Int /\ Quotient(m, d) \in Int
         /\ Quotient(n, d) <= Quotient(m, d)
<1>1. Abs(d) = d /\ Sign(d) = 1 /\ Abs(n) \in Nat /\ Abs(m) \in Nat
  BY DEF Abs, Sign
<1>2. Abs(n) \div d \in Nat /\ Abs(m) \div d \in Nat
  BY <1>1
<1>3. CASE 0 <= n
  <2>1. n \div d <= m \div d
    BY <1>3, DivideInOrder
  <2>. QED  BY <1>1, <1>2, <1>3, <2>1 DEF Quotient, Abs, Sign
<1>4. CASE m < 0
  <2>1. (-m) \div d <= (-n) \div d
    BY <1>4, DivideInOrder
  <2>. QED  BY <1>1, <1>2, <1>4, <2>1 DEF Quotient, Abs, Sign
<1>5. CASE n < 0 /\ 0 <= m
  BY <1>1, <1>2, <1>5 DEF Quotient, Abs, Sign
<1>. QED  BY <1>3, <1>4, <1>5

LEMMA QuotientOfNothing == ASSUME NEW d \in Nat \ {0} PROVE Quotient(0, d) = 0
BY DEF Quotient, Abs, Sign

(* Clamping keeps the order.                                                *)
LEMMA ClampInOrder ==
  ASSUME NEW n \in Int, NEW m \in Int, NEW lo \in Int, NEW hi \in Int, n <= m, lo <= hi
  PROVE  /\ Clamp(n, lo, hi) \in lo..hi /\ Clamp(m, lo, hi) \in lo..hi
         /\ Clamp(n, lo, hi) <= Clamp(m, lo, hi)
BY DEF Clamp

(* So does a factor that is not negative.                                   *)
LEMMA TimesInOrder ==
  ASSUME NEW n \in Int, NEW m \in Int, NEW k \in Nat, n <= m
  PROVE  /\ k * n \in Int /\ k * m \in Int /\ k * n <= k * m
         /\ n * k \in Int /\ m * k \in Int /\ n * k <= m * k
OBVIOUS

LEMMA FractionInOrder ==
  ASSUME NEW n \in Nat, NEW m \in Nat, NEW d \in Nat \ {0}, NEW e \in Nat \ {0},
         n <= m, e <= d
  PROVE  n \div d \in Nat /\ m \div e \in Nat /\ n \div d <= m \div e
<1>1. n \div d \in Nat /\ m \div d \in Nat /\ m \div e \in Nat
  OBVIOUS
<1>2. n \div d <= m \div d
  BY DivideInOrder
<1>3. m \div d <= m \div e
  BY DivideByLess
<1>. QED  BY <1>1, <1>2, <1>3

-----------------------------------------------------------------------------
(* The sine and the arc tangent                                             *)

Bhaskara(s) == (4000 * s) \div (40500 - s)
Products == 0..8100
Product(a) == a * (180 - a)

(* The sine's approximation, as a function of a * (180 - a), rises.         *)
LEMMA BhaskaraRises ==
  ASSUME NEW s \in Products, NEW t \in Products, s <= t
  PROVE  Bhaskara(s) \in Nat /\ Bhaskara(t) \in Nat /\ Bhaskara(s) <= Bhaskara(t)
<1>1. /\ 4000 * s \in Nat /\ 4000 * t \in Nat /\ 4000 * s <= 4000 * t
      /\ 40500 - s \in Nat \ {0} /\ 40500 - t \in Nat \ {0}
      /\ 40500 - t <= 40500 - s
  BY DEF Products
<1>. DEFINE n == 4000 * s
            m == 4000 * t
            d == 40500 - s
            e == 40500 - t
<1>2. n \in Nat /\ m \in Nat /\ d \in Nat \ {0} /\ e \in Nat \ {0} /\ n <= m /\ e <= d
  BY <1>1
<1>3. Bhaskara(s) = n \div d /\ Bhaskara(t) = m \div e
  BY DEF Bhaskara
<1>. HIDE DEF n, m, d, e
<1>4. n \div d \in Nat /\ m \div e \in Nat /\ n \div d <= m \div e
  BY <1>2, FractionInOrder
<1>. QED  BY <1>3, <1>4

LEMMA ProductBound ==
  ASSUME NEW a \in 0..90
  PROVE  Product(a) \in Products
<1>1. a * (180 - a) = 8100 - (90 - a) * (90 - a)
  OBVIOUS
<1>2. (90 - a) * (90 - a) >= 0 /\ a * (180 - a) >= 0
  OBVIOUS
<1>. QED  BY <1>1, <1>2 DEF Product, Products

(* The sine rises up to 90 degrees, and is the same on both sides of them.  *)
LEMMA HalfWaveRises ==
  ASSUME NEW a \in 0..90, NEW b \in 0..90, a <= b
  PROVE  /\ HalfWave(a) \in Nat /\ HalfWave(b) \in Nat
         /\ HalfWave(a) <= HalfWave(b)
<1>1. Product(a) <= Product(b)
  <2>1. b * (180 - b) - a * (180 - a) = (b - a) * (180 - a - b)
    OBVIOUS
  <2>2. PICK p \in Nat, q \in Nat : p = b - a /\ q = 180 - a - b
    OBVIOUS
  <2>3. p * q >= 0
    OBVIOUS
  <2>. QED  BY <2>1, <2>2, <2>3 DEF Product
<1>2. ASSUME NEW c \in 0..90 PROVE HalfWave(c) = Bhaskara(Product(c))
  <2>1. 4000 * c * (180 - c) = 4000 * (c * (180 - c))
    OBVIOUS
  <2>. QED  BY <2>1 DEF HalfWave, Bhaskara, Product
<1>3. HalfWave(a) = Bhaskara(Product(a)) /\ HalfWave(b) = Bhaskara(Product(b))
  BY <1>2
<1>. QED  BY <1>1, <1>3, ProductBound, BhaskaraRises

LEMMA HalfWaveIsEven ==
  ASSUME NEW a \in 0..180
  PROVE  HalfWave(a) = HalfWave(180 - a)
<1>1. 4000 * a * (180 - a) = 4000 * (180 - a) * (180 - (180 - a)) /\ a * (180 - a) = (180 - a) * (180 - (180 - a))
  OBVIOUS
<1>. QED  BY <1>1 DEF HalfWave

LEMMA HalfWaveIsPositive ==
  ASSUME NEW a \in 0..180
  PROVE  HalfWave(a) \in Nat
<1>0. ASSUME NEW b \in 0..90 PROVE HalfWave(b) \in Nat
  <2>1. b <= b
    OBVIOUS
  <2>. QED  BY <2>1, HalfWaveRises
<1>1. CASE a <= 90
  <2>1. a \in 0..90
    BY <1>1
  <2>. QED  BY <2>1, <1>0
<1>2. CASE a > 90
  <2>1. 180 - a \in 0..90
    BY <1>2
  <2>2. HalfWave(180 - a) \in Nat
    BY <2>1, <1>0
  <2>. QED  BY <2>2, HalfWaveIsEven
<1>. QED  BY <1>1, <1>2

LEMMA SineIsTyped ==
  ASSUME NEW a \in Int
  PROVE  Sin(a) \in Int /\ Cos(a) \in Int
<1>1. ASSUME NEW b \in Int PROVE Sin(b) \in Int
  <2>1. b % 360 \in 0..359
    OBVIOUS
  <2>2. CASE b % 360 <= 180
    <3>1. HalfWave(b % 360) \in Nat
      BY <2>1, <2>2, HalfWaveIsPositive
    <3>. QED  BY <2>1, <2>2, <3>1 DEF Sin, SinTable
  <2>3. CASE b % 360 > 180
    <3>1. HalfWave((b % 360) - 180) \in Nat
      BY <2>1, <2>3, HalfWaveIsPositive
    <3>. QED  BY <2>1, <2>3, <3>1 DEF Sin, SinTable
  <2>. QED  BY <2>1, <2>2, <2>3
<1>. QED  BY <1>1 DEF Cos

LEMMA TurnBackwards == ASSUME NEW b \in -180..-1 PROVE b % 360 = b + 360
OBVIOUS

(* To the left the sine is positive, to the right negative; it is zero ahead *)
(* and behind.                                                              *)
LEMMA SineSign ==
  ASSUME NEW a \in -180..179
  PROVE  /\ a >= 0 => Sin(a) >= 0
         /\ a <= 0 => Sin(a) <= 0
         /\ a = -180 => Sin(a) = 0
<1>1. CASE a >= 0
  <2>1. a % 360 = a /\ a \in 0..180
    BY <1>1
  <2>2. Sin(a) = HalfWave(a) /\ HalfWave(a) \in Nat
    BY <2>1, HalfWaveIsPositive DEF Sin, SinTable
  <2>3. a = 0 => HalfWave(a) = 0
    BY DEF HalfWave
  <2>. QED  BY <1>1, <2>2, <2>3
<1>2. CASE a < 0
  <2>1. a % 360 = a + 360 /\ a + 360 \in 180..359
    BY <1>2, TurnBackwards
  <2>2. CASE a + 360 = 180
    <3>1. Sin(a) = HalfWave(180)
      BY <2>1, <2>2 DEF Sin, SinTable
    <3>2. HalfWave(180) = 0
      BY DEF HalfWave
    <3>. QED  BY <1>2, <3>1, <3>2
  <2>3. CASE a + 360 > 180
    <3>1. Sin(a) = - HalfWave(a + 360 - 180)
      BY <2>1, <2>3 DEF Sin, SinTable
    <3>2. a + 360 - 180 \in 0..180
      BY <2>1, <2>3
    <3>3. HalfWave(a + 360 - 180) \in Nat
      BY <3>2, HalfWaveIsPositive
    <3>4. Sin(a) <= 0
      BY <3>1, <3>3
    <3>5. a # -180
      BY <2>3
    <3>. QED  BY <1>2, <3>4, <3>5
  <2>. QED  BY <2>1, <2>2, <2>3
<1>. QED  BY <1>1, <1>2

(* Up to 90 degrees the sine rises and the cosine falls.                    *)
LEMMA FirstQuadrant ==
  ASSUME NEW a \in 0..90, NEW b \in 0..90, a <= b
  PROVE  /\ Sin(a) \in Nat /\ Sin(b) \in Nat /\ Sin(a) <= Sin(b)
         /\ Cos(a) \in Nat /\ Cos(b) \in Nat /\ Cos(b) <= Cos(a)
<1>1. ASSUME NEW c \in 0..90
      PROVE  Sin(c) = HalfWave(c) /\ Cos(c) = HalfWave(90 - c)
  <2>1. c % 360 = c /\ (c + 90) % 360 = c + 90 /\ c \in 0..359 /\ c + 90 \in 0..359 /\ c <= 180 /\ c + 90 <= 180
    OBVIOUS
  <2>2. Sin(c) = HalfWave(c) /\ Cos(c) = HalfWave(c + 90)
    BY <2>1 DEF Sin, Cos, SinTable
  <2>3. c + 90 \in 0..180 /\ 180 - (c + 90) = 90 - c
    OBVIOUS
  <2>4. HalfWave(c + 90) = HalfWave(180 - (c + 90))
    BY <2>3, HalfWaveIsEven
  <2>. QED  BY <2>2, <2>3, <2>4
<1>2. 90 - a \in 0..90 /\ 90 - b \in 0..90 /\ 90 - b <= 90 - a
  OBVIOUS
<1>3. HalfWave(a) \in Nat /\ HalfWave(b) \in Nat /\ HalfWave(a) <= HalfWave(b)
  BY HalfWaveRises
<1>4. HalfWave(90 - a) \in Nat /\ HalfWave(90 - b) \in Nat /\ HalfWave(90 - b) <= HalfWave(90 - a)
  BY <1>2, HalfWaveRises
<1>. QED  BY <1>1, <1>3, <1>4

(* A set of natural numbers has a least element.                            *)
LEMMA LeastElement ==
  ASSUME NEW T, T \subseteq Nat, T # {}
  PROVE  \E x \in T : \A y \in T : x <= y
<1>. DEFINE R == {ss \in Nat \X Nat : ss[1] < ss[2]}
<1>1. IsWellFoundedOn(R, Nat)
  BY NatLessThanWellFounded DEF OpToRel
<1>. HIDE DEF R
<1>2. PICK x \in T : \A y \in T : ~ (<<y, x>> \in R)
  BY <1>1, WFMin
<1>3. ASSUME NEW y \in T, y < x PROVE FALSE
  <2>1. <<y, x>> \in Nat \X Nat /\ <<y, x>>[1] = y /\ <<y, x>>[2] = x
    BY <1>2
  <2>. QED  BY <1>2, <1>3, <2>1 DEF R
<1>. QED  BY <1>2, <1>3

(* What Atan chooses for a point of the first quadrant                      *)
GreatestAngle(y, x) ==
  CHOOSE a \in 0..90 : ~ (x * Sin(a + 1) <= y * Cos(a + 1)) /\ x * Sin(a) <= y * Cos(a)

(* The angle that Atan chooses exists: 0 is reached, 91 is not, and the     *)
(* least one that is not reached is one more than the angle.                *)
LEMMA GreatestAngleIsThere ==
  ASSUME NEW y \in Nat, NEW x \in Nat \ {0}
  PROVE  /\ GreatestAngle(y, x) \in 0..90
         /\ x * Sin(GreatestAngle(y, x)) <= y * Cos(GreatestAngle(y, x))
         /\ ~ (x * Sin(GreatestAngle(y, x) + 1) <= y * Cos(GreatestAngle(y, x) + 1))
<1>. DEFINE Reached(a) == x * Sin(a) <= y * Cos(a)
<1>1. Sin(91) > 0 /\ Sin(91) \in Int /\ Cos(91) \in Int /\ Cos(91) <= 0
  <2>1. 91 % 360 = 91 /\ (91 + 90) % 360 = 181
    OBVIOUS
  <2>2. Sin(91) = HalfWave(91) /\ Cos(91) = - HalfWave(1)
    BY <2>1 DEF Sin, Cos, SinTable
  <2>3. HalfWave(91) = 999 /\ HalfWave(1) \in Nat
    BY HalfWaveIsPositive DEF HalfWave
  <2>. QED  BY <2>2, <2>3
<1>2. ~ Reached(91)
  <2>1. x * Sin(91) > 0
    BY <1>1
  <2>2. y * Cos(91) <= 0
    BY <1>1
  <2>. QED  BY <2>1, <2>2, <1>1
<1>3. Reached(0)
  <2>1. Sin(0) = 0
    BY SineSign, SineIsTyped
  <2>2. Cos(0) \in Nat
    <3>1. 0 \in 0..90 /\ 0 <= 0
      OBVIOUS
    <3>. QED  BY <3>1, FirstQuadrant
  <2>. QED  BY <2>1, <2>2
<1>. DEFINE Missed == {a \in Nat : ~ Reached(a)}
<1>4. PICK m \in Missed : \A n \in Missed : m <= n
  <2>1. Missed \subseteq Nat /\ Missed # {}
    BY <1>2
  <2>. HIDE DEF Missed
  <2>. QED  BY <2>1, LeastElement
<1>5. m # 0 /\ m <= 91 /\ ~ Reached(m)
  BY <1>2, <1>3, <1>4
<1>6. m - 1 \in 0..90 /\ ~ Reached((m - 1) + 1) /\ Reached(m - 1)
  <2>1. m - 1 \in 0..90 /\ (m - 1) + 1 = m
    BY <1>5
  <2>2. m - 1 \notin Missed
    BY <2>1, <1>4
  <2>. QED  BY <2>1, <2>2, <1>5
<1>7. \E a \in 0..90 : ~ (x * Sin(a + 1) <= y * Cos(a + 1)) /\ x * Sin(a) <= y * Cos(a)
  BY <1>6
<1>. QED  BY <1>7, Zenon DEF GreatestAngle

LEMMA AtanIsGreatestAngle ==
  ASSUME NEW y \in Int, NEW x \in Nat \ {0}
  PROVE  Atan(y, x) = Sign(y) * GreatestAngle(Abs(y), x)
BY Zenon DEF Atan, GreatestAngle

(* A point farther to the left has a greater angle.                         *)
LEMMA AtanInOrder ==
  ASSUME NEW y \in Int, NEW z \in Int, NEW x \in Nat \ {0}, y <= z
  PROVE  Atan(y, x) \in Int /\ Atan(z, x) \in Int /\ Atan(y, x) <= Atan(z, x)
<1>1. ASSUME NEW p \in Nat, NEW q \in Nat, p <= q
      PROVE  GreatestAngle(p, x) <= GreatestAngle(q, x)
  <2>1. PICK a \in 0..90 : a = GreatestAngle(p, x) /\ x * Sin(a) <= p * Cos(a)
    BY GreatestAngleIsThere
  <2>2. PICK b \in 0..90 : b = GreatestAngle(q, x) /\ ~ (x * Sin(b + 1) <= q * Cos(b + 1))
    BY GreatestAngleIsThere
  <2>3. ASSUME b < a PROVE FALSE
    <3>1. b + 1 \in 0..90 /\ b + 1 <= a
      BY <2>3
    <3>2. /\ Sin(b + 1) \in Nat /\ Sin(a) \in Nat /\ Sin(b + 1) <= Sin(a)
          /\ Cos(b + 1) \in Nat /\ Cos(a) \in Nat /\ Cos(a) <= Cos(b + 1)
      BY <3>1, FirstQuadrant
    <3>3. x * Sin(b + 1) <= x * Sin(a) /\ x * Sin(b + 1) \in Int /\ x * Sin(a) \in Int
      BY <3>2, TimesInOrder
    <3>4. p * Cos(a) <= q * Cos(a) /\ p * Cos(a) \in Int /\ q * Cos(a) \in Int
      BY <1>1, <3>2, TimesInOrder
    <3>5. q * Cos(a) <= q * Cos(b + 1) /\ q * Cos(b + 1) \in Int
      BY <3>2, TimesInOrder
    <3>. QED  BY <2>1, <2>2, <3>3, <3>4, <3>5
  <2>. QED  BY <2>1, <2>2, <2>3
<1>2. Abs(y) \in Nat /\ Abs(z) \in Nat
  BY DEF Abs
<1>3. PICK p \in 0..90, q \in 0..90 : p = GreatestAngle(Abs(y), x) /\ q = GreatestAngle(Abs(z), x)
  BY <1>2, GreatestAngleIsThere
<1>4. Atan(y, x) = Sign(y) * p /\ Atan(z, x) = Sign(z) * q
  BY <1>3, AtanIsGreatestAngle
<1>5. CASE y >= 0
  <2>1. Abs(y) <= Abs(z) /\ Sign(y) = 1 /\ Sign(z) = 1
    BY <1>5 DEF Abs, Sign
  <2>2. p <= q
    BY <1>1, <1>2, <1>3, <2>1
  <2>. QED  BY <1>4, <2>1, <2>2
<1>6. CASE z < 0
  <2>1. Abs(z) <= Abs(y) /\ Sign(y) = -1 /\ Sign(z) = -1
    BY <1>6 DEF Abs, Sign
  <2>2. q <= p
    BY <1>1, <1>2, <1>3, <2>1
  <2>. QED  BY <1>4, <2>1, <2>2
<1>7. CASE y < 0 /\ z >= 0
  <2>1. Sign(y) = -1 /\ Sign(z) = 1
    BY <1>7 DEF Sign
  <2>. QED  BY <1>4, <2>1
<1>. QED  BY <1>5, <1>6, <1>7

-----------------------------------------------------------------------------
(* The race-line controller                                                 *)

LEMMA SignOfQuotient ==
  ASSUME NEW n \in Int, NEW d \in Nat \ {0}
  PROVE  /\ Quotient(n, d) \in Int
         /\ n >= 0 => Quotient(n, d) >= 0
         /\ n <= 0 => Quotient(n, d) <= 0
<1>1. 0 \in Int /\ Quotient(0, d) = 0
  BY QuotientOfNothing
<1>2. n >= 0 => Quotient(0, d) <= Quotient(n, d) /\ Quotient(n, d) \in Int
  BY <1>1, QuotientInOrder
<1>3. n <= 0 => Quotient(n, d) <= Quotient(0, d) /\ Quotient(n, d) \in Int
  BY <1>1, QuotientInOrder
<1>. QED  BY <1>1, <1>2, <1>3

(* The fade of both laws                                                    *)
Fade(v, full) == Clamp((1000 * v) \div full, 0, 1000)

(* The fade of the feedback at low speed; a car that rolls backwards has none. *)
LEMMA FadeIsAFactor ==
  ASSUME NEW v \in Int, NEW full \in Nat \ {0}
  PROVE  Fade(v, full) \in Nat /\ (v <= 0 => Fade(v, full) = 0)
<1>1. 1000 * v \in Int /\ (v <= 0 => 1000 * v <= 0)
  OBVIOUS
<1>. DEFINE w == 1000 * v
<1>2. w \in Int /\ (v <= 0 => w <= 0)
  BY <1>1
<1>3. Fade(v, full) = Clamp(w \div full, 0, 1000)
  BY DEF Fade
<1>. HIDE DEF w
<1>4. w \div full \in Int
  BY <1>2
<1>5. w <= 0 => w \div full <= 0
  <2>1. 0 \div full = 0 /\ 0 \in Int
    OBVIOUS
  <2>2. w <= 0 => w \div full <= 0 \div full
    BY <1>2, <2>1, DivideInOrder
  <2>. QED  BY <2>1, <2>2
<1>. QED  BY <1>2, <1>3, <1>4, <1>5 DEF Clamp

LEMMA SignOfProduct ==
  ASSUME NEW n \in Int, NEW k \in Nat
  PROVE  /\ n * k \in Int /\ k * n \in Int
         /\ n >= 0 => n * k >= 0 /\ k * n >= 0
         /\ n <= 0 => n * k <= 0 /\ k * n <= 0
OBVIOUS

(* Left of the line and turning left, the feedback pushes to the right, and *)
(* the other way round (compute_high_level_lateral).                        *)
LEMMA FeedbackOpposes ==
  ASSUME NEW lateral \in Int, NEW heading \in Int, NEW v \in Int
  PROVE  /\ LateralFeedback(lateral, heading, v) \in Int
         /\ lateral >= 0 /\ Sin(heading) >= 0 => LateralFeedback(lateral, heading, v) <= 0
         /\ lateral <= 0 /\ Sin(heading) <= 0 => LateralFeedback(lateral, heading, v) >= 0
<1>. DEFINE s == Sin(heading)
            rate == Quotient(v * s, 1000)
            n == -Lateral.omega2 * lateral - Lateral.twice_damping * rate
            raw == Quotient(n, 100)
            clamped == Clamp(raw, -Lateral.max_feedback_accel, Lateral.max_feedback_accel)
            fade == Fade(v, Lateral.min_speed)
            weight == (fade * fade) \div 1000
<1>1. /\ Lateral.omega2 \in Nat /\ Lateral.twice_damping \in Nat
      /\ Lateral.min_speed \in Nat \ {0} /\ Lateral.max_feedback_accel \in Nat
  BY LateralAssumption
<1>2. LateralFeedback(lateral, heading, v) = Quotient(clamped * weight, 1000)
  BY DEF LateralFeedback, Fade
<1>3. s \in Int /\ (Sin(heading) >= 0 => s >= 0) /\ (Sin(heading) <= 0 => s <= 0)
  BY SineIsTyped
<1>4. rate \in Int /\ (v >= 0 /\ s >= 0 => rate >= 0) /\ (v >= 0 /\ s <= 0 => rate <= 0)
  <2>. HIDE DEF s
  <2>1. v * s \in Int /\ (v >= 0 /\ s >= 0 => v * s >= 0) /\ (v >= 0 /\ s <= 0 => v * s <= 0)
    BY <1>3
  <2>. QED  BY <2>1, SignOfQuotient
<1>5. n \in Int /\ (lateral >= 0 /\ rate >= 0 => n <= 0) /\ (lateral <= 0 /\ rate <= 0 => n >= 0)
  <2>. HIDE DEF rate
  <2>1. -Lateral.omega2 * lateral = -(Lateral.omega2 * lateral)
    BY <1>1
  <2>2. /\ Lateral.omega2 * lateral \in Int
        /\ lateral >= 0 => Lateral.omega2 * lateral >= 0
        /\ lateral <= 0 => Lateral.omega2 * lateral <= 0
    BY <1>1, SignOfProduct
  <2>3. /\ Lateral.twice_damping * rate \in Int
        /\ rate >= 0 => Lateral.twice_damping * rate >= 0
        /\ rate <= 0 => Lateral.twice_damping * rate <= 0
    BY <1>1, <1>4, SignOfProduct
  <2>. QED  BY <1>4, <2>1, <2>2, <2>3
<1>6. raw \in Int /\ (n >= 0 => raw >= 0) /\ (n <= 0 => raw <= 0)
  <2>. HIDE DEF n
  <2>. QED  BY <1>5, SignOfQuotient
<1>7. clamped \in Int /\ (raw >= 0 => clamped >= 0) /\ (raw <= 0 => clamped <= 0)
  <2>. HIDE DEF raw
  <2>. QED  BY <1>1, <1>6 DEF Clamp
<1>8. fade \in Nat /\ (v <= 0 => fade = 0)
  BY <1>1, FadeIsAFactor
<1>9. weight \in Nat /\ (v <= 0 => weight = 0)
  <2>. HIDE DEF fade
  <2>1. fade * fade \in Nat /\ (fade = 0 => fade * fade = 0)
    BY <1>8
  <2>. QED  BY <1>8, <2>1
<1>. HIDE DEF s, rate, n, raw, clamped, fade, weight
<1>10. /\ clamped * weight \in Int
       /\ clamped >= 0 \/ v <= 0 => clamped * weight >= 0
       /\ clamped <= 0 \/ v <= 0 => clamped * weight <= 0
  <2>1. weight = 0 => clamped * weight = 0
    BY <1>7
  <2>. QED  BY <1>7, <1>9, <2>1, SignOfProduct
<1>11. /\ lateral >= 0 /\ Sin(heading) >= 0 => clamped <= 0 \/ v <= 0
       /\ lateral <= 0 /\ Sin(heading) <= 0 => clamped >= 0 \/ v <= 0
  BY <1>3, <1>4, <1>5, <1>6, <1>7
<1>. QED  BY <1>2, <1>10, <1>11, SignOfQuotient

LEMMA NoErrorNoFeedback ==
  ASSUME NEW v \in Int
  PROVE  LateralFeedback(0, 0, v) = 0
<1>1. PICK none \in Int : none = 0
  OBVIOUS
<1>2. Sin(none) = 0
  BY <1>1, SineSign, SineIsTyped
<1>3. LateralFeedback(none, none, v) \in Int
  BY <1>2, FeedbackOpposes
<1>4. LateralFeedback(none, none, v) <= 0
  BY <1>1, <1>2, FeedbackOpposes
<1>5. LateralFeedback(none, none, v) >= 0
  BY <1>1, <1>2, FeedbackOpposes
<1>. QED  BY <1>1, <1>3, <1>4, <1>5

LEMMA MaxOfTwo ==
  ASSUME NEW a \in Int, NEW b \in Int
  PROVE  Max({a, b}) \in Int /\ Max({a, b}) >= b /\ (b <= a => Max({a, b}) = a)
<1>1. \E x \in {a, b} : \A y \in {a, b} : x >= y
  OBVIOUS
<1>2. Max({a, b}) \in {a, b} /\ \A y \in {a, b} : Max({a, b}) >= y
  BY <1>1 DEF Max
<1>. QED  BY <1>2

(* The curvature asked for is at most that without an error.                *)
LEMMA CurvatureOpposes ==
  ASSUME NEW ref \in Int, NEW lateral \in Int, NEW heading \in Int, NEW v \in Int
  PROVE  /\ CurvatureCommand(ref, lateral, heading, v) \in Int
         /\ CurvatureCommand(ref, 0, 0, v) \in Int
         /\ lateral >= 0 /\ Sin(heading) >= 0 =>
              CurvatureCommand(ref, lateral, heading, v) <= CurvatureCommand(ref, 0, 0, v)
         /\ lateral <= 0 /\ Sin(heading) <= 0 =>
              CurvatureCommand(ref, lateral, heading, v) >= CurvatureCommand(ref, 0, 0, v)
<1>1. Lateral.min_speed \in Nat \ {0} /\ Lateral.max_curvature \in Nat
  BY LateralAssumption
<1>. DEFINE slow == Max({v, Lateral.min_speed})
            bent(f) == ref + Quotient(100000 * f, slow * slow)
            limit == Lateral.max_curvature
<1>2. slow * slow \in Nat \ {0}
  <2>1. slow \in Int /\ slow >= Lateral.min_speed
    BY <1>1, MaxOfTwo
  <2>. HIDE DEF slow
  <2>. QED  BY <1>1, <2>1
<1>3. limit \in Int /\ -limit \in Int /\ -limit <= limit
  BY <1>1
<1>4. ASSUME NEW l \in Int, NEW h \in Int
      PROVE  CurvatureCommand(ref, l, h, v) = Clamp(bent(LateralFeedback(l, h, v)), -limit, limit)
  BY DEF CurvatureCommand
<1>. HIDE DEF slow, limit
<1>5. ASSUME NEW f \in Int, NEW g \in Int, f <= g
      PROVE  bent(f) \in Int /\ bent(g) \in Int /\ bent(f) <= bent(g)
  <2>1. 100000 * f \in Int /\ 100000 * g \in Int /\ 100000 * f <= 100000 * g
    BY <1>5
  <2>2. /\ Quotient(100000 * f, slow * slow) \in Int
        /\ Quotient(100000 * g, slow * slow) \in Int
        /\ Quotient(100000 * f, slow * slow) <= Quotient(100000 * g, slow * slow)
    BY <2>1, <1>2, QuotientInOrder
  <2>. QED  BY <2>2
<1>. HIDE DEF bent
<1>. DEFINE f == LateralFeedback(lateral, heading, v)
            none == LateralFeedback(0, 0, v)
<1>6. /\ f \in Int /\ none = 0
      /\ lateral >= 0 /\ Sin(heading) >= 0 => f <= 0
      /\ lateral <= 0 /\ Sin(heading) <= 0 => f >= 0
  BY FeedbackOpposes, NoErrorNoFeedback
<1>60. 0 \in Int
  OBVIOUS
<1>7. /\ CurvatureCommand(ref, lateral, heading, v) = Clamp(bent(f), -limit, limit)
      /\ CurvatureCommand(ref, 0, 0, v) = Clamp(bent(none), -limit, limit)
  BY <1>4, <1>60, Zenon
<1>. HIDE DEF f, none
<1>8. bent(f) \in Int /\ bent(none) \in Int
  BY <1>5, <1>6
<1>9. f <= none => Clamp(bent(f), -limit, limit) <= Clamp(bent(none), -limit, limit)
  <2>1. f <= none => bent(f) <= bent(none)
    BY <1>5, <1>6
  <2>. QED  BY <1>3, <1>8, <2>1, ClampInOrder
<1>10. none <= f => Clamp(bent(none), -limit, limit) <= Clamp(bent(f), -limit, limit)
  <2>1. none <= f => bent(none) <= bent(f)
    BY <1>5, <1>6
  <2>. QED  BY <1>3, <1>8, <2>1, ClampInOrder
<1>12. Clamp(bent(f), -limit, limit) \in Int /\ Clamp(bent(none), -limit, limit) \in Int
  BY <1>3, <1>8 DEF Clamp
<1>. QED  BY <1>6, <1>7, <1>9, <1>10, <1>12

(* More curvature never turns the wheels less, at any speed and yaw rate    *)
(* (compute_low_level_steering).                                            *)
LEMMA SteersInOrder ==
  ASSUME NEW c \in Int, NEW d \in Int, NEW v \in Int, NEW yawRate \in Int, c <= d
  PROVE  /\ SteeringAngle(c, v, yawRate) \in Int /\ SteeringAngle(d, v, yawRate) \in Int
         /\ SteeringAngle(c, v, yawRate) <= SteeringAngle(d, v, yawRate)
<1>1. /\ Steering.wheelbase \in Nat /\ Steering.p_gain \in Nat
      /\ Steering.min_feedback_speed \in Nat \ {0} /\ Steering.max_steering \in Nat
  BY SteeringAssumption
<1>. DEFINE fade == Fade(v, Steering.min_feedback_speed)
            gain(k) == Quotient(Steering.p_gain * (Quotient(v * k, 100) - yawRate), 1000)
            feedback(k) == Quotient(gain(k) * fade, 1000)
            wheels(k) == Atan(Quotient(Steering.wheelbase * k, 100), 1000)
            raw(k) == wheels(k) + Quotient(feedback(k) * 1000, 17453)
<1>2. fade \in Nat /\ (v <= 0 => fade = 0)
  BY <1>1, FadeIsAFactor
<1>. HIDE DEF fade
<1>3. ASSUME NEW k \in Int PROVE gain(k) \in Int
  <2>1. v * k \in Int
    OBVIOUS
  <2>2. Quotient(v * k, 100) \in Int
    BY <2>1, SignOfQuotient
  <2>3. Steering.p_gain * (Quotient(v * k, 100) - yawRate) \in Int
    BY <1>1, <2>2
  <2>. QED  BY <2>3, SignOfQuotient
<1>4. v > 0 => gain(c) <= gain(d)
  <2>. SUFFICES ASSUME v > 0 PROVE gain(c) <= gain(d)
    OBVIOUS
  <2>1. v * c \in Int /\ v * d \in Int /\ v * c <= v * d
    BY TimesInOrder
  <2>. DEFINE p == v * c
              q == v * d
  <2>2. /\ Quotient(p, 100) \in Int /\ Quotient(q, 100) \in Int
        /\ Quotient(p, 100) <= Quotient(q, 100)
    <3>1. p \in Int /\ q \in Int /\ p <= q
      BY <2>1
    <3>. HIDE DEF p, q
    <3>. QED  BY <3>1, QuotientInOrder
  <2>3. /\ Steering.p_gain * (Quotient(v * c, 100) - yawRate) \in Int
        /\ Steering.p_gain * (Quotient(v * d, 100) - yawRate) \in Int
        /\ Steering.p_gain * (Quotient(v * c, 100) - yawRate)
             <= Steering.p_gain * (Quotient(v * d, 100) - yawRate)
    <3>1. Quotient(v * c, 100) - yawRate \in Int /\ Quotient(v * d, 100) - yawRate \in Int
          /\ Quotient(v * c, 100) - yawRate <= Quotient(v * d, 100) - yawRate
      BY <2>2
    <3>. QED  BY <1>1, <3>1, TimesInOrder
  <2>. QED  BY <2>3, QuotientInOrder
<1>. HIDE DEF gain
<1>5. gain(c) * fade \in Int /\ gain(d) * fade \in Int /\ gain(c) * fade <= gain(d) * fade
  <2>0. gain(c) \in Int /\ gain(d) \in Int
    BY <1>3
  <2>1. CASE v > 0
    BY <1>2, <1>4, <2>0, <2>1, TimesInOrder
  <2>2. CASE v <= 0
    <3>1. fade = 0
      BY <1>2, <2>2
    <3>2. gain(c) * 0 = 0 /\ gain(d) * 0 = 0
      BY <2>0
    <3>. QED  BY <3>1, <3>2
  <2>. QED  BY <2>1, <2>2
<1>6. feedback(c) \in Int /\ feedback(d) \in Int /\ feedback(c) <= feedback(d)
  BY <1>5, QuotientInOrder
<1>7. wheels(c) \in Int /\ wheels(d) \in Int /\ wheels(c) <= wheels(d)
  <2>1. Steering.wheelbase * c \in Int /\ Steering.wheelbase * d \in Int
        /\ Steering.wheelbase * c <= Steering.wheelbase * d
    BY <1>1, TimesInOrder
  <2>2. /\ Quotient(Steering.wheelbase * c, 100) \in Int
        /\ Quotient(Steering.wheelbase * d, 100) \in Int
        /\ Quotient(Steering.wheelbase * c, 100) <= Quotient(Steering.wheelbase * d, 100)
    BY <2>1, QuotientInOrder
  <2>. QED  BY <2>2, AtanInOrder
<1>. HIDE DEF feedback, wheels
<1>8. raw(c) \in Int /\ raw(d) \in Int /\ raw(c) <= raw(d)
  <2>1. feedback(c) * 1000 \in Int /\ feedback(d) * 1000 \in Int
        /\ feedback(c) * 1000 <= feedback(d) * 1000
    BY <1>6
  <2>2. /\ Quotient(feedback(c) * 1000, 17453) \in Int
        /\ Quotient(feedback(d) * 1000, 17453) \in Int
        /\ Quotient(feedback(c) * 1000, 17453) <= Quotient(feedback(d) * 1000, 17453)
    BY <2>1, QuotientInOrder
  <2>. QED  BY <1>7, <2>2
<1>9. ASSUME NEW k \in Int
      PROVE  SteeringAngle(k, v, yawRate) =
               Clamp(raw(k), -Steering.max_steering, Steering.max_steering)
  BY DEF SteeringAngle, feedback, wheels, gain, fade, Fade
<1>. HIDE DEF raw
<1>. DEFINE limit == Steering.max_steering
<1>10. limit \in Int /\ -limit \in Int /\ -limit <= limit
  BY <1>1
<1>11. /\ SteeringAngle(c, v, yawRate) = Clamp(raw(c), -limit, limit)
       /\ SteeringAngle(d, v, yawRate) = Clamp(raw(d), -limit, limit)
  BY <1>9
<1>. HIDE DEF limit
<1>12. Clamp(raw(c), -limit, limit) \in Int /\ Clamp(raw(d), -limit, limit) \in Int
  BY <1>8, <1>10 DEF Clamp
<1>13. Clamp(raw(c), -limit, limit) <= Clamp(raw(d), -limit, limit)
  BY <1>8, <1>10, ClampInOrder
<1>. QED  BY <1>11, <1>12, <1>13

-----------------------------------------------------------------------------
(* How much the laws answer                                                 *)

(* Division towards zero keeps a distance but for one.                      *)
LEMMA QuotientApart ==
  ASSUME NEW n \in Int, NEW m \in Int, NEW z \in Nat, NEW d \in {100, 1000, 17453},
         n + z <= m
  PROVE  Quotient(n, d) + z \div d - 1 <= Quotient(m, d)
<1>1. d = 100 \/ d = 1000 \/ d = 17453
  OBVIOUS
<1>2. CASE d = 100
  BY <1>2 DEF Quotient, Abs, Sign
<1>3. CASE d = 1000
  BY <1>3 DEF Quotient, Abs, Sign
<1>4. CASE d = 17453
  BY <1>4 DEF Quotient, Abs, Sign
<1>. QED  BY <1>1, <1>2, <1>3, <1>4

LEMMA QuotientOfMultiple ==
  ASSUME NEW n \in Int
  PROVE  Quotient(n * 1000, 1000) = n
BY DEF Quotient, Abs, Sign

LEMMA FullForce ==
  ASSUME NEW v \in Int, NEW full \in Nat \ {0}, v >= full
  PROVE  Fade(v, full) = 1000
<1>1. (1000 * full) \div full = 1000 /\ 1000 * full <= 1000 * v
  OBVIOUS
<1>2. (1000 * full) \div full <= (1000 * v) \div full
  <2>1. 1000 * full \in Int /\ 1000 * v \in Int
    OBVIOUS
  <2>. QED  BY <1>1, <2>1, DivideInOrder
<1>3. (1000 * v) \div full \in Int
  OBVIOUS
<1>. QED  BY <1>1, <1>2, <1>3 DEF Fade, Clamp

(* The pull of a place, by the lateral error                                *)
PullOf(lateral) ==
  Min({(Lateral.omega2 * Abs(lateral)) \div 100, Lateral.max_feedback_accel})

LEMMA LeastOfTwo ==
  ASSUME NEW a \in Int, NEW b \in Int
  PROVE  Min({a, b}) \in {a, b} /\ Min({a, b}) <= a /\ Min({a, b}) <= b
<1>1. \E x \in {a, b} : \A y \in {a, b} : x <= y
  OBVIOUS
<1>2. Min({a, b}) \in {a, b} /\ \A y \in {a, b} : Min({a, b}) <= y
  BY <1>1 DEF Min
<1>. QED  BY <1>2

LEMMA PullIsTyped ==
  ASSUME NEW lateral \in Int
  PROVE  /\ Lateral.omega2 * Abs(lateral) \in Nat /\ PullOf(lateral) \in Nat
         /\ PullOf(lateral) <= (Lateral.omega2 * Abs(lateral)) \div 100
         /\ PullOf(lateral) <= Lateral.max_feedback_accel
<1>1. Lateral.omega2 \in Nat /\ Lateral.max_feedback_accel \in Nat /\ Abs(lateral) \in Nat
  BY LateralAssumption DEF Abs
<1>2. PICK place \in Nat : place = Lateral.omega2 * Abs(lateral)
  BY <1>1
<1>3. PICK m \in Nat : m = place \div 100
  BY <1>2
<1>4. PullOf(lateral) = Min({m, Lateral.max_feedback_accel})
  BY <1>2, <1>3 DEF PullOf
<1>5. /\ Min({m, Lateral.max_feedback_accel}) \in {m, Lateral.max_feedback_accel}
      /\ Min({m, Lateral.max_feedback_accel}) <= m
      /\ Min({m, Lateral.max_feedback_accel}) <= Lateral.max_feedback_accel
  BY <1>1, LeastOfTwo
<1>. QED  BY <1>1, <1>2, <1>3, <1>4, <1>5

(* Beyond the speed of full force a car that stays beside the line is pulled *)
(* back by what its place deserves, at least (compute_high_level_lateral).  *)
LEMMA FeedbackPulls ==
  ASSUME NEW lateral \in Int, NEW heading \in Int, NEW v \in Int, v >= Lateral.min_speed
  PROVE  LET f == LateralFeedback(lateral, heading, v)
         IN /\ f \in Int
            /\ f >= -Lateral.max_feedback_accel /\ f <= Lateral.max_feedback_accel
            /\ lateral >= 0 /\ Sin(heading) >= 0 => f <= -PullOf(lateral)
            /\ lateral <= 0 /\ Sin(heading) <= 0 => f >= PullOf(lateral)
<1>. DEFINE s == Sin(heading)
            rate == Quotient(v * s, 1000)
            place == Lateral.omega2 * Abs(lateral)
            most == Lateral.max_feedback_accel
            n == -Lateral.omega2 * lateral - Lateral.twice_damping * rate
            raw == Quotient(n, 100)
            clamped == Clamp(raw, -most, most)
            fade == Fade(v, Lateral.min_speed)
<1>1. /\ Lateral.omega2 \in Nat /\ Lateral.twice_damping \in Nat
      /\ Lateral.min_speed \in Nat \ {0} /\ most \in Nat
  BY LateralAssumption
<1>2. LateralFeedback(lateral, heading, v) = Quotient(clamped * ((fade * fade) \div 1000), 1000)
  BY DEF LateralFeedback, Fade
<1>3. fade = 1000
  BY <1>1, FullForce
<1>4. s \in Int /\ (Sin(heading) >= 0 => s >= 0) /\ (Sin(heading) <= 0 => s <= 0)
  BY SineIsTyped
<1>5. place \in Nat /\ place \div 100 \in Nat
  <2>1. Abs(lateral) \in Nat
    BY DEF Abs
  <2>2. place \in Nat
    BY <1>1, <2>1
  <2>. QED  BY <2>2
<1>6. PICK pull \in Nat :
        pull = PullOf(lateral) /\ pull <= place \div 100 /\ pull <= most
  BY PullIsTyped
<1>7. rate \in Int /\ (s >= 0 => rate >= 0) /\ (s <= 0 => rate <= 0)
  <2>. HIDE DEF s
  <2>1. v * s \in Int /\ (s >= 0 => v * s >= 0) /\ (s <= 0 => v * s <= 0)
    BY <1>1, <1>4, SignOfProduct
  <2>. QED  BY <2>1, SignOfQuotient
<1>8. /\ n \in Int
      /\ lateral >= 0 /\ rate >= 0 => n <= -place
      /\ lateral <= 0 /\ rate <= 0 => n >= place
  <2>. HIDE DEF rate
  <2>1. -Lateral.omega2 * lateral = -(Lateral.omega2 * lateral)
    BY <1>1
  <2>2. /\ Lateral.omega2 * lateral \in Int
        /\ lateral >= 0 => place = Lateral.omega2 * lateral
        /\ lateral <= 0 => place = -(Lateral.omega2 * lateral)
    <3>1. Lateral.omega2 * lateral \in Int
      BY <1>1
    <3>2. lateral >= 0 => Abs(lateral) = lateral
      BY DEF Abs
    <3>3. lateral <= 0 => Abs(lateral) = -lateral
      BY DEF Abs
    <3>4. Lateral.omega2 * (-lateral) = -(Lateral.omega2 * lateral)
      BY <1>1
    <3>. QED  BY <3>1, <3>2, <3>3, <3>4
  <2>3. /\ Lateral.twice_damping * rate \in Int
        /\ rate >= 0 => Lateral.twice_damping * rate >= 0
        /\ rate <= 0 => Lateral.twice_damping * rate <= 0
    BY <1>1, <1>7, SignOfProduct
  <2>. HIDE DEF place
  <2>. QED  BY <1>5, <2>1, <2>2, <2>3
<1>9. /\ raw \in Int
      /\ n <= -place => raw <= -(place \div 100)
      /\ n >= place => raw >= place \div 100
  <2>. HIDE DEF n, place
  <2>1. Quotient(place, 100) = place \div 100 /\ Quotient(-place, 100) = -(place \div 100)
    BY <1>5 DEF Quotient, Abs, Sign
  <2>2. raw \in Int
    BY <1>8, SignOfQuotient
  <2>3. n <= -place => raw <= Quotient(-place, 100)
    BY <1>5, <1>8, QuotientInOrder
  <2>4. place <= n => Quotient(place, 100) <= raw
    BY <1>5, <1>8, QuotientInOrder
  <2>. QED  BY <1>5, <1>8, <2>1, <2>2, <2>3, <2>4
<1>10. /\ clamped \in -most..most
       /\ raw <= -(place \div 100) => clamped <= -pull
       /\ raw >= place \div 100 => clamped >= pull
  <2>. HIDE DEF raw, place, most
  <2>. QED  BY <1>1, <1>5, <1>6, <1>9 DEF Clamp
<1>11. LateralFeedback(lateral, heading, v) = clamped
  <2>. HIDE DEF clamped, fade
  <2>1. (fade * fade) \div 1000 = 1000
    BY <1>3
  <2>2. clamped \in Int
    BY <1>1, <1>10
  <2>. QED  BY <1>2, <2>1, <2>2, QuotientOfMultiple
<1>. HIDE DEF s, rate, place, n, raw, clamped, fade
<1>. QED  BY <1>4, <1>6, <1>7, <1>8, <1>9, <1>10, <1>11

(* The curvature of a feedback f, and of a pull, at a speed with that square *)
TurnOf(f, square) == Quotient(100000 * f, square)
ReplyOf(pull, square) == (100000 * pull) \div square

(* Where the curvature limit is not in the way                              *)
LeavesRoom(ref, square) ==
  Abs(ref) + ReplyOf(Lateral.max_feedback_accel, square) <= Lateral.max_curvature

LEMMA ReplyIsTyped ==
  ASSUME NEW a \in Nat, NEW square \in Nat \ {0}
  PROVE  /\ ReplyOf(a, square) \in Nat
         /\ TurnOf(a, square) = ReplyOf(a, square)
         /\ TurnOf(-a, square) = -ReplyOf(a, square)
<1>1. 100000 * a \in Nat /\ 100000 * (-a) = -(100000 * a)
  BY SMT
<1>. DEFINE big == 100000 * a
<1>2. big \in Nat /\ 100000 * (-a) = -big
  BY <1>1, SMT
<1>. HIDE DEF big
<1>3. big \div square \in Nat /\ (big = 0 => big \div square = 0)
  BY <1>2
<1>4. Quotient(big, square) = big \div square /\ Quotient(-big, square) = -(big \div square)
  <2>1. Abs(square) = square /\ Sign(square) = 1
    BY DEF Abs, Sign
  <2>. QED  BY <1>2, <1>3, <2>1 DEF Quotient, Abs, Sign
<1>5. ReplyOf(a, square) = big \div square /\ TurnOf(a, square) = Quotient(big, square)
  BY SMT DEF ReplyOf, TurnOf, big
<1>6. TurnOf(-a, square) = Quotient(-big, square)
  BY <1>2, SMT DEF TurnOf
<1>. QED  BY <1>3, <1>4, <1>5, <1>6

LEMMA TurnsInOrder ==
  ASSUME NEW a \in Int, NEW b \in Int, NEW square \in Nat \ {0}, a <= b
  PROVE  /\ TurnOf(a, square) \in Int /\ TurnOf(b, square) \in Int
         /\ TurnOf(a, square) <= TurnOf(b, square)
<1>1. 100000 * a \in Int /\ 100000 * b \in Int /\ 100000 * a <= 100000 * b
  BY SMT
<1>. QED  BY <1>1, QuotientInOrder, SMT DEF TurnOf

(* A line that leaves room for the greatest feedback is bent as asked for.  *)
LEMMA BendsAsAsked ==
  ASSUME NEW ref \in Int, NEW limit \in Nat, NEW square \in Nat \ {0},
         NEW most \in Nat, NEW pull \in Nat, NEW f \in Int, -most <= f, f <= most,
         Abs(ref) + ReplyOf(most, square) <= limit
  PROVE  LET turn == TurnOf(f, square)
             reply == ReplyOf(pull, square)
         IN /\ ref + turn \in Int /\ reply \in Nat
            /\ Clamp(ref + turn, -limit, limit) = ref + turn
            /\ Clamp(ref, -limit, limit) = ref
            /\ f <= -pull => (ref + turn) + reply <= ref
            /\ f >= pull => ref + reply <= ref + turn
<1>1. /\ TurnOf(pull, square) = ReplyOf(pull, square) /\ ReplyOf(pull, square) \in Nat
      /\ TurnOf(-pull, square) = -ReplyOf(pull, square)
      /\ TurnOf(most, square) = ReplyOf(most, square) /\ ReplyOf(most, square) \in Nat
      /\ TurnOf(-most, square) = -ReplyOf(most, square)
  BY ReplyIsTyped
<1>2. -most \in Int /\ -pull \in Int /\ most \in Int /\ pull \in Int
  OBVIOUS
<1>3. /\ TurnOf(f, square) \in Int
      /\ TurnOf(-most, square) <= TurnOf(f, square) /\ TurnOf(f, square) <= TurnOf(most, square)
  BY <1>2, TurnsInOrder
<1>4. /\ f <= -pull => TurnOf(f, square) <= TurnOf(-pull, square)
      /\ pull <= f => TurnOf(pull, square) <= TurnOf(f, square)
  BY <1>2, TurnsInOrder
<1>5. /\ -limit <= ref + TurnOf(f, square) /\ ref + TurnOf(f, square) <= limit
      /\ -limit <= ref /\ ref <= limit
  BY <1>1, <1>3 DEF Abs
<1>6. /\ Clamp(ref + TurnOf(f, square), -limit, limit) = ref + TurnOf(f, square)
      /\ Clamp(ref, -limit, limit) = ref
  BY <1>3, <1>5 DEF Clamp
<1>. QED  BY <1>1, <1>2, <1>3, <1>4, <1>6

LEMMA CommandIsClamped ==
  ASSUME NEW ref \in Int, NEW l \in Int, NEW h \in Int, NEW v \in Int,
         v >= Lateral.min_speed
  PROVE  CurvatureCommand(ref, l, h, v)
           = Clamp(ref + TurnOf(LateralFeedback(l, h, v), v * v),
                   -Lateral.max_curvature, Lateral.max_curvature)
<1>1. Lateral.min_speed \in Int
  BY LateralAssumption
<1>. DEFINE slow == Max({v, Lateral.min_speed})
<1>2. slow = v
  BY <1>1, MaxOfTwo
<1>3. CurvatureCommand(ref, l, h, v)
        = Clamp(ref + TurnOf(LateralFeedback(l, h, v), slow * slow),
                -Lateral.max_curvature, Lateral.max_curvature)
  BY SMT DEF CurvatureCommand, TurnOf
<1>. HIDE DEF slow
<1>. QED  BY <1>2, <1>3

(* Away from its limit the curvature asked for answers the whole pull.      *)
LEMMA CurvaturePulls ==
  ASSUME NEW ref \in Int, NEW lateral \in Int, NEW heading \in Int, NEW v \in Int,
         v >= Lateral.min_speed, LeavesRoom(ref, v * v)
  PROVE  LET bend == CurvatureCommand(ref, lateral, heading, v)
             along == CurvatureCommand(ref, 0, 0, v)
             reply == ReplyOf(PullOf(lateral), v * v)
         IN /\ bend \in Int /\ along \in Int /\ reply \in Nat
            /\ lateral >= 0 /\ Sin(heading) >= 0 => bend + reply <= along
            /\ lateral <= 0 /\ Sin(heading) <= 0 => along + reply <= bend
<1>. DEFINE f == LateralFeedback(lateral, heading, v)
            pull == PullOf(lateral)
            limit == Lateral.max_curvature
            most == Lateral.max_feedback_accel
            square == v * v
<1>1. limit \in Nat /\ most \in Nat /\ square \in Nat \ {0} /\ pull \in Nat
  <2>1. limit \in Nat /\ most \in Nat /\ Lateral.min_speed \in Nat \ {0}
    BY LateralAssumption
  <2>. QED  BY <2>1, PullIsTyped
<1>2. /\ f \in Int /\ f >= -most /\ f <= most
      /\ lateral >= 0 /\ Sin(heading) >= 0 => f <= -pull
      /\ lateral <= 0 /\ Sin(heading) <= 0 => f >= pull
  BY FeedbackPulls
<1>3. /\ CurvatureCommand(ref, lateral, heading, v) = Clamp(ref + TurnOf(f, square), -limit, limit)
      /\ Abs(ref) + ReplyOf(most, square) <= limit
  BY CommandIsClamped DEF LeavesRoom
<1>4. CurvatureCommand(ref, 0, 0, v) = Clamp(ref, -limit, limit)
  <2>1. 0 \in Int
    OBVIOUS
  <2>2. CurvatureCommand(ref, 0, 0, v)
          = Clamp(ref + TurnOf(LateralFeedback(0, 0, v), square), -limit, limit)
    BY <2>1, CommandIsClamped
  <2>3. TurnOf(0, square) = 0
    <3>1. 100000 * 0 = 0
      BY SMT
    <3>. HIDE DEF square
    <3>. QED  BY <1>1, <3>1, QuotientOfNothing, SMT DEF TurnOf
  <2>4. LateralFeedback(0, 0, v) = 0 /\ ref + 0 = ref
    BY NoErrorNoFeedback
  <2>. HIDE DEF square, limit
  <2>. QED  BY <2>2, <2>3, <2>4, Zenon
<1>. HIDE DEF f, pull, limit, most, square
<1>5. /\ ref + TurnOf(f, square) \in Int /\ ReplyOf(pull, square) \in Nat
      /\ Clamp(ref + TurnOf(f, square), -limit, limit) = ref + TurnOf(f, square)
      /\ Clamp(ref, -limit, limit) = ref
      /\ f <= -pull => (ref + TurnOf(f, square)) + ReplyOf(pull, square) <= ref
      /\ f >= pull => ref + ReplyOf(pull, square) <= ref + TurnOf(f, square)
  BY <1>1, <1>2, <1>3, BendsAsAsked
<1>. QED  BY <1>2, <1>3, <1>4, <1>5, Zenon DEF pull, square

(* A yaw rate, in mrad/s, for which the wheels answer by 36 mrad            *)
TurnsWheels(rate) == Steering.p_gain * rate >= 36000

(* With the steering loop in full force, a difference of curvature that is  *)
(* worth 36 mrad of wheels turns them, unless they are at their stop        *)
(* (compute_low_level_steering).                                            *)
LEMMA SteersForMore ==
  ASSUME NEW c \in Int, NEW d \in Int, NEW v \in Int, NEW yawRate \in Int,
         NEW answer \in Nat, c + answer <= d, v >= Steering.min_feedback_speed,
         TurnsWheels((v * answer) \div 100 - 1),
         Abs(SteeringAngle(c, v, yawRate)) < Steering.max_steering
           \/ Abs(SteeringAngle(d, v, yawRate)) < Steering.max_steering
  PROVE  SteeringAngle(c, v, yawRate) < SteeringAngle(d, v, yawRate)
<1>1. /\ Steering.wheelbase \in Nat /\ Steering.p_gain \in Nat
      /\ Steering.min_feedback_speed \in Nat \ {0} /\ Steering.max_steering \in Nat
  BY SteeringAssumption
<1>. DEFINE fade == Fade(v, Steering.min_feedback_speed)
            error(k) == Quotient(v * k, 100) - yawRate
            gain(k) == Quotient(Steering.p_gain * error(k), 1000)
            feedback(k) == Quotient(gain(k) * fade, 1000)
            wheels(k) == Atan(Quotient(Steering.wheelbase * k, 100), 1000)
            raw(k) == wheels(k) + Quotient(feedback(k) * 1000, 17453)
            limit == Steering.max_steering
            more == (v * answer) \div 100 - 1
<1>2. ASSUME NEW k \in Int
      PROVE  SteeringAngle(k, v, yawRate) = Clamp(raw(k), -limit, limit)
  BY DEF SteeringAngle, Fade
<1>3. fade = 1000
  BY <1>1, FullForce
<1>4. v \in Nat /\ v * answer \in Nat /\ more \in Int /\ more >= -1
  <2>1. v \in Nat
    BY <1>1
  <2>2. v * answer \in Nat
    BY <2>1
  <2>. QED  BY <2>1, <2>2
<1>5. error(c) \in Int /\ error(d) \in Int /\ error(c) + more <= error(d)
  <2>1. v * c \in Int /\ v * d \in Int /\ v * c + v * answer <= v * d
    <3>1. (c + answer) * v <= d * v
      BY <1>4, TimesInOrder
    <3>2. (c + answer) * v = v * c + v * answer /\ d * v = v * d
      BY <1>4
    <3>3. v * c \in Int /\ v * d \in Int
      OBVIOUS
    <3>. QED  BY <1>4, <3>1, <3>2, <3>3
  <2>. DEFINE p == v * c
              q == v * d
              z == v * answer
  <2>2. p \in Int /\ q \in Int /\ z \in Nat /\ p + z <= q
    BY <1>4, <2>1
  <2>3. error(c) = Quotient(p, 100) - yawRate /\ error(d) = Quotient(q, 100) - yawRate
        /\ more = z \div 100 - 1
    OBVIOUS
  <2>. HIDE DEF p, q, z, error, more
  <2>4. Quotient(p, 100) + z \div 100 - 1 <= Quotient(q, 100)
    BY <2>2, QuotientApart
  <2>5. Quotient(p, 100) \in Int /\ Quotient(q, 100) \in Int
    BY <2>2, SignOfQuotient
  <2>6. z \div 100 \in Int
    BY <2>2
  <2>. QED  BY <2>3, <2>4, <2>5, <2>6
<1>6. gain(c) \in Int /\ gain(d) \in Int /\ gain(c) + 35 <= gain(d)
  <2>. DEFINE p == Steering.p_gain * error(c)
              q == Steering.p_gain * error(d)
  <2>1. p \in Int /\ q \in Int /\ p + 36000 <= q
    <3>. HIDE DEF error, more
    <3>1. (error(c) + more) * Steering.p_gain <= error(d) * Steering.p_gain
      BY <1>1, <1>4, <1>5, TimesInOrder
    <3>2. /\ (error(c) + more) * Steering.p_gain = p + Steering.p_gain * more
          /\ error(d) * Steering.p_gain = q
      BY <1>1, <1>4, <1>5
    <3>3. Steering.p_gain * more >= 36000
      BY SMT DEF more, TurnsWheels
    <3>4. p \in Int /\ q \in Int /\ Steering.p_gain * more \in Int
      BY <1>1, <1>4, <1>5
    <3>. HIDE DEF p, q
    <3>. QED  BY <3>1, <3>2, <3>3, <3>4, SMT
  <2>. HIDE DEF p, q, error
  <2>2. PICK z \in Nat : p + z <= q /\ z \div 1000 = 36
    <3>1. 36000 \in Nat /\ 36000 \div 1000 = 36
      BY SMT
    <3>. QED  BY <2>1, <3>1, SMT
  <2>3. Quotient(p, 1000) + z \div 1000 - 1 <= Quotient(q, 1000)
    <3>1. 1000 \in {100, 1000, 17453}
      BY SMT
    <3>. QED  BY <2>1, <2>2, <3>1, QuotientApart, SMT
  <2>4. Quotient(p, 1000) \in Int /\ Quotient(q, 1000) \in Int
    BY <2>1, SignOfQuotient
  <2>. QED  BY <2>2, <2>3, <2>4, SMT DEF p, q
<1>. HIDE DEF gain
<1>7. feedback(c) = gain(c) /\ feedback(d) = gain(d)
  <2>. HIDE DEF fade
  <2>. QED  BY <1>3, <1>6, QuotientOfMultiple
<1>. HIDE DEF feedback
<1>8. Quotient(feedback(c) * 1000, 17453) + 1 <= Quotient(feedback(d) * 1000, 17453)
  <2>. DEFINE p == feedback(c) * 1000
              q == feedback(d) * 1000
  <2>1. p \in Int /\ q \in Int /\ p + 35000 <= q
    BY <1>6, <1>7, SMT
  <2>. HIDE DEF p, q
  <2>2. PICK z \in Nat : p + z <= q /\ z \div 17453 = 2
    <3>1. 35000 \in Nat /\ 35000 \div 17453 = 2
      BY SMT
    <3>. QED  BY <2>1, <3>1, SMT
  <2>3. Quotient(p, 17453) + z \div 17453 - 1 <= Quotient(q, 17453)
    <3>1. 17453 \in {100, 1000, 17453}
      BY SMT
    <3>. QED  BY <2>1, <2>2, <3>1, QuotientApart, SMT
  <2>4. Quotient(p, 17453) \in Int /\ Quotient(q, 17453) \in Int
    BY <2>1, SignOfQuotient
  <2>. QED  BY <2>2, <2>3, <2>4, SMT DEF p, q
<1>9. wheels(c) \in Int /\ wheels(d) \in Int /\ wheels(c) <= wheels(d)
  <2>1. /\ Steering.wheelbase * c \in Int /\ Steering.wheelbase * d \in Int
        /\ Steering.wheelbase * c <= Steering.wheelbase * d
    BY <1>1, TimesInOrder
  <2>2. /\ Quotient(Steering.wheelbase * c, 100) \in Int
        /\ Quotient(Steering.wheelbase * d, 100) \in Int
        /\ Quotient(Steering.wheelbase * c, 100) <= Quotient(Steering.wheelbase * d, 100)
    BY <2>1, QuotientInOrder
  <2>. QED  BY <2>2, AtanInOrder
<1>. HIDE DEF wheels
<1>10. raw(c) \in Int /\ raw(d) \in Int /\ raw(c) < raw(d)
  <2>1. feedback(c) * 1000 \in Int /\ feedback(d) * 1000 \in Int
    BY <1>6, <1>7
  <2>2. /\ Quotient(feedback(c) * 1000, 17453) \in Int
        /\ Quotient(feedback(d) * 1000, 17453) \in Int
    BY <2>1, SignOfQuotient
  <2>. QED  BY <1>8, <1>9, <2>2, SMT
<1>11. /\ SteeringAngle(c, v, yawRate) = Clamp(raw(c), -limit, limit)
       /\ SteeringAngle(d, v, yawRate) = Clamp(raw(d), -limit, limit)
  BY <1>2
<1>12. limit \in Nat /\ (\/ Abs(SteeringAngle(c, v, yawRate)) < limit
                         \/ Abs(SteeringAngle(d, v, yawRate)) < limit)
  BY <1>1
<1>. HIDE DEF raw, limit
<1>. QED  BY <1>10, <1>11, <1>12 DEF Clamp, Abs

-----------------------------------------------------------------------------
(* The line and the car's place beside it                                   *)

LinePoint == [x: Int, y: Int, yaw: Int, curvature: Int, speed: Int, accel: Int]

(* nearest_point finds a point of the line: there is a least distance, and  *)
(* a first point that has it.                                               *)
LEMMA NearestIsOnTheLine ==
  ASSUME NEW car \in Cars, Line # << >>
  PROVE  NearestPoint(car) \in LinePoint
<1>1. /\ DOMAIN Line \subseteq Nat /\ DOMAIN Line # {}
      /\ \A i \in DOMAIN Line : Line[i] \in LinePoint
  <2>1. Line \in Seq(LinePoint)
    BY LineAssumption DEF LinePoint
  <2>2. Len(Line) \in Nat /\ DOMAIN Line = 1..Len(Line)
    BY <2>1
  <2>3. Len(Line) # 0
    BY <2>1
  <2>4. \A i \in 1..Len(Line) : Line[i] \in LinePoint
    BY <2>1
  <2>5. 1 \in 1..Len(Line)
    BY <2>2, <2>3
  <2>. QED  BY <2>2, <2>4, <2>5
<1>2. car.x \in Int /\ car.y \in Int
  BY CarsAssumption
<1>3. ASSUME NEW i \in DOMAIN Line PROVE Distance2(i, car) \in Nat
  <2>1. Line[i].x \in Int /\ Line[i].y \in Int
    BY <1>1 DEF LinePoint
  <2>2. PICK dx \in Int, dy \in Int : dx = Line[i].x - car.x /\ dy = Line[i].y - car.y
    BY <1>2, <2>1
  <2>3. dx * dx \in Nat /\ dy * dy \in Nat
    BY <2>2
  <2>4. Distance2(i, car) = dx * dx + dy * dy
    BY <2>2 DEF Distance2
  <2>. QED  BY <2>3, <2>4
<1>. DEFINE Distances == {Distance2(i, car) : i \in DOMAIN Line}
<1>4. PICK least \in Distances : \A d \in Distances : least <= d
  <2>1. Distances \subseteq Nat /\ Distances # {}
    BY <1>1, <1>3
  <2>. HIDE DEF Distances
  <2>. QED  BY <2>1, LeastElement
<1>. DEFINE Nearest == {i \in DOMAIN Line : Distance2(i, car) = least}
<1>5. PICK first \in Nearest : \A i \in Nearest : first <= i
  <2>1. Nearest \subseteq Nat /\ Nearest # {}
    BY <1>1, <1>4
  <2>. HIDE DEF Nearest
  <2>. QED  BY <2>1, LeastElement
<1>6. \E i \in DOMAIN Line :
        \A j \in DOMAIN Line : \/ Distance2(i, car) < Distance2(j, car)
                               \/ Distance2(i, car) = Distance2(j, car) /\ i <= j
  <2>1. first \in DOMAIN Line /\ Distance2(first, car) = least
    BY <1>5
  <2>2. ASSUME NEW j \in DOMAIN Line
        PROVE  \/ Distance2(first, car) < Distance2(j, car)
               \/ Distance2(first, car) = Distance2(j, car) /\ first <= j
    <3>1. least <= Distance2(j, car)
      BY <1>4
    <3>2. Distance2(j, car) = least => first <= j
      BY <1>5
    <3>3. Distance2(j, car) \in Nat /\ least \in Nat
      BY <1>3, <2>1
    <3>. QED  BY <2>1, <3>1, <3>2, <3>3
  <2>. QED  BY <2>1, <2>2, Zenon
<1>7. PICK k \in DOMAIN Line : NearestPoint(car) = Line[k]
  <2>. DEFINE First(i) == \A j \in DOMAIN Line :
                 \/ Distance2(i, car) < Distance2(j, car)
                 \/ Distance2(i, car) = Distance2(j, car) /\ i <= j
              c == CHOOSE i \in DOMAIN Line : First(i)
  <2>1. \E i \in DOMAIN Line : First(i)
    BY <1>6
  <2>2. NearestPoint(car) = Line[c]
    BY Zenon DEF NearestPoint
  <2>. HIDE DEF First
  <2>3. c \in DOMAIN Line
    BY <2>1
  <2>. QED  BY <2>2, <2>3
<1>. QED  BY <1>1, <1>7

LEMMA WrapIsTyped == ASSUME NEW a \in Int PROVE WrapAngle(a) \in -180..179
BY DEF WrapAngle

(* Turning the reference's heading error round gives the angle from the     *)
(* line's direction to the car's, and so the sign of its sine.              *)
LEMMA HeadingFromTheLine ==
  ASSUME NEW along \in Int, NEW yaw \in Int
  PROVE  LET h == WrapAngle(-WrapAngle(along - yaw))
         IN /\ h \in Int
            /\ (yaw - along) % 360 \in 0..180 => Sin(h) >= 0
            /\ (yaw - along) % 360 \in {0} \cup 180..359 => Sin(h) <= 0
<1>. DEFINE heading == WrapAngle(along - yaw)
            h == WrapAngle(-heading)
            t == (yaw - along) % 360
<1>1. PICK a \in Int : a = along - yaw
  OBVIOUS
<1>2. t \in 0..359 /\ t = (-a) % 360
  BY <1>1
<1>3. heading = IF t <= 180 THEN -t ELSE 360 - t
  <2>1. heading = ((a + 180) % 360) - 180
    BY <1>1 DEF WrapAngle
  <2>. QED  BY <1>2, <2>1
<1>. HIDE DEF t, heading
<1>4. h = IF t < 180 THEN t ELSE IF t = 180 THEN -180 ELSE t - 360
  <2>1. h = ((-heading + 180) % 360) - 180
    BY DEF WrapAngle
  <2>2. CASE t < 180
    <3>1. -heading + 180 = t + 180 /\ t + 180 \in 0..359
      BY <1>2, <1>3, <2>2
    <3>2. \A u \in 0..359 : u % 360 = u
      OBVIOUS
    <3>. QED  BY <1>2, <2>1, <2>2, <3>1, <3>2
  <2>3. CASE t = 180
    BY <1>3, <2>1, <2>3
  <2>4. CASE t > 180
    BY <1>2, <1>3, <2>1, <2>4
  <2>. QED  BY <1>2, <2>2, <2>3, <2>4
<1>5. h \in -180..179
  BY <1>2, <1>4
<1>. HIDE DEF h
<1>6. /\ h >= 0 => Sin(h) >= 0
      /\ h <= 0 => Sin(h) <= 0
      /\ h = -180 => Sin(h) = 0
  BY <1>5, SineSign
<1>7. (t \in 0..180 => h >= 0 \/ h = -180) /\ (t \in {0} \cup 180..359 => h <= 0)
  BY <1>2, <1>4
<1>8. (t \in 0..180 => Sin(h) >= 0) /\ (t \in {0} \cup 180..359 => Sin(h) <= 0)
  BY <1>6, <1>7
<1>. QED  BY <1>5, <1>8 DEF h, heading, t

(* reference_for_pose gives the controller the car's side of the line and   *)
(* its turn from it, with the signs of the geometry.                        *)
LEMMA ReferenceFits ==
  ASSUME NEW car \in Cars, Line # << >>,
         NEW p, p = NearestPoint(car), NEW ref, ref = ReferenceForPose(car)
  PROVE  /\ ref.lateral \in Int /\ HeadingOff(ref) \in Int
         /\ p.curvature \in Int /\ ref.curvature = p.curvature
         /\ Abs(ref.lateral) = Abs(LeftOf(p, car)) \div 1000
         /\ StaysLeft(p, car) => ref.lateral >= 0 /\ Sin(HeadingOff(ref)) >= 0
         /\ StaysRight(p, car) => ref.lateral <= 0 /\ Sin(HeadingOff(ref)) <= 0
<1>. DEFINE left == Cos(p.yaw) * (car.y - p.y) - Sin(p.yaw) * (car.x - p.x)
<1>1. p.x \in Int /\ p.y \in Int /\ p.yaw \in Int /\ p.curvature \in Int
  BY NearestIsOnTheLine DEF LinePoint
<1>2. car.x \in Int /\ car.y \in Int /\ car.yaw \in Int
  BY CarsAssumption
<1>3. /\ ref.lateral = Quotient(left, 1000)
      /\ ref.heading = WrapAngle(p.yaw - car.yaw)
      /\ ref.curvature = p.curvature
  BY DEF ReferenceForPose
<1>4. left \in Int /\ LeftOf(p, car) = left
  <2>1. Sin(p.yaw) \in Int /\ Cos(p.yaw) \in Int
    BY <1>1, SineIsTyped
  <2>2. car.y - p.y \in Int /\ car.x - p.x \in Int
    BY <1>1, <1>2
  <2>3. LeftOf(p, car) = left
    BY Zenon DEF LeftOf
  <2>4. \A i, j, k, l \in Int : i * j - k * l \in Int
    OBVIOUS
  <2>. QED  BY <2>1, <2>2, <2>3, <2>4
<1>. HIDE DEF left
<1>5. /\ ref.lateral \in Int
      /\ left >= 0 => ref.lateral >= 0
      /\ left <= 0 => ref.lateral <= 0
      /\ Abs(ref.lateral) = Abs(left) \div 1000
  <2>1. /\ Quotient(left, 1000) \in Int
        /\ left >= 0 => Quotient(left, 1000) >= 0
        /\ left <= 0 => Quotient(left, 1000) <= 0
    BY <1>4, SignOfQuotient
  <2>2. Abs(Quotient(left, 1000)) = Abs(left) \div 1000
    BY <1>4 DEF Quotient, Abs, Sign
  <2>. QED  BY <1>3, <2>1, <2>2
<1>6. PICK t : t = (car.yaw - p.yaw) % 360
  OBVIOUS
<1>7. /\ HeadingOff(ref) \in Int
      /\ t \in 0..180 => Sin(HeadingOff(ref)) >= 0
      /\ t \in {0} \cup 180..359 => Sin(HeadingOff(ref)) <= 0
  <2>1. HeadingOff(ref) = WrapAngle(-ref.heading)
    BY DEF HeadingOff
  <2>. DEFINE h == WrapAngle(-WrapAngle(p.yaw - car.yaw))
  <2>2. HeadingOff(ref) = h
    BY <1>3, <2>1
  <2>3. /\ h \in Int
        /\ (car.yaw - p.yaw) % 360 \in 0..180 => Sin(h) >= 0
        /\ (car.yaw - p.yaw) % 360 \in {0} \cup 180..359 => Sin(h) <= 0
    BY <1>1, <1>2, HeadingFromTheLine
  <2>. HIDE DEF h
  <2>. QED  BY <1>6, <2>2, <2>3, Zenon
<1>8. StaysLeft(p, car) => left >= 0 /\ t \in 0..180
  BY <1>4, <1>6, Zenon DEF StaysLeft, TurnedFrom
<1>9. StaysRight(p, car) => left <= 0 /\ t \in {0} \cup 180..359
  BY <1>4, <1>6, Zenon DEF StaysRight, TurnedFrom
<1>10. Abs(ref.lateral) = Abs(LeftOf(p, car)) \div 1000
  BY <1>4, <1>5, Zenon
<1>. QED  BY <1>1, <1>3, <1>5, <1>7, <1>8, <1>9, <1>10, Zenon

(* Beside the line and not heading for it, the wheels are turned at least   *)
(* as far back as those of a car that is on the line.                       *)
LEMMA SteersBack ==
  ASSUME NEW car \in Cars, Line # << >>, NEW p, p = NearestPoint(car)
  PROVE  LET steering == RaceLineCommand(ReferenceForPose(car), car.v, car.yaw_rate).steering
         IN /\ StaysLeft(p, car) => steering <= Along(car)
            /\ StaysRight(p, car) => steering >= Along(car)
<1>1. car.v \in Int /\ car.yaw_rate \in Int
  BY CarsAssumption
<1>2. PICK ref : ref = ReferenceForPose(car)
  OBVIOUS
<1>. DEFINE bend == CurvatureCommand(ref.curvature, ref.lateral, HeadingOff(ref), car.v)
            along == CurvatureCommand(ref.curvature, 0, 0, car.v)
<1>3. /\ ref.lateral \in Int /\ HeadingOff(ref) \in Int /\ ref.curvature \in Int
      /\ ref.curvature = p.curvature
      /\ StaysLeft(p, car) => ref.lateral >= 0 /\ Sin(HeadingOff(ref)) >= 0
      /\ StaysRight(p, car) => ref.lateral <= 0 /\ Sin(HeadingOff(ref)) <= 0
  BY <1>2, ReferenceFits, SMT
<1>4. /\ RaceLineCommand(ref, car.v, car.yaw_rate).steering
           = SteeringAngle(bend, car.v, car.yaw_rate)
      /\ Along(car) = SteeringAngle(along, car.v, car.yaw_rate)
  BY <1>3 DEF RaceLineCommand, Along
<1>5. /\ bend \in Int /\ along \in Int
      /\ StaysLeft(p, car) => bend <= along
      /\ StaysRight(p, car) => bend >= along
  BY <1>1, <1>3, CurvatureOpposes
<1>. HIDE DEF bend, along
<1>6. bend <= along => SteeringAngle(bend, car.v, car.yaw_rate)
                         <= SteeringAngle(along, car.v, car.yaw_rate)
  BY <1>1, <1>5, SteersInOrder
<1>7. along <= bend => SteeringAngle(along, car.v, car.yaw_rate)
                         <= SteeringAngle(bend, car.v, car.yaw_rate)
  BY <1>1, <1>5, SteersInOrder
<1>8. SteeringAngle(bend, car.v, car.yaw_rate) \in Int /\ SteeringAngle(along, car.v, car.yaw_rate) \in Int
  <2>1. bend <= bend /\ along <= along
    BY <1>5
  <2>. QED  BY <1>1, <1>5, <2>1, SteersInOrder
<1>. QED  BY <1>2, <1>4, <1>5, <1>6, <1>7, <1>8

(* Where the distance matters the wheels answer.                            *)
LEMMA SteersFirmly ==
  ASSUME NEW car \in Cars, Line # << >>, NEW p, p = NearestPoint(car)
  PROVE  LET steering == RaceLineCommand(ReferenceForPose(car), car.v, car.yaw_rate).steering
         IN Matters(p, car) =>
              /\ StaysLeft(p, car) => steering < Along(car)
              /\ StaysRight(p, car) => steering > Along(car)
<1>1. PICK v \in Int, yawRate \in Int : v = car.v /\ yawRate = car.yaw_rate
  BY CarsAssumption
<1>2. PICK ref : ref = ReferenceForPose(car)
  OBVIOUS
<1>3. /\ ref.lateral \in Int /\ HeadingOff(ref) \in Int /\ ref.curvature \in Int
      /\ ref.curvature = p.curvature
      /\ Abs(ref.lateral) = Abs(LeftOf(p, car)) \div 1000
      /\ StaysLeft(p, car) => ref.lateral >= 0 /\ Sin(HeadingOff(ref)) >= 0
      /\ StaysRight(p, car) => ref.lateral <= 0 /\ Sin(HeadingOff(ref)) <= 0
  BY <1>2, ReferenceFits, SMT
<1>11. PICK c \in Int, lateral \in Int, heading \in Int :
         /\ c = ref.curvature /\ lateral = ref.lateral /\ heading = HeadingOff(ref)
         /\ StaysLeft(p, car) => lateral >= 0 /\ Sin(heading) >= 0
         /\ StaysRight(p, car) => lateral <= 0 /\ Sin(heading) <= 0
  BY <1>3, Zenon
<1>. DEFINE bend == CurvatureCommand(c, lateral, heading, v)
            along == CurvatureCommand(c, 0, 0, v)
            reply == ReplyOf(PullOf(lateral), v * v)
<1>4. /\ RaceLineCommand(ref, v, yawRate).steering = SteeringAngle(bend, v, yawRate)
      /\ Along(car) = SteeringAngle(along, v, yawRate)
  BY <1>1, <1>3, <1>11 DEF RaceLineCommand, Along
<1>5. Matters(p, car) =>
        /\ v >= Lateral.min_speed /\ v >= Steering.min_feedback_speed
        /\ LeavesRoom(c, v * v)
        /\ TurnsWheels((v * reply) \div 100 - 1)
        /\ Abs(Along(car)) < Steering.max_steering
  <2>1. Pull(Abs(LeftOf(p, car))) = PullOf(lateral)
    <3>1. Abs(lateral) = Abs(LeftOf(p, car)) \div 1000
      BY <1>3, <1>11
    <3>. DEFINE far == Abs(LeftOf(p, car)) \div 1000
    <3>2. Pull(Abs(LeftOf(p, car)))
            = Min({(Lateral.omega2 * far) \div 100, Lateral.max_feedback_accel})
      BY DEF Pull
    <3>. HIDE DEF far
    <3>3. Abs(lateral) = far
      BY <3>1 DEF far
    <3>. QED  BY <3>2, <3>3 DEF PullOf
  <2>2. PullRate(Abs(LeftOf(p, car)), car.v) = (v * reply) \div 100
    <3>1. reply = (100000 * Pull(Abs(LeftOf(p, car)))) \div (car.v * car.v)
      BY <1>1, <2>1, SMT DEF ReplyOf
    <3>. HIDE DEF reply
    <3>. QED  BY <1>1, <3>1, SMT DEF PullRate
  <2>3. Matters(p, car) =>
          /\ v >= Lateral.min_speed /\ v >= Steering.min_feedback_speed
          /\ Abs(Along(car)) < Steering.max_steering
    BY <1>1, SMT DEF Matters
  <2>4. c = p.curvature
    BY <1>3, <1>11
  <2>5. Matters(p, car) => LeavesRoom(c, v * v)
    BY <1>1, <2>4, SMT DEF Matters, LeavesRoom, ReplyOf
  <2>. HIDE DEF reply
  <2>6. Matters(p, car) => TurnsWheels((v * reply) \div 100 - 1)
    BY <2>2, SMT DEF Matters, TurnsWheels
  <2>. QED  BY <2>3, <2>5, <2>6
<1>. SUFFICES ASSUME Matters(p, car)
     PROVE  /\ StaysLeft(p, car) => SteeringAngle(bend, v, yawRate) < SteeringAngle(along, v, yawRate)
            /\ StaysRight(p, car) => SteeringAngle(along, v, yawRate) < SteeringAngle(bend, v, yawRate)
  <2>. HIDE DEF bend, along
  <2>1. SteeringAngle(bend, v, yawRate) \in Int /\ SteeringAngle(along, v, yawRate) \in Int
    <3>1. bend \in Int /\ along \in Int
      BY CurvatureOpposes, Zenon DEF bend, along
    <3>2. bend <= bend /\ along <= along
      BY <3>1
    <3>. QED  BY <3>1, <3>2, SteersInOrder
  <2>. QED  BY <1>1, <1>2, <1>4, <2>1
<1>6. /\ bend \in Int /\ along \in Int /\ reply \in Nat
      /\ StaysLeft(p, car) => bend + reply <= along
      /\ StaysRight(p, car) => along + reply <= bend
  BY <1>5, <1>11, CurvaturePulls
<1>7. Abs(SteeringAngle(along, v, yawRate)) < Steering.max_steering
  BY <1>4, <1>5
<1>. HIDE DEF bend, along, reply
<1>8. CASE StaysLeft(p, car)
  BY <1>1, <1>5, <1>6, <1>7, <1>8, SteersForMore
<1>9. CASE StaysRight(p, car)
  BY <1>1, <1>5, <1>6, <1>7, <1>9, SteersForMore
<1>. QED  BY <1>8, <1>9

-----------------------------------------------------------------------------
(* The race line is driven by its controller from a car's own estimate, and *)
(* only if there is one.                                                    *)
DrivenFromTheLine ==
  driven.by = "raceline" =>
    /\ Line # << >>
    /\ driven.car \in Cars
    /\ driven.command = RaceLineCommand(ReferenceForPose(driven.car), driven.car.v,
                                        driven.car.yaw_rate)

LEMMA InitDriven == Init => DrivenFromTheLine
BY DEF Init, Undriven, DrivenFromTheLine

LEMMA StepKeepsDriven == DrivenFromTheLine /\ [Next]_vars => DrivenFromTheLine'
<1>. SUFFICES ASSUME DrivenFromTheLine, [Next]_vars PROVE DrivenFromTheLine'
  OBVIOUS
<1>1. CASE UNCHANGED driven
  BY <1>1 DEF DrivenFromTheLine
<1>2. CASE Step
  <2>1. PICK car \in Cars : DriveReactive(car) \/ DriveRaceLine(car)
    BY <1>2 DEF Step
  <2>2. CASE DriveReactive(car)
    <3>1. driven'.by = "reactive"
      BY <2>2 DEF DriveReactive
    <3>. QED  BY <3>1 DEF DrivenFromTheLine
  <2>3. CASE DriveRaceLine(car)
    <3>1. /\ Line # << >> /\ driven'.car = car
          /\ driven'.command = RaceLineCommand(ReferenceForPose(car), car.v, car.yaw_rate)
      BY <2>3 DEF DriveRaceLine
    <3>. QED  BY <2>1, <3>1, Zenon DEF DrivenFromTheLine
  <2>. QED  BY <2>1, <2>2, <2>3
<1>. QED  BY <1>1, <1>2 DEF Next, NewScan, Reset, vars

LEMMA DrivenTurnsBack == DrivenFromTheLine => TurnsBackToTheLine
<1>. SUFFICES ASSUME DrivenFromTheLine, driven.by = "raceline" PROVE TurnsBackToTheLine
  BY DEF TurnsBackToTheLine
<1>1. PICK car \in Cars :
        /\ Line # << >> /\ driven.car = car
        /\ driven.command = RaceLineCommand(ReferenceForPose(car), car.v, car.yaw_rate)
  BY Zenon DEF DrivenFromTheLine
<1>. QED  BY <1>1, SteersBack, SteersFirmly, Zenon DEF TurnsBackToTheLine

-----------------------------------------------------------------------------
(* Numbers of a finite set                                                  *)

LEMMA LeastOf ==
  ASSUME NEW D, IsFiniteSet(D), D # {}, NEW f \in [D -> Int]
  PROVE  \E i \in D : \A j \in D : f[i] <= f[j]
<1>. DEFINE Has(s) == \E i \in s : \A j \in s : f[i] <= f[j]
            Bad == {n \in Nat : \E s \in SUBSET D : s # {} /\ Cardinality(s) = n /\ ~ Has(s)}
<1>1. Bad = {}
  <2>. SUFFICES ASSUME Bad # {} PROVE FALSE
    OBVIOUS
  <2>1. PICK m \in Bad : \A k \in Bad : m <= k
    BY LeastElement
  <2>2. PICK s \in SUBSET D : s # {} /\ Cardinality(s) = m /\ ~ Has(s)
    BY <2>1
  <2>3. PICK x \in s : TRUE
    BY <2>2
  <2>4. s \ {x} # {}
    BY <2>2, <2>3
  <2>5. Cardinality(s \ {x}) = m - 1 /\ m \in Nat /\ m - 1 \in Nat
    <3>1. IsFiniteSet(s) /\ Cardinality(s) \in Nat /\ Cardinality(s \ {x}) \in Nat
      BY FS_Subset, FS_CardinalityType
    <3>2. Cardinality(s \ {x}) = Cardinality(s) - 1
      BY <3>1, FS_RemoveElement
    <3>. QED  BY <2>2, <3>1, <3>2
  <2>6. m - 1 \notin Bad
    <3>. HIDE DEF Bad
    <3>. QED  BY <2>1, <2>5
  <2>7. Has(s \ {x})
    BY <2>4, <2>5, <2>6
  <2>8. PICK y \in s \ {x} : \A j \in s \ {x} : f[y] <= f[j]
    BY <2>7
  <2>9. f[x] \in Int /\ \A j \in s : f[j] \in Int
    BY <2>2, <2>3
  <2>10. CASE f[x] <= f[y]
    <3>1. \A j \in s : f[x] <= f[j]
      BY <2>8, <2>9, <2>10
    <3>. QED  BY <2>2, <2>3, <3>1
  <2>11. CASE f[y] <= f[x]
    <3>1. \A j \in s : f[y] <= f[j]
      BY <2>8, <2>9, <2>11
    <3>. QED  BY <2>2, <2>8, <3>1
  <2>. QED  BY <2>8, <2>9, <2>10, <2>11
<1>2. Cardinality(D) \in Nat /\ Cardinality(D) \notin Bad
  BY <1>1, FS_CardinalityType
<1>. QED  BY <1>2

LEMMA GreatestOf ==
  ASSUME NEW D, IsFiniteSet(D), D # {}, NEW f \in [D -> Int]
  PROVE  \E i \in D : \A j \in D : f[j] <= f[i]
<1>. DEFINE g == [i \in D |-> - f[i]]
<1>1. g \in [D -> Int] /\ \A i \in D : g[i] = - f[i] /\ f[i] \in Int
  OBVIOUS
<1>. HIDE DEF g
<1>2. PICK i \in D : \A j \in D : g[i] <= g[j]
  BY <1>1, LeastOf
<1>. QED  BY <1>1, <1>2

LEMMA MinIsThere ==
  ASSUME NEW T, T \subseteq Int, IsFiniteSet(T), T # {}
  PROVE  Min(T) \in T /\ \A y \in T : Min(T) <= y
<1>. DEFINE f == [x \in T |-> x]
<1>1. f \in [T -> Int] /\ \A x \in T : f[x] = x
  OBVIOUS
<1>. HIDE DEF f
<1>2. PICK x \in T : \A y \in T : f[x] <= f[y]
  BY <1>1, LeastOf
<1>3. \A y \in T : x <= y
  BY <1>1, <1>2
<1>. QED  BY <1>3 DEF Min

LEMMA MaxIsThere ==
  ASSUME NEW T, T \subseteq Int, IsFiniteSet(T), T # {}
  PROVE  Max(T) \in T /\ \A y \in T : Max(T) >= y
<1>. DEFINE f == [x \in T |-> x]
<1>1. f \in [T -> Int] /\ \A x \in T : f[x] = x
  OBVIOUS
<1>. HIDE DEF f
<1>2. PICK x \in T : \A y \in T : f[y] <= f[x]
  BY <1>1, GreatestOf
<1>3. \A y \in T : x >= y
  BY <1>1, <1>2
<1>. QED  BY <1>3 DEF Max

(* The least and the greatest of the values of a function                   *)
LEMMA MinOfValues ==
  ASSUME NEW D, IsFiniteSet(D), D # {}, NEW f \in [D -> Int]
  PROVE  /\ \E i \in D : Min({f[j] : j \in D}) = f[i]
         /\ \A i \in D : Min({f[j] : j \in D}) <= f[i]
<1>. DEFINE T == {f[j] : j \in D}
<1>1. PICK i \in D : \A j \in D : f[i] <= f[j]
  BY LeastOf
<1>2. f[i] \in T /\ \A y \in T : f[i] <= y
  BY <1>1
<1>3. Min(T) \in T /\ \A y \in T : Min(T) <= y
  <2>. HIDE DEF T
  <2>. QED  BY <1>2 DEF Min
<1>. QED  BY <1>3

LEMMA MaxOfValues ==
  ASSUME NEW D, IsFiniteSet(D), D # {}, NEW f \in [D -> Int]
  PROVE  \E i \in D : Max({f[j] : j \in D}) = f[i]
<1>. DEFINE T == {f[j] : j \in D}
<1>1. PICK i \in D : \A j \in D : f[j] <= f[i]
  BY GreatestOf
<1>2. f[i] \in T /\ \A y \in T : f[i] >= y
  BY <1>1
<1>3. Max(T) \in T
  <2>. HIDE DEF T
  <2>. QED  BY <1>2 DEF Max
<1>. QED  BY <1>3

(* NthOf finds the value that it is to find.                                *)
LEMMA NthIsThere ==
  ASSUME NEW D, IsFiniteSet(D), NEW f \in [D -> Int], NEW k \in Nat, k < Cardinality(D)
  PROVE  \E i \in D : NthOf(f, k) = f[i]
<1>. DEFINE UpTo(v) == {i \in D : f[i] <= v}
            Below(v) == {i \in D : f[i] < v}
            Enough == {i \in D : Cardinality(UpTo(f[i])) > k}
<1>1. \A i \in D : f[i] \in Int
  OBVIOUS
<1>2. \A v : /\ IsFiniteSet(UpTo(v)) /\ Cardinality(UpTo(v)) \in Nat
             /\ IsFiniteSet(Below(v)) /\ Cardinality(Below(v)) \in Nat
  BY FS_Subset, FS_CardinalityType
<1>3. D # {} /\ Cardinality(D) \in Nat
  BY FS_EmptySet, FS_CardinalityType
<1>4. Enough # {} /\ IsFiniteSet(Enough)
  <2>1. PICK i \in D : \A j \in D : f[j] <= f[i]
    BY <1>3, GreatestOf
  <2>2. UpTo(f[i]) = D
    BY <2>1
  <2>3. i \in Enough
    BY <2>2
  <2>4. IsFiniteSet(Enough)
    BY FS_Subset
  <2>. QED  BY <2>3, <2>4
<1>5. PICK i \in Enough : \A j \in Enough : f[i] <= f[j]
  <2>. DEFINE g == [j \in Enough |-> f[j]]
  <2>1. g \in [Enough -> Int] /\ \A j \in Enough : g[j] = f[j]
    OBVIOUS
  <2>. HIDE DEF g, Enough
  <2>2. \E e \in Enough : \A j \in Enough : g[e] <= g[j]
    BY <1>4, <2>1, LeastOf
  <2>. QED  BY <2>1, <2>2
<1>6. i \in D /\ f[i] \in Int /\ Cardinality(UpTo(f[i])) > k
  BY <1>1, <1>5
<1>7. Cardinality(Below(f[i])) <= k
  <2>1. CASE Below(f[i]) = {}
    <3>1. Cardinality(Below(f[i])) = 0
      BY <2>1, FS_EmptySet
    <3>. QED  BY <3>1
  <2>2. CASE Below(f[i]) # {}
    <3>. DEFINE B == Below(f[i])
                g == [j \in B |-> f[j]]
    <3>1. g \in [B -> Int] /\ (\A j \in B : g[j] = f[j]) /\ IsFiniteSet(B) /\ B # {}
      BY <1>2, <2>2
    <3>2. B = {j \in D : f[j] < f[i]}
      OBVIOUS
    <3>. HIDE DEF g, B
    <3>3. PICK j \in B : \A l \in B : g[l] <= g[j]
      BY <3>1, GreatestOf
    <3>4. j \in D /\ f[j] < f[i] /\ f[j] \in Int /\ \A l \in B : f[l] <= f[j]
      BY <1>1, <3>1, <3>2, <3>3
    <3>5. UpTo(f[j]) = B
      BY <1>1, <1>6, <3>2, <3>4
    <3>6. j \notin Enough
      BY <1>5, <1>6, <3>4
    <3>7. ~ (Cardinality(UpTo(f[j])) > k)
      BY <3>4, <3>6
    <3>8. Cardinality(UpTo(f[j])) \in Nat
      BY <1>2
    <3>9. Cardinality(B) <= k
      <4>. HIDE DEF UpTo
      <4>. QED  BY <3>5, <3>7, <3>8
    <3>. QED  BY <3>9 DEF B
  <2>. QED  BY <2>1, <2>2
<1>. DEFINE T == {f[j] : j \in DOMAIN f}
<1>8. \E v \in T : Cardinality({j \in DOMAIN f : f[j] < v}) <= k
                   /\ Cardinality({j \in DOMAIN f : f[j] <= v}) > k
  <2>1. DOMAIN f = D /\ f[i] \in T
    BY <1>6
  <2>. QED  BY <1>6, <1>7, <2>1
<1>9. NthOf(f, k) \in T
  <2>. HIDE DEF T
  <2>. QED  BY <1>8 DEF NthOf, T
<1>. QED  BY <1>9

-----------------------------------------------------------------------------
(* Sums                                                                     *)

(* g gives every set of D the sum of f over it.                             *)
Adds(f, D, g) ==
  g = [s \in D |-> IF s = {} THEN 0
                   ELSE f[CHOOSE x \in s : TRUE] + g[s \ {CHOOSE x \in s : TRUE}]]

LEMMA SumsExist ==
  ASSUME NEW S, IsFiniteSet(S), NEW f
  PROVE  \E g : Adds(f, SUBSET S, g)
<1>. DEFINE D(n) == {t \in SUBSET S : Cardinality(t) <= n}
            Bad == {n \in Nat : ~ \E g : Adds(f, D(n), g)}
<1>1. 0 \notin Bad
  <2>1. \A t \in D(0) : t = {}
    <3>. SUFFICES ASSUME NEW t \in D(0) PROVE t = {}
      OBVIOUS
    <3>1. IsFiniteSet(t) /\ Cardinality(t) \in Nat /\ Cardinality(t) <= 0
      BY FS_Subset, FS_CardinalityType
    <3>. QED  BY <3>1, FS_EmptySet
  <2>2. Adds(f, D(0), [t \in D(0) |-> 0])
    BY <2>1 DEF Adds
  <2>. QED  BY <2>2
<1>2. ASSUME NEW n \in Nat, n \notin Bad PROVE n + 1 \notin Bad
  <2>1. PICK g : Adds(f, D(n), g)
    BY <1>2
  <2>. DEFINE Pick(s) == CHOOSE x \in s : TRUE
              h == [s \in D(n + 1) |-> IF s = {} THEN 0 ELSE f[Pick(s)] + g[s \ {Pick(s)}]]
  <2>2. ASSUME NEW s \in D(n + 1), s # {}
        PROVE  s \ {Pick(s)} \in D(n) /\ s \ {Pick(s)} \in D(n + 1)
    <3>1. Pick(s) \in s
      BY <2>2
    <3>2. IsFiniteSet(s) /\ Cardinality(s) \in Nat /\ Cardinality(s) <= n + 1
      BY FS_Subset, FS_CardinalityType
    <3>3. Cardinality(s \ {Pick(s)}) = Cardinality(s) - 1
      BY <3>1, <3>2, FS_RemoveElement
    <3>. QED  BY <3>2, <3>3
  <2>3. ASSUME NEW s \in D(n), s \in D(n + 1) PROVE h[s] = g[s]
    BY <2>1, <2>3 DEF Adds
  <2>. HIDE DEF D
  <2>4. ASSUME NEW s \in D(n + 1), s # {}
        PROVE  h[s] = f[Pick(s)] + h[s \ {Pick(s)}]
    <3>1. h[s \ {Pick(s)}] = g[s \ {Pick(s)}]
      BY <2>2, <2>3, <2>4
    <3>. QED  BY <2>4, <3>1
  <2>5. Adds(f, D(n + 1), h)
    <3>1. ASSUME NEW s \in D(n + 1)
          PROVE  h[s] = IF s = {} THEN 0 ELSE f[Pick(s)] + h[s \ {Pick(s)}]
      BY <2>4
    <3>2. h = [s \in D(n + 1) |-> h[s]]
      OBVIOUS
    <3>. HIDE DEF h
    <3>. QED  BY <3>1, <3>2 DEF Adds
  <2>. QED  BY <2>5
<1>3. Bad = {}
  <2>. SUFFICES ASSUME Bad # {} PROVE FALSE
    OBVIOUS
  <2>. HIDE DEF D
  <2>1. PICK m \in Bad : \A k \in Bad : m <= k
    BY LeastElement
  <2>2. m \in Nat /\ m # 0 /\ m - 1 \in Nat /\ m - 1 \notin Bad
    <3>1. m \in Nat /\ m # 0
      BY <1>1
    <3>. HIDE DEF Bad
    <3>. QED  BY <2>1, <3>1
  <2>3. m - 1 + 1 = m
    BY <2>2
  <2>. QED  BY <1>2, <2>2, <2>3
<1>4. D(Cardinality(S)) = SUBSET S /\ Cardinality(S) \in Nat
  BY FS_Subset, FS_CardinalityType
<1>. HIDE DEF D
<1>5. PICK g : Adds(f, D(Cardinality(S)), g)
  BY <1>3, <1>4
<1>. QED  BY <1>4, <1>5

(* A sum of numbers is one, and at least each of them if none is negative.  *)
LEMMA SumIsTyped ==
  ASSUME NEW S, IsFiniteSet(S), NEW f \in [S -> Int]
  PROVE  /\ SumFunction(f) \in Int
         /\ (\A i \in S : f[i] >= 0) => \A i \in S : SumFunction(f) >= f[i]
<1>. DEFINE g == CHOOSE h : Adds(f, SUBSET S, h)
            Sums(s) == /\ g[s] \in Int
                       /\ (\A i \in S : f[i] >= 0) => g[s] >= 0 /\ \A i \in s : g[s] >= f[i]
            Bad == {n \in Nat : \E s \in SUBSET S : Cardinality(s) = n /\ ~ Sums(s)}
<1>1. SumFunction(f) = g[S]
  BY DEF SumFunction, SumFunctionOnSet, FoldFunctionOnSet, MapThenFoldSet, Adds
<1>2. Adds(f, SUBSET S, g)
  BY SumsExist
<1>. HIDE DEF g
<1>3. ASSUME NEW s \in SUBSET S, \A t \in SUBSET S : Cardinality(t) < Cardinality(s) => Sums(t)
      PROVE  Sums(s)
  <2>1. CASE s = {}
    BY <1>2, <2>1 DEF Adds
  <2>2. CASE s # {}
    <3>. DEFINE x == CHOOSE y \in s : TRUE
    <3>1. x \in s
      BY <2>2
    <3>2. IsFiniteSet(s) /\ Cardinality(s) \in Nat
      BY FS_Subset, FS_CardinalityType
    <3>3. Cardinality(s \ {x}) = Cardinality(s) - 1
      BY <3>1, <3>2, FS_RemoveElement
    <3>4. g[s] = f[x] + g[s \ {x}]
      BY <1>2, <2>2 DEF Adds
    <3>. HIDE DEF x
    <3>5. s \ {x} \in SUBSET S /\ Cardinality(s \ {x}) < Cardinality(s)
      BY <3>2, <3>3
    <3>6. Sums(s \ {x})
      BY <1>3, <3>5
    <3>7. f[x] \in Int /\ x \in S
      BY <3>1
    <3>8. g[s] \in Int
      BY <3>4, <3>6, <3>7
    <3>9. ASSUME \A i \in S : f[i] >= 0
          PROVE  g[s] >= 0 /\ \A i \in s : g[s] >= f[i]
      <4>1. f[x] >= 0 /\ g[s \ {x}] \in Int /\ g[s \ {x}] >= 0
        BY <3>6, <3>7, <3>9
      <4>2. \A i \in s \ {x} : g[s \ {x}] >= f[i] /\ f[i] \in Int
        BY <3>6, <3>9
      <4>3. g[s] >= 0 /\ g[s] >= f[x] /\ g[s] >= g[s \ {x}]
        <5>1. \A a \in Int, b \in Int : a >= 0 /\ b >= 0 => a + b >= 0 /\ a + b >= a /\ a + b >= b
          OBVIOUS
        <5>. QED  BY <3>4, <3>7, <4>1, <5>1
      <4>4. ASSUME NEW i \in s PROVE g[s] >= f[i]
        <5>1. CASE i = x
          BY <4>3, <5>1
        <5>2. CASE i \in s \ {x}
          BY <3>8, <4>1, <4>2, <4>3, <5>2
        <5>. QED  BY <5>1, <5>2
      <4>. QED  BY <4>3, <4>4
    <3>. QED  BY <3>8, <3>9
  <2>. QED  BY <2>1, <2>2
<1>4. Bad = {}
  <2>. SUFFICES ASSUME Bad # {} PROVE FALSE
    OBVIOUS
  <2>. HIDE DEF Sums
  <2>1. PICK m \in Bad : \A k \in Bad : m <= k
    BY LeastElement
  <2>2. PICK s \in SUBSET S : Cardinality(s) = m /\ ~ Sums(s)
    OBVIOUS
  <2>3. ASSUME NEW t \in SUBSET S, Cardinality(t) < Cardinality(s), ~ Sums(t) PROVE FALSE
    <3>1. Cardinality(t) \in Nat /\ Cardinality(s) \in Nat
      BY FS_Subset, FS_CardinalityType
    <3>2. Cardinality(t) \in Bad
      BY <2>3, <3>1
    <3>. HIDE DEF Bad
    <3>. QED  BY <2>1, <2>2, <2>3, <3>1, <3>2
  <2>4. \A t \in SUBSET S : Cardinality(t) < Cardinality(s) => Sums(t)
    BY <2>3
  <2>5. Sums(s)
    BY <1>3, <2>4
  <2>. QED  BY <2>2, <2>5
<1>5. S \in SUBSET S /\ Cardinality(S) \in Nat
  BY FS_CardinalityType
<1>6. Sums(S)
  <2>. HIDE DEF Sums
  <2>. QED  BY <1>4, <1>5
<1>. QED  BY <1>1, <1>6

-----------------------------------------------------------------------------
(* The usable points                                                        *)

Points == [angle : Int, dist : Int]
FrontPoints == [angle : -72..72, dist : Int]

LEMMA UsableIsFront ==
  ASSUME NEW pt \in Points, NEW lookahead, Usable(pt, lookahead)
  PROVE  pt \in FrontPoints
<1>1. pt.angle \in Int /\ pt.dist \in Int /\ pt = [angle |-> pt.angle, dist |-> pt.dist]
  BY DEF Points
<1>2. pt.angle \in -72..72
  BY <1>1 DEF Usable, InFront, FrontFov, Abs
<1>. QED  BY <1>1, <1>2 DEF FrontPoints

(* g holds the usable ones of the first n points of the scan, for n to m.   *)
Keeps(scan, lookahead, m, g) ==
  g = [n \in 0..m |->
         IF n = 0 THEN << >>
         ELSE IF Usable(scan[n], lookahead) THEN Append(g[n - 1], scan[n]) ELSE g[n - 1]]

LEMMA KeptExist ==
  ASSUME NEW scan, NEW lookahead, NEW m \in Nat
  PROVE  \E g : Keeps(scan, lookahead, m, g)
<1>. DEFINE Bad == {n \in Nat : ~ \E g : Keeps(scan, lookahead, n, g)}
<1>1. Keeps(scan, lookahead, 0, [n \in 0..0 |-> << >>])
  <2>. DEFINE g == [n \in 0..0 |-> << >>]
  <2>1. g = [n \in 0..0 |-> IF n = 0 THEN << >>
             ELSE IF Usable(scan[n], lookahead) THEN Append(g[n - 1], scan[n]) ELSE g[n - 1]]
    OBVIOUS
  <2>. QED  BY <2>1 DEF Keeps
<1>2. ASSUME NEW n \in Nat, NEW g, Keeps(scan, lookahead, n, g)
      PROVE  \E h : Keeps(scan, lookahead, n + 1, h)
  <2>. DEFINE last == IF Usable(scan[n + 1], lookahead) THEN Append(g[n], scan[n + 1]) ELSE g[n]
              h == [i \in 0..(n + 1) |-> IF i = n + 1 THEN last ELSE g[i]]
  <2>1. \A i \in 0..n : h[i] = g[i]
    OBVIOUS
  <2>2. \A i \in 0..n :
          g[i] = IF i = 0 THEN << >>
                 ELSE IF Usable(scan[i], lookahead) THEN Append(g[i - 1], scan[i]) ELSE g[i - 1]
    BY <1>2 DEF Keeps
  <2>3. h[n + 1] = last
    OBVIOUS
  <2>4. h = [i \in 0..(n + 1) |-> h[i]]
    OBVIOUS
  <2>. HIDE DEF h
  <2>5. ASSUME NEW i \in 0..(n + 1)
        PROVE  h[i] = IF i = 0 THEN << >>
                      ELSE IF Usable(scan[i], lookahead) THEN Append(h[i - 1], scan[i]) ELSE h[i - 1]
    <3>1. CASE i = n + 1
      <4>1. (n + 1) - 1 = n /\ n \in 0..n /\ n + 1 # 0
        OBVIOUS
      <4>. QED  BY <2>1, <2>3, <3>1, <4>1
    <3>2. CASE i \in 0..n
      <4>1. CASE i = 0
        BY <2>1, <2>2, <3>2, <4>1
      <4>2. CASE i # 0
        <5>1. i - 1 \in 0..n
          BY <3>2, <4>2
        <5>. QED  BY <2>1, <2>2, <3>2, <4>2, <5>1
      <4>. QED  BY <4>1, <4>2
    <3>. QED  BY <3>1, <3>2
  <2>. QED  BY <2>4, <2>5 DEF Keeps
<1>3. Bad = {}
  <2>. SUFFICES ASSUME Bad # {} PROVE FALSE
    OBVIOUS
  <2>1. PICK b \in Bad : \A k \in Bad : b <= k
    BY LeastElement
  <2>2. b # 0
    BY <1>1, <2>1
  <2>3. b \in Nat /\ b - 1 \in Nat /\ (b - 1) + 1 = b
    BY <2>1, <2>2
  <2>4. b - 1 \notin Bad
    <3>. HIDE DEF Bad
    <3>. QED  BY <2>1, <2>3
  <2>. QED  BY <1>2, <2>1, <2>3, <2>4
<1>. QED  BY <1>3

LEMMA KeptIsTyped ==
  ASSUME NEW scan \in Seq(Points), NEW lookahead
  PROVE  Kept(scan, lookahead) \in Seq(FrontPoints)
<1>. DEFINE m == Len(scan)
            g == CHOOSE h : Keeps(scan, lookahead, m, h)
            Bad == {n \in 0..m : g[n] \notin Seq(FrontPoints)}
<1>1. m \in Nat /\ \A n \in 1..m : scan[n] \in Points
  <2>. HIDE DEF Points
  <2>. QED  OBVIOUS
<1>. HIDE DEF m
<1>2. Kept(scan, lookahead) = g[m]
  BY DEF Kept, Keeps, m
<1>3. Keeps(scan, lookahead, m, g)
  BY <1>1, KeptExist
<1>. HIDE DEF g
<1>4. \A n \in 0..m :
        g[n] = IF n = 0 THEN << >>
               ELSE IF Usable(scan[n], lookahead) THEN Append(g[n - 1], scan[n]) ELSE g[n - 1]
  BY <1>3 DEF Keeps
<1>5. Bad = {}
  <2>. SUFFICES ASSUME Bad # {} PROVE FALSE
    OBVIOUS
  <2>1. PICK b \in Bad : \A k \in Bad : b <= k
    <3>1. Bad \subseteq Nat
      BY <1>1
    <3>. HIDE DEF Bad
    <3>. QED  BY <3>1, LeastElement
  <2>2. b \in 0..m /\ b # 0
    <3>1. b \in 0..m /\ g[b] \notin Seq(FrontPoints)
      BY <2>1
    <3>2. 0 \in 0..m
      BY <1>1
    <3>3. g[0] = << >>
      BY <1>4, <3>2
    <3>4. << >> \in Seq(FrontPoints)
      OBVIOUS
    <3>. QED  BY <3>1, <3>3, <3>4
  <2>3. b \in 1..m /\ b - 1 \in 0..m /\ ~ (b <= b - 1)
    BY <1>1, <2>2
  <2>4. g[b - 1] \in Seq(FrontPoints)
    BY <2>1, <2>3
  <2>5. Usable(scan[b], lookahead) => Append(g[b - 1], scan[b]) \in Seq(FrontPoints)
    <3>1. Usable(scan[b], lookahead) => scan[b] \in FrontPoints
      BY <1>1, <2>3, UsableIsFront
    <3>. HIDE DEF FrontPoints
    <3>. QED  BY <2>4, <3>1
  <2>6. g[b] \in Seq(FrontPoints)
    BY <1>4, <2>2, <2>4, <2>5
  <2>. QED  BY <2>1, <2>6
<1>. QED  BY <1>1, <1>2, <1>5

-----------------------------------------------------------------------------
(* A scan                                                                   *)

LEMMA QuotientIsTyped ==
  ASSUME NEW v \in Int, NEW d \in Int, d # 0
  PROVE  Quotient(v, d) \in Int
<1>1. Abs(v) \in Nat /\ Abs(d) \in Nat \ {0} /\ Sign(v) \in {-1, 1} /\ Sign(d) \in {-1, 1}
  BY DEF Abs, Sign
<1>2. Abs(v) \div Abs(d) \in Nat
  <2>1. \A a \in Nat, b \in Nat \ {0} : a \div b \in Nat
    OBVIOUS
  <2>. QED  BY <1>1, <2>1
<1>3. \A q \in Nat, s \in {-1, 1}, t \in {-1, 1} : s * t * q \in Int
  OBVIOUS
<1>. QED  BY <1>1, <1>2, <1>3 DEF Quotient

LEMMA MinOfTwo ==
  ASSUME NEW a \in Int, NEW b \in Int
  PROVE  /\ Min({a, b}) \in Int /\ Min({a, b}) \in {a, b}
         /\ Min({a, b}) <= a /\ Min({a, b}) <= b
<1>1. \E x \in {a, b} : \A y \in {a, b} : x <= y
  OBVIOUS
<1>2. Min({a, b}) \in {a, b} /\ \A y \in {a, b} : Min({a, b}) <= y
  BY <1>1 DEF Min
<1>. QED  BY <1>2

LEMMA MaxIsOneOfTwo ==
  ASSUME NEW a \in Int, NEW b \in Int
  PROVE  Max({a, b}) \in {a, b} /\ Max({a, b}) >= a /\ Max({a, b}) >= b
<1>1. \E x \in {a, b} : \A y \in {a, b} : x >= y
  OBVIOUS
<1>. QED  BY <1>1 DEF Max

LEMMA FrontIsPoint ==
  ASSUME NEW pt \in FrontPoints
  PROVE  pt \in Points /\ pt.angle \in -72..72 /\ pt.angle \in Int /\ pt.dist \in Int
BY DEF FrontPoints, Points

LEMMA PolarIsFront ==
  ASSUME NEW dist \in Int, NEW angle \in -72..72
  PROVE  Polar(dist, angle) \in FrontPoints
BY DEF Polar, FrontPoints

LEMMA PolarIsPoint ==
  ASSUME NEW dist \in Int, NEW angle \in Int
  PROVE  Polar(dist, angle) \in Points
BY DEF Polar, Points

LEMMA SeqElement ==
  ASSUME NEW S, NEW s \in Seq(S)
  PROVE  Len(s) \in Nat /\ DOMAIN s = 1..Len(s) /\ \A i \in 1..Len(s) : s[i] \in S
OBVIOUS

LEMMA Part ==
  ASSUME NEW S, NEW s \in Seq(S), NEW a \in 1..Len(s) + 1, NEW b \in 0..Len(s)
  PROVE  /\ SubSeq(s, a, b) \in Seq(S)
         /\ Len(SubSeq(s, a, b)) = IF a <= b THEN (b - a) + 1 ELSE 0
<1>1. Len(s) \in Nat /\ a \in Int /\ b \in Int
  OBVIOUS
<1>2. \A i \in a..b : s[i] \in S
  BY <1>1
<1>. QED  BY <1>1, <1>2, SubSeqProperties

LEMMA MedianIsTyped ==
  ASSUME NEW points \in Seq(FrontPoints)
  PROVE  MedianFiltered(points) \in Seq(FrontPoints)
<1>. DEFINE n == Len(points)
            window == Min({Clamp(Apex.median_window, 1, 256), n})
            Around(i) == [j \in 0..(window - 1) |->
                            points[((i - 1 + n + j - (window \div 2)) % n) + 1].dist]
            Median(i) == NthOf(Around(i), window \div 2)
            s == [i \in DOMAIN points |-> Polar(Median(i), points[i].angle)]
<1>1. n \in Nat /\ DOMAIN points = 1..n /\ \A i \in 1..n : points[i] \in FrontPoints
  BY SeqElement
<1>2. MedianFiltered(points) = SubSeq(s, 1, n)
  BY DEF MedianFiltered
<1>. HIDE DEF n
<1>3. ASSUME NEW i \in 1..n PROVE Median(i) \in Int
  <2>1. window \in 1..n
    <3>1. \A w \in Int : Clamp(w, 1, 256) \in 1..256
      BY DEF Clamp
    <3>. DEFINE c == Clamp(Apex.median_window, 1, 256)
    <3>2. c \in 1..256
      BY <3>1, ApexIsTyped
    <3>. HIDE DEF c
    <3>3. c \in Int /\ c >= 1 /\ n \in Int
      BY <1>1, <3>2
    <3>4. window \in {c, n} /\ window <= n
      <4>1. Min({c, n}) \in {c, n} /\ Min({c, n}) <= n
        BY <3>3, MinOfTwo
      <4>. QED  BY <4>1 DEF c
    <3>5. n >= 1
      BY <1>1
    <3>. HIDE DEF window
    <3>. QED  BY <1>1, <3>3, <3>4, <3>5
  <2>. HIDE DEF window
  <2>2. window \div 2 \in Nat /\ window \div 2 < window /\ window \in Nat /\ n \in Nat \ {0}
    BY <1>1, <2>1
  <2>3. ASSUME NEW j \in 0..(window - 1)
        PROVE  ((i - 1 + n + j - (window \div 2)) % n) + 1 \in 1..n
    <3>1. \A x \in Int, k \in Nat \ {0} : (x % k) + 1 \in 1..k
      OBVIOUS
    <3>2. i - 1 + n + j - (window \div 2) \in Int
      BY <2>2
    <3>. QED  BY <2>2, <3>1, <3>2
  <2>4. Around(i) \in [0..(window - 1) -> Int]
    <3>1. \A k \in 1..n : points[k].dist \in Int
      BY <1>1, FrontIsPoint
    <3>. QED  BY <2>3, <3>1
  <2>5. IsFiniteSet(0..(window - 1)) /\ Cardinality(0..(window - 1)) = window
    <3>1. window - 1 \in Int /\ 0 \in Int
      BY <2>2
    <3>2. IsFiniteSet(0..(window - 1))
            /\ Cardinality(0..(window - 1)) = IF 0 > window - 1 THEN 0 ELSE window - 1 - 0 + 1
      BY <3>1, FS_Interval
    <3>. QED  BY <2>1, <2>2, <3>2
  <2>. DEFINE f == Around(i)
              D == 0..(window - 1)
              k == window \div 2
  <2>6. IsFiniteSet(D) /\ f \in [D -> Int] /\ k \in Nat /\ k < Cardinality(D)
    BY <2>2, <2>4, <2>5
  <2>7. Median(i) = NthOf(f, k)
    OBVIOUS
  <2>. HIDE DEF f, D, k, Median
  <2>8. \E j \in D : NthOf(f, k) = f[j]
    BY <2>6, NthIsThere
  <2>. QED  BY <2>6, <2>7, <2>8
<1>. HIDE DEF Median
<1>4. s \in Seq(FrontPoints) /\ Len(s) = n
  <2>1. \A i \in 1..n : Polar(Median(i), points[i].angle) \in FrontPoints
    BY <1>1, <1>3, FrontIsPoint, PolarIsFront
  <2>2. s = [i \in 1..n |-> Polar(Median(i), points[i].angle)]
    BY <1>1
  <2>. HIDE DEF s
  <2>3. s \in [1..n -> FrontPoints]
    BY <2>1, <2>2
  <2>. HIDE DEF FrontPoints
  <2>. QED  BY <1>1, <2>3
<1>. HIDE DEF s
<1>5. 1 \in 1..Len(s) + 1 /\ n \in 0..Len(s)
  BY <1>1, <1>4
<1>. QED  BY <1>2, <1>4, <1>5, Part

LEMMA PreprocessIsTyped ==
  ASSUME NEW scan \in Seq(Points), NEW lookahead
  PROVE  Preprocess(scan, lookahead) \in Seq(FrontPoints)
BY KeptIsTyped, MedianIsTyped DEF Preprocess

-----------------------------------------------------------------------------
(* The apex                                                                 *)

LEMMA PairIsTyped ==
  ASSUME NEW points \in Seq(FrontPoints), NEW i \in Pairs(points)
  PROVE  /\ points[i] \in FrontPoints /\ points[i + 1] \in FrontPoints
         /\ Jump(points, i) \in Nat /\ Closest(points, i) \in Int
         /\ Derivative(points, i) \in Nat
<1>1. Len(points) \in Nat /\ i \in 1..Len(points) /\ i + 1 \in 1..Len(points)
  BY SeqElement DEF Pairs
<1>2. points[i] \in FrontPoints /\ points[i + 1] \in FrontPoints
  BY <1>1, SeqElement
<1>3. /\ points[i].dist \in Int /\ points[i + 1].dist \in Int
      /\ points[i].angle \in Int /\ points[i + 1].angle \in Int
  BY <1>2, FrontIsPoint
<1>4. Jump(points, i) \in Nat
  BY <1>3 DEF Jump, Abs
<1>5. Closest(points, i) \in Int
  BY <1>3, MinOfTwo DEF Closest
<1>6. Derivative(points, i) \in Nat
  <2>. DEFINE turn == Abs(AngleDiff(points[i + 1].angle, points[i].angle))
  <2>1. points[i + 1].angle - points[i].angle \in Int
    BY <1>3
  <2>2. AngleDiff(points[i + 1].angle, points[i].angle) \in Int
    <3>1. AngleDiff(points[i + 1].angle, points[i].angle)
            = WrapAngle(points[i + 1].angle - points[i].angle)
      BY Zenon DEF AngleDiff
    <3>2. WrapAngle(points[i + 1].angle - points[i].angle) \in -180..179
      BY <2>1, WrapIsTyped, Zenon
    <3>. QED  BY <3>1, <3>2
  <2>3. turn \in Nat
    BY <2>2 DEF Abs
  <2>. HIDE DEF turn
  <2>4. \A a \in Nat, b \in Nat \ {0} : (1000 * a) \div b \in Nat
    OBVIOUS
  <2>. QED  BY <1>4, <2>3, <2>4 DEF Derivative, turn
<1>. QED  BY <1>2, <1>4, <1>5, <1>6

LEMMA SteepestIsThere ==
  ASSUME NEW points \in Seq(FrontPoints), Pairs(points) # {}
  PROVE  Max(Steepest(points)) \in Pairs(points) /\ Min(Steepest(points)) \in Pairs(points)
<1>1. IsFiniteSet(Pairs(points)) /\ Pairs(points) \subseteq Int
  <2>1. Len(points) - 1 \in Int /\ 1 \in Int
    BY SeqElement
  <2>. QED  BY <2>1, FS_Interval DEF Pairs
<1>. DEFINE f == [k \in Pairs(points) |-> Derivative(points, k)]
<1>2. f \in [Pairs(points) -> Int]
  BY PairIsTyped
<1>3. {Derivative(points, k) : k \in Pairs(points)} = {f[k] : k \in Pairs(points)}
        /\ \A k \in Pairs(points) : f[k] = Derivative(points, k)
  OBVIOUS
<1>. HIDE DEF f
<1>4. PICK i \in Pairs(points) : Max({f[k] : k \in Pairs(points)}) = f[i]
  BY <1>1, <1>2, MaxOfValues
<1>5. i \in Steepest(points)
  BY <1>3, <1>4 DEF Steepest
<1>6. Steepest(points) \subseteq Pairs(points)
  BY DEF Steepest
<1>7. IsFiniteSet(Steepest(points)) /\ Steepest(points) \subseteq Int /\ Steepest(points) # {}
  BY <1>1, <1>5, <1>6, FS_Subset
<1>. QED  BY <1>6, <1>7, MaxIsThere, MinIsThere

LEMMA NearestGapIsThere ==
  ASSUME NEW points \in Seq(FrontPoints), NearestGap(points) # << >>
  PROVE  NearestGap(points)[1] \in Pairs(points)
<1>. DEFINE gaps == {i \in Pairs(points) : Jump(points, i) >= Apex.min_range_jump_m}
            values == {Closest(points, i) : i \in gaps}
            nearest == {i \in gaps : Closest(points, i) = Min(values)}
<1>1. IsFiniteSet(Pairs(points)) /\ Pairs(points) \subseteq Int
  <2>1. Len(points) - 1 \in Int /\ 1 \in Int
    BY SeqElement
  <2>. QED  BY <2>1, FS_Interval DEF Pairs
<1>2. gaps # {} /\ NearestGap(points)[1] = Min(nearest)
  BY DEF NearestGap
<1>3. IsFiniteSet(gaps) /\ gaps \subseteq Pairs(points)
  BY <1>1, FS_Subset
<1>. HIDE DEF gaps
<1>. DEFINE f == [k \in gaps |-> Closest(points, k)]
<1>4. f \in [gaps -> Int] /\ \A k \in gaps : f[k] = Closest(points, k)
  BY <1>3, PairIsTyped
<1>5. values = {f[k] : k \in gaps}
  OBVIOUS
<1>. HIDE DEF f, values
<1>. DEFINE g == {f[k] : k \in gaps}
<1>6. PICK i \in gaps : Min(g) = f[i]
  <2>1. /\ \E i \in gaps : Min({f[k] : k \in gaps}) = f[i]
        /\ \A i \in gaps : Min({f[k] : k \in gaps}) <= f[i]
    BY <1>2, <1>3, <1>4, MinOfValues
  <2>. QED  BY <2>1
<1>7. i \in nearest
  BY <1>4, <1>5, <1>6
<1>8. nearest \subseteq gaps
  OBVIOUS
<1>. HIDE DEF nearest
<1>9. IsFiniteSet(nearest) /\ nearest \subseteq Int
  BY <1>1, <1>3, <1>8, FS_Subset
<1>10. Min(nearest) \in nearest
  BY <1>7, <1>9, MinIsThere
<1>. QED  BY <1>2, <1>3, <1>8, <1>10

Gaps(points) == [breakpoint : FrontPoints, gap : 1..(Len(points) - 1),
                 first : BOOLEAN, score : Nat]

LEMMA DiscontinuityIsTyped ==
  ASSUME NEW points \in Seq(FrontPoints), FindDiscontinuity(points) # << >>
  PROVE  FindDiscontinuity(points)[1] \in Gaps(points)
<1>. DEFINE i == IF NearestGap(points) = << >> THEN Max(Steepest(points))
                 ELSE NearestGap(points)[1]
            first == points[i].dist < points[i + 1].dist
<1>1. Len(points) \in Nat
  BY SeqElement
<1>2. ~ (Len(points) < 2)
          /\ FindDiscontinuity(points)[1]
               = [breakpoint |-> points[IF first THEN i ELSE i + 1], gap |-> i,
                  first |-> first, score |-> Jump(points, i)]
  BY DEF FindDiscontinuity
<1>3. Pairs(points) # {}
  <2>1. 1 \in Pairs(points)
    BY <1>1, <1>2 DEF Pairs
  <2>. QED  BY <2>1
<1>4. i \in Pairs(points)
  BY <1>3, SteepestIsThere, NearestGapIsThere
<1>. HIDE DEF i
<1>5. points[i] \in FrontPoints /\ points[i + 1] \in FrontPoints /\ Jump(points, i) \in Nat
  BY <1>4, PairIsTyped
<1>6. first \in BOOLEAN
  OBVIOUS
<1>. HIDE DEF first
<1>7. points[IF first THEN i ELSE i + 1] \in FrontPoints
  BY <1>5, <1>6
<1>. QED  BY <1>2, <1>4, <1>5, <1>6, <1>7 DEF Gaps, Pairs

LEMMA ConfidenceIsTyped ==
  ASSUME NEW points \in Seq(FrontPoints)
  PROVE  ScanConfidence(points) \in Int
<1>. DEFINE i == Min(Steepest(points))
            jump == IF Len(points) < 2 \/ Derivative(points, i) = 0 THEN 0 ELSE Jump(points, i)
            clear == Apex.min_range_jump_m
<1>1. jump \in Nat
  <2>1. CASE Len(points) < 2
    BY <2>1
  <2>2. CASE ~ (Len(points) < 2)
    <3>1. 1 \in Pairs(points)
      BY <2>2, SeqElement DEF Pairs
    <3>2. i \in Pairs(points)
      BY <3>1, SteepestIsThere
    <3>. HIDE DEF i
    <3>3. Jump(points, i) \in Nat
      BY <3>2, PairIsTyped
    <3>. QED  BY <3>3
  <2>. QED  BY <2>1, <2>2
<1>2. clear \in Int
  BY ApexIsTyped
<1>3. ScanConfidence(points) = IF clear > 0 THEN Clamp((100 * jump) \div clear, 0, 100)
                               ELSE IF jump > 0 THEN 100 ELSE 0
  BY DEF ScanConfidence
<1>. HIDE DEF jump, clear
<1>4. CASE clear > 0
  <2>1. \A a \in Nat, b \in Nat \ {0} : (100 * a) \div b \in Nat
    OBVIOUS
  <2>2. (100 * jump) \div clear \in Nat
    BY <1>1, <1>2, <1>4, <2>1
  <2>. QED  BY <1>3, <1>4, <2>2 DEF Clamp
<1>5. CASE ~ (clear > 0)
  BY <1>3, <1>5
<1>. QED  BY <1>4, <1>5

-----------------------------------------------------------------------------
(* The opposite wall                                                        *)

LEMMA OppositeWallIsTyped ==
  ASSUME NEW points \in Seq(FrontPoints), NEW gap \in Gaps(points)
  PROVE  OppositeWall(points, gap) \in Seq(FrontPoints) /\ OppositeWall(points, gap) # << >>
<1>. DEFINE n == Len(points)
            g == gap.gap
<1>1. n \in Nat /\ g \in 1..(n - 1) /\ n = Len(points)
  BY SeqElement DEF Gaps
<1>2. /\ OppositeWall(points, gap) \in {SubSeq(points, g + 1, n), SubSeq(points, 1, g)}
  BY DEF OppositeWall
<1>. HIDE DEF n, g
<1>3. /\ g + 1 \in 1..n + 1 /\ n \in 0..n /\ g + 1 <= n
      /\ 1 \in 1..n + 1 /\ g \in 0..n /\ 1 <= g
  BY <1>1
<1>4. /\ SubSeq(points, g + 1, n) \in Seq(FrontPoints)
      /\ Len(SubSeq(points, g + 1, n)) = (n - (g + 1)) + 1
      /\ SubSeq(points, 1, g) \in Seq(FrontPoints)
      /\ Len(SubSeq(points, 1, g)) = (g - 1) + 1
  BY <1>1, <1>3, Part
<1>5. (n - (g + 1)) + 1 # 0 /\ (g - 1) + 1 # 0
  BY <1>1, <1>3
<1>6. Len(<< >>) = 0
  OBVIOUS
<1>. DEFINE P == SubSeq(points, g + 1, n)
            Q == SubSeq(points, 1, g)
<1>7. P # << >> /\ Q # << >>
  BY <1>4, <1>5, <1>6
<1>8. P \in Seq(FrontPoints) /\ Q \in Seq(FrontPoints) /\ OppositeWall(points, gap) \in {P, Q}
  BY <1>2, <1>4
<1>. HIDE DEF P, Q
<1>. QED  BY <1>7, <1>8

Bounds == [prev : FrontPoints, a : FrontPoints, b : FrontPoints, next : FrontPoints]

LEMMA BoundingPointsAreTyped ==
  ASSUME NEW wall \in Seq(FrontPoints), NEW range, BoundingPoints(wall, range) # << >>
  PROVE  BoundingPoints(wall, range)[1] \in Bounds
<1>. DEFINE around == {i \in Pairs(wall) : \/ wall[i].dist <= range /\ range <= wall[i + 1].dist
                                           \/ wall[i + 1].dist <= range /\ range <= wall[i].dist}
            n == Len(wall)
            least == Min(around)
<1>1. n \in Nat /\ \A i \in 1..n : wall[i] \in FrontPoints
  BY SeqElement
<1>2. around # {} /\ around \subseteq Pairs(wall)
        /\ BoundingPoints(wall, range)[1]
             = [prev |-> wall[Max({least - 1, 1})], a |-> wall[least],
                b |-> wall[least + 1], next |-> wall[Min({least + 2, n})]]
  BY DEF BoundingPoints
<1>. HIDE DEF around
<1>3. Pairs(wall) = 1..(n - 1)
  BY DEF Pairs
<1>. HIDE DEF n
<1>4. IsFiniteSet(around) /\ around \subseteq Int
  <2>1. n - 1 \in Int /\ 1 \in Int
    BY <1>1
  <2>2. IsFiniteSet(1..(n - 1))
    BY <2>1, FS_Interval
  <2>3. around \subseteq 1..(n - 1)
    BY <1>2, <1>3
  <2>4. IsFiniteSet(around)
    BY <2>2, <2>3, FS_Subset
  <2>. QED  BY <2>3, <2>4
<1>5. least \in 1..(n - 1)
  BY <1>2, <1>3, <1>4, MinIsThere
<1>. HIDE DEF least
<1>6. least \in 1..n /\ least + 1 \in 1..n /\ least - 1 \in Int /\ least + 2 \in Int /\ n \in Int /\ 1 \in Int
  BY <1>1, <1>5
<1>7. Max({least - 1, 1}) \in {least - 1, 1} /\ Max({least - 1, 1}) >= 1
  <2>. DEFINE a == least - 1
              b == 1
  <2>1. a \in Int /\ b \in Int
    BY <1>6
  <2>. HIDE DEF a, b
  <2>2. Max({a, b}) \in {a, b} /\ Max({a, b}) >= b
    BY <2>1, MaxIsOneOfTwo
  <2>. QED  BY <2>2 DEF a, b
<1>8. Max({least - 1, 1}) \in 1..n
  BY <1>6, <1>7
<1>9. Min({least + 2, n}) \in {least + 2, n} /\ Min({least + 2, n}) <= n
  BY <1>6, MinOfTwo
<1>10. Min({least + 2, n}) \in 1..n
  BY <1>6, <1>9
<1>. QED  BY <1>1, <1>2, <1>6, <1>8, <1>10 DEF Bounds

LEMMA AngleDiffIsTyped ==
  ASSUME NEW a \in Int, NEW b \in Int
  PROVE  AngleDiff(a, b) \in Int
<1>1. a - b \in Int
  OBVIOUS
<1>. QED  BY <1>1, WrapIsTyped DEF AngleDiff

LEMMA SlopeIsTyped ==
  ASSUME NEW p \in FrontPoints, NEW q \in FrontPoints, NEW weight \in Int, NEW span \in Int
  PROVE  (IF q.dist = p.dist THEN 0
          ELSE Quotient(weight * span * AngleDiff(q.angle, p.angle), 1000 * (q.dist - p.dist))) \in Int
<1>1. p.dist \in Int /\ q.dist \in Int /\ AngleDiff(q.angle, p.angle) \in Int
  BY FrontIsPoint, AngleDiffIsTyped
<1>2. \A x \in Int, y \in Int, z \in Int : x * y * z \in Int
  OBVIOUS
<1>3. weight * span * AngleDiff(q.angle, p.angle) \in Int
  BY <1>1, <1>2
<1>4. CASE q.dist = p.dist
  BY <1>4
<1>5. CASE q.dist # p.dist
  <2>1. 1000 * (q.dist - p.dist) \in Int /\ 1000 * (q.dist - p.dist) # 0
    BY <1>1, <1>5
  <2>. QED  BY <1>3, <1>5, <2>1, QuotientIsTyped
<1>. QED  BY <1>4, <1>5

LEMMA HermiteAngleIsTyped ==
  ASSUME NEW bounds \in Bounds, NEW range \in Int
  PROVE  HermiteAngle(bounds, range) \in Int
<1>. DEFINE a == bounds.a
            b == bounds.b
            span == b.dist - a.dist
            t == Clamp(Quotient(1000 * (range - a.dist), span), 0, 1000)
            t2 == (t * t) \div 1000
            t3 == (t2 * t) \div 1000
            Slope(p, q, weight) ==
              IF q.dist = p.dist THEN 0
              ELSE Quotient(weight * span * AngleDiff(q.angle, p.angle), 1000 * (q.dist - p.dist))
            turn == Quotient((3 * t2 - 2 * t3) * AngleDiff(b.angle, a.angle), 1000)
            before == Slope(bounds.prev, a, t3 - 2 * t2 + t)
            after == Slope(b, bounds.next, t3 - t2)
<1>1. HermiteAngle(bounds, range)
        = IF span = 0 THEN a.angle ELSE WrapAngle(a.angle + turn + before + after)
  BY DEF HermiteAngle
<1>2. /\ a \in FrontPoints /\ b \in FrontPoints
      /\ bounds.prev \in FrontPoints /\ bounds.next \in FrontPoints
  BY DEF Bounds
<1>3. /\ a.dist \in Int /\ b.dist \in Int /\ a.angle \in Int /\ b.angle \in Int
      /\ AngleDiff(b.angle, a.angle) \in Int
  BY <1>2, FrontIsPoint, AngleDiffIsTyped
<1>4. span \in Int
  BY <1>3
<1>. HIDE DEF a, b, span, Slope
<1>5. CASE span = 0
  BY <1>1, <1>3, <1>5
<1>6. CASE span # 0
  <2>1. 1000 * (range - a.dist) \in Int
    BY <1>3
  <2>2. Quotient(1000 * (range - a.dist), span) \in Int
    BY <1>4, <1>6, <2>1, QuotientIsTyped
  <2>3. t \in Int
    BY <2>2 DEF Clamp
  <2>. HIDE DEF t
  <2>4. \A x \in Int, y \in Int : (x * y) \div 1000 \in Int
    OBVIOUS
  <2>5. t2 \in Int
    BY <2>3, <2>4
  <2>. HIDE DEF t2
  <2>6. t3 \in Int
    BY <2>3, <2>4, <2>5
  <2>. HIDE DEF t3
  <2>7. turn \in Int
    <3>1. \A x \in Int, y \in Int : x * y \in Int
      OBVIOUS
    <3>2. 3 * t2 - 2 * t3 \in Int
      BY <2>5, <2>6
    <3>3. (3 * t2 - 2 * t3) * AngleDiff(b.angle, a.angle) \in Int
      BY <1>3, <3>1, <3>2
    <3>4. 1000 \in Int /\ 1000 # 0
      OBVIOUS
    <3>. QED  BY <3>3, <3>4, QuotientIsTyped
  <2>8. before \in Int
    <3>1. t3 - 2 * t2 + t \in Int
      BY <2>3, <2>5, <2>6
    <3>. QED  BY <1>2, <1>4, <3>1, SlopeIsTyped DEF Slope
  <2>9. after \in Int
    <3>1. t3 - t2 \in Int
      BY <2>5, <2>6
    <3>. QED  BY <1>2, <1>4, <3>1, SlopeIsTyped DEF Slope
  <2>. HIDE DEF turn, before, after
  <2>10. a.angle + turn + before + after \in Int
    BY <1>3, <2>7, <2>8, <2>9
  <2>. QED  BY <1>1, <1>6, <2>10, WrapIsTyped
<1>. QED  BY <1>5, <1>6

LEMMA MedianRangeIsTyped ==
  ASSUME NEW wall \in Seq(FrontPoints), wall # << >>
  PROVE  MedianRange(wall) \in Int
<1>. DEFINE n == Len(wall)
            D == 1..n
            f == [i \in D |-> wall[i].dist]
            mid == n \div 2
<1>1. n \in Nat /\ DOMAIN wall = 1..n /\ n # 0 /\ \A i \in 1..n : wall[i].dist \in Int
  BY SeqElement, FrontIsPoint
<1>2. MedianRange(wall) = IF n % 2 = 0 THEN (NthOf(f, mid - 1) + NthOf(f, mid)) \div 2
                          ELSE NthOf(f, mid)
  BY <1>1 DEF MedianRange
<1>3. f \in [D -> Int] /\ \A i \in D : f[i] \in Int
  BY <1>1
<1>. HIDE DEF n, f
<1>4. IsFiniteSet(D) /\ Cardinality(D) = n
  <2>1. IsFiniteSet(D) /\ Cardinality(D) = IF 1 > n THEN 0 ELSE n - 1 + 1
    <3>1. n \in Int /\ 1 \in Int
      BY <1>1
    <3>. QED  BY <3>1, FS_Interval
  <2>. QED  BY <1>1, <2>1
<1>5. mid \in Nat /\ mid < n /\ (n % 2 = 0 => mid - 1 \in Nat /\ mid - 1 < n)
  BY <1>1
<1>. HIDE DEF D, mid
<1>6. ASSUME NEW k \in Nat, k < n PROVE NthOf(f, k) \in Int
  <2>1. k < Cardinality(D)
    BY <1>4, <1>6
  <2>2. \E i \in D : NthOf(f, k) = f[i]
    BY <1>3, <1>4, <2>1, NthIsThere
  <2>. QED  BY <1>3, <2>2
<1>7. NthOf(f, mid) \in Int /\ (n % 2 = 0 => NthOf(f, mid - 1) \in Int)
  BY <1>5, <1>6
<1>8. \A x \in Int, y \in Int : (x + y) \div 2 \in Int
  OBVIOUS
<1>. QED  BY <1>2, <1>7, <1>8

(* Of an angle in front of the car the cosine is positive.                  *)
LEMMA CosineInFront ==
  ASSUME NEW a \in -72..72
  PROVE  Cos(a) \in Int /\ Cos(a) >= 1
<1>1. (a + 90) % 360 = a + 90 /\ a + 90 \in 0..359 /\ a + 90 <= 180
  OBVIOUS
<1>2. Cos(a) = HalfWave(a + 90)
  BY <1>1 DEF Cos, Sin, SinTable
<1>3. ASSUME NEW b \in 18..90 PROVE HalfWave(b) \in Int /\ HalfWave(b) >= 1
  <2>1. HalfWave(18) <= HalfWave(b) /\ HalfWave(b) \in Nat
    <3>1. 18 \in 0..90 /\ b \in 0..90 /\ 18 <= b
      BY <1>3
    <3>. QED  BY <3>1, HalfWaveRises
  <2>2. HalfWave(18) = 310
    BY DEF HalfWave
  <2>. QED  BY <2>1, <2>2
<1>4. CASE a <= 0
  <2>1. a + 90 \in 18..90
    BY <1>4
  <2>. QED  BY <1>2, <1>3, <2>1
<1>5. CASE a > 0
  <2>1. 180 - (a + 90) \in 18..90 /\ a + 90 \in 0..180
    BY <1>5
  <2>2. HalfWave(a + 90) = HalfWave(180 - (a + 90))
    BY <2>1, HalfWaveIsEven
  <2>. QED  BY <1>2, <1>3, <2>1, <2>2
<1>. QED  BY <1>4, <1>5

LEMMA CentroidIsTyped ==
  ASSUME NEW wall \in Seq(FrontPoints), wall # << >>
  PROVE  AngularCentroid(wall) \in Int
<1>. DEFINE D == 1..Len(wall)
            sines == [i \in D |-> Sin(wall[i].angle)]
            cosines == [i \in D |-> Cos(wall[i].angle)]
<1>1. /\ Len(wall) \in Nat /\ DOMAIN wall = D /\ D # {}
      /\ \A i \in D : wall[i].angle \in -72..72 /\ wall[i].angle \in Int
  BY SeqElement, FrontIsPoint
<1>2. IsFiniteSet(D)
  <2>1. Len(wall) \in Int /\ 1 \in Int
    BY <1>1
  <2>. QED  BY <2>1, FS_Interval
<1>3. AngularCentroid(wall) = Atan(SumFunction(sines), SumFunction(cosines))
  BY <1>1 DEF AngularCentroid
<1>. HIDE DEF D
<1>4. sines \in [D -> Int]
  BY <1>1, SineIsTyped
<1>5. cosines \in [D -> Int] /\ \A i \in D : cosines[i] >= 1 /\ cosines[i] >= 0
  <2>1. \A i \in D : cosines[i] = Cos(wall[i].angle) /\ Cos(wall[i].angle) \in Int
                     /\ Cos(wall[i].angle) >= 1
    BY <1>1, CosineInFront
  <2>. QED  BY <2>1
<1>. HIDE DEF sines, cosines
<1>6. SumFunction(sines) \in Int
  BY <1>2, <1>4, SumIsTyped
<1>7. SumFunction(cosines) \in Int /\ \A i \in D : SumFunction(cosines) >= cosines[i]
  BY <1>2, <1>5, SumIsTyped
<1>8. SumFunction(cosines) \in Nat \ {0}
  <2>1. PICK i \in D : TRUE
    BY <1>1
  <2>2. cosines[i] \in Int /\ cosines[i] >= 1 /\ SumFunction(cosines) >= cosines[i]
    BY <1>5, <1>7
  <2>. QED  BY <1>7, <2>2
<1>. DEFINE y == SumFunction(sines)
            x == SumFunction(cosines)
<1>9. y \in Int /\ x \in Nat \ {0} /\ y <= y
  BY <1>6, <1>8
<1>10. AngularCentroid(wall) = Atan(y, x)
  BY <1>3
<1>. HIDE DEF y, x
<1>. QED  BY <1>9, <1>10, AtanInOrder

LEMMA MaxIsTyped == ASSUME NEW a \in Int PROVE Max({a, 0}) \in Nat
<1>1. Max({a, 0}) \in {a, 0} /\ Max({a, 0}) >= 0
  <2>1. 0 \in Int
    OBVIOUS
  <2>. QED  BY <2>1, MaxIsOneOfTwo
<1>. QED  BY <1>1

LEMMA PulledIsTyped ==
  ASSUME NEW pt \in Points
  PROVE  PullTowardOrigin(pt) \in Points
<1>1. pt.dist \in Int /\ pt.angle \in Int
  BY DEF Points
<1>2. Max({Apex.wall_clearance_m, 0}) \in Nat
  BY MaxIsTyped, ApexIsTyped
<1>3. pt.dist - Max({Apex.wall_clearance_m, 0}) \in Int
  BY <1>1, <1>2
<1>4. Max({pt.dist - Max({Apex.wall_clearance_m, 0}), 0}) \in Int
  BY <1>3, MaxIsTyped
<1>. QED  BY <1>1, <1>4, PolarIsPoint DEF PullTowardOrigin

LEMMA OppositePointIsTyped ==
  ASSUME NEW points \in Seq(FrontPoints), NEW gap \in Gaps(points)
  PROVE  OppositePoint(OppositeWall(points, gap), gap.breakpoint)[1] \in Points
<1>. DEFINE wall == OppositeWall(points, gap)
            range == gap.breakpoint.dist
            bounds == BoundingPoints(wall, range)
<1>1. wall \in Seq(FrontPoints) /\ wall # << >>
  BY OppositeWallIsTyped
<1>2. range \in Int
  <2>1. gap.breakpoint \in FrontPoints
    BY DEF Gaps
  <2>. QED  BY <2>1, FrontIsPoint
<1>. HIDE DEF wall, range
<1>3. CASE bounds = << >>
  <2>1. Polar(MedianRange(wall), AngularCentroid(wall)) \in Points
    BY <1>1, MedianRangeIsTyped, CentroidIsTyped, PolarIsPoint
  <2>2. OppositePoint(wall, gap.breakpoint)
          = <<PullTowardOrigin(Polar(MedianRange(wall), AngularCentroid(wall)))>>
    BY <1>1, <1>3 DEF OppositePoint, ScanFallback, range
  <2>. QED  BY <2>1, <2>2, PulledIsTyped DEF wall
<1>4. CASE bounds # << >>
  <2>1. bounds[1] \in Bounds
    BY <1>1, <1>4, BoundingPointsAreTyped
  <2>. DEFINE found == OppositeFromBounds(bounds[1], range)
  <2>2. OppositePoint(wall, gap.breakpoint) = <<PullTowardOrigin(found)>>
    BY <1>4 DEF OppositePoint, range
  <2>3. bounds[1].a \in FrontPoints /\ bounds[1].b \in FrontPoints
    BY <2>1 DEF Bounds
  <2>. HIDE DEF bounds
  <2>4. SelectOppositeBound(bounds[1], range) \in FrontPoints
    BY <2>3 DEF SelectOppositeBound
  <2>5. Polar(range, HermiteAngle(bounds[1], range)) \in Points
    BY <1>2, <2>1, HermiteAngleIsTyped, PolarIsPoint
  <2>6. found \in Points
    BY <2>4, <2>5, FrontIsPoint DEF OppositeFromBounds
  <2>. HIDE DEF found
  <2>. QED  BY <2>2, <2>6, PulledIsTyped DEF wall
<1>. QED  BY <1>3, <1>4

LEMMA MidpointIsTyped ==
  ASSUME NEW p \in Points, NEW q \in Points
  PROVE  PolarMidpoint(p, q) \in Points
<1>1. p.dist \in Int /\ q.dist \in Int /\ p.angle \in Int /\ q.angle \in Int
  BY DEF Points
<1>2. AngleDiff(q.angle, p.angle) \in Int
  BY <1>1, AngleDiffIsTyped
<1>3. Quotient(AngleDiff(q.angle, p.angle), 2) \in Int
  <2>1. 2 \in Int /\ 2 # 0
    OBVIOUS
  <2>. QED  BY <1>2, <2>1, QuotientIsTyped
<1>4. p.angle + Quotient(AngleDiff(q.angle, p.angle), 2) \in Int
  BY <1>1, <1>3
<1>5. WrapAngle(p.angle + Quotient(AngleDiff(q.angle, p.angle), 2)) \in Int
  BY <1>4, WrapIsTyped
<1>6. (p.dist + q.dist) \div 2 \in Int
  BY <1>1
<1>. QED  BY <1>5, <1>6, PolarIsPoint DEF PolarMidpoint

LEMMA PlaceIsTyped ==
  ASSUME NEW pt \in Points
  PROVE  X(pt) \in Int /\ Y(pt) \in Int
<1>1. pt.dist \in Int /\ pt.angle \in Int /\ 1000 \in Int /\ 1000 # 0
  BY DEF Points
<1>2. Sin(pt.angle) \in Int /\ Cos(pt.angle) \in Int
  BY <1>1, SineIsTyped
<1>3. \A x \in Int, y \in Int : x * y \in Int
  OBVIOUS
<1>4. pt.dist * Cos(pt.angle) \in Int /\ pt.dist * Sin(pt.angle) \in Int
  BY <1>1, <1>2, <1>3
<1>. QED  BY <1>1, <1>4, QuotientIsTyped DEF X, Y

LEMMA CurvatureIsTyped ==
  ASSUME NEW target \in Points, tracker.curvature \in Int
  PROVE  TargetCurvature(target) \in Int
<1>. DEFINE x == X(target)
            y == Y(target)
            l2 == x * x + y * y
<1>1. TargetCurvature(target) = IF x <= 5 \/ l2 <= 1 THEN tracker.curvature
                                ELSE Quotient(200000 * y, l2)
  BY DEF TargetCurvature
<1>2. x \in Int /\ y \in Int
  BY PlaceIsTyped
<1>. HIDE DEF x, y
<1>3. \A a \in Int : a * a \in Int
  OBVIOUS
<1>4. l2 \in Int /\ 200000 * y \in Int
  BY <1>2, <1>3
<1>. HIDE DEF l2
<1>5. ~ (l2 <= 1) => l2 # 0
  BY <1>4
<1>. QED  BY <1>1, <1>4, <1>5, QuotientIsTyped

-----------------------------------------------------------------------------
(* What is ahead                                                            *)

(* The nearest point all round is no farther away than the nearest ahead.   *)
LEMMA ObstaclesAreTyped ==
  ASSUME NEW scan \in Seq(Points)
  PROVE  /\ NearestObstacle(scan) \in Int /\ NearestFrontObstacle(scan) \in Int
         /\ NearestObstacle(scan) <= NearestFrontObstacle(scan)
<1>. DEFINE n == Len(scan)
            f == [i \in 0..n |-> IF i = 0 THEN Nothing ELSE scan[i].dist]
<1>1. n \in Nat /\ DOMAIN scan = 1..n /\ \A i \in 1..n : scan[i].dist \in Int
  <2>1. \A i \in 1..n : scan[i] \in Points
    BY SeqElement
  <2>. QED  BY <2>1, SeqElement DEF Points
<1>. HIDE DEF n
<1>2. /\ f \in [0..n -> Int] /\ f[0] = Nothing /\ (\A i \in 1..n : f[i] = scan[i].dist)
      /\ 0 \in 0..n /\ 1..n \subseteq 0..n
  BY <1>1 DEF Nothing
<1>3. {Nothing} \cup {scan[i].dist : i \in DOMAIN scan} = {f[i] : i \in 0..n}
  <2>. HIDE DEF f
  <2>1. \A i \in 0..n : i = 0 \/ i \in 1..n
    BY <1>1
  <2>. QED  BY <1>1, <1>2, <2>1
<1>4. IsFiniteSet(0..n) /\ IsFiniteSet(1..n)
  <2>1. n \in Int /\ 0 \in Int /\ 1 \in Int
    BY <1>1
  <2>. QED  BY <2>1, FS_Interval
<1>. HIDE DEF f
<1>5. /\ \E i \in 0..n : NearestObstacle(scan) = f[i]
      /\ \A i \in 0..n : NearestObstacle(scan) <= f[i]
  <2>1. NearestObstacle(scan) = Min({f[i] : i \in 0..n})
    BY <1>3 DEF NearestObstacle
  <2>2. 0..n # {}
    BY <1>2
  <2>3. /\ \E i \in 0..n : Min({f[j] : j \in 0..n}) = f[i]
        /\ \A i \in 0..n : Min({f[j] : j \in 0..n}) <= f[i]
    BY <1>2, <1>4, <2>2, MinOfValues
  <2>. QED  BY <2>1, <2>3
<1>6. \E i \in 0..n : NearestFrontObstacle(scan) = f[i]
  <2>. DEFINE D == {k \in DOMAIN scan : 2 * Abs(AngleDiff(scan[k].angle, 0)) <= 15}
              g == [i \in D |-> scan[i].dist]
              ranges == {scan[i].dist : i \in D}
  <2>1. NearestFrontObstacle(scan) = IF ranges = {} THEN Nothing ELSE Min(ranges)
    <3>1. NearestInArc(scan, 0, 15) = IF ranges = {} THEN << >> ELSE <<Min(ranges)>>
      BY DEF NearestInArc
    <3>2. NearestFrontObstacle(scan) = IF NearestInArc(scan, 0, 15) = << >> THEN Nothing
                                       ELSE NearestInArc(scan, 0, 15)[1]
      BY DEF NearestFrontObstacle
    <3>. DEFINE m == Min(ranges)
    <3>3. NearestInArc(scan, 0, 15) = IF ranges = {} THEN << >> ELSE <<m>>
      BY <3>1
    <3>. HIDE DEF ranges, m
    <3>4. <<m>> # << >> /\ <<m>>[1] = m
      OBVIOUS
    <3>5. NearestFrontObstacle(scan) = IF ranges = {} THEN Nothing ELSE m
      BY <3>2, <3>3, <3>4
    <3>. QED  BY <3>5 DEF m
  <2>2. D \subseteq 1..n
    BY <1>1
  <2>. HIDE DEF D
  <2>3. g \in [D -> Int] /\ (\A i \in D : g[i] = scan[i].dist) /\ ranges = {g[i] : i \in D}
    BY <1>1, <2>2
  <2>4. IsFiniteSet(D)
    BY <1>4, <2>2, FS_Subset
  <2>5. CASE ranges = {}
    BY <1>2, <2>1, <2>5
  <2>6. CASE ranges # {}
    <3>1. D # {}
      BY <2>6
    <3>. HIDE DEF g, ranges
    <3>2. /\ \E i \in D : Min({g[j] : j \in D}) = g[i]
          /\ \A i \in D : Min({g[j] : j \in D}) <= g[i]
      BY <2>3, <2>4, <3>1, MinOfValues
    <3>3. PICK i \in D : Min(ranges) = g[i]
      BY <2>3, <3>2
    <3>4. i \in 1..n /\ i \in 0..n
      BY <1>2, <2>2, <3>3
    <3>5. f[i] = g[i]
      BY <1>2, <2>3, <3>3, <3>4
    <3>. QED  BY <2>1, <2>6, <3>3, <3>4, <3>5
  <2>. QED  BY <2>5, <2>6
<1>. QED  BY <1>2, <1>5, <1>6

-----------------------------------------------------------------------------
(* The memory of perception                                                 *)

Estimates == [lateral : Int, rate : Int, heading : Int, curvature : Int,
              obstacle : Int, confidence : Int]

(* What is seen and what is remembered of it are numbers.                   *)
SeenIsTyped ==
  /\ corridor \in Estimates
  /\ tracker.lateral # << >> =>
       tracker.lateral[1].error \in Int /\ tracker.lateral[1].at \in Int
  /\ tracker.estimate # << >> => tracker.estimate[1] \in Estimates
  /\ tracker.curvature \in Int

LEMMA LastLateralIsTyped == SeenIsTyped => LastLateral \in Int
BY DEF SeenIsTyped, LastLateral

LEMMA RateIsTyped ==
  ASSUME SeenIsTyped, NEW lateral \in Int, NEW at \in Int
  PROVE  LateralRate(lateral, at) \in Int
<1>. DEFINE before == tracker.lateral[1]
<1>1. LateralRate(lateral, at) = IF tracker.lateral = << >> \/ at <= before.at THEN 0
                                 ELSE Quotient(lateral - before.error, at - before.at)
  BY DEF LateralRate
<1>2. CASE tracker.lateral = << >>
  BY <1>1, <1>2
<1>3. CASE tracker.lateral # << >>
  <2>1. before.error \in Int /\ before.at \in Int
    BY <1>3 DEF SeenIsTyped
  <2>. HIDE DEF before
  <2>2. CASE at <= before.at
    BY <1>1, <2>2
  <2>3. CASE ~ (at <= before.at)
    <3>1. at - before.at \in Int /\ at - before.at # 0 /\ lateral - before.error \in Int
      BY <2>1, <2>3
    <3>2. Quotient(lateral - before.error, at - before.at) \in Int
      BY <3>1, QuotientIsTyped
    <3>. QED  BY <1>1, <1>3, <2>3, <3>2
  <2>. QED  BY <2>2, <2>3
<1>. QED  BY <1>2, <1>3

(* A scan without a target                                                  *)
LEMMA SeeNothingIsTyped ==
  ASSUME TrackedIsAimed, SeenIsTyped, NEW scan \in Seq(Points), NEW points, NEW gap,
         SeeNothing(scan, points, gap)
  PROVE  SeenIsTyped' /\ corridor'.obstacle = NearestObstacle(scan)
<1>1. LastLateral \in Int /\ 0 \in Int /\ NearestObstacle(scan) \in Int
  BY LastLateralIsTyped, ObstaclesAreTyped
<1>2. corridor' = Estimate(LastLateral, 0, 0, 0, NearestObstacle(scan), 0)
  BY DEF SeeNothing, InsufficientPoints
<1>3. corridor' \in Estimates /\ corridor'.obstacle = NearestObstacle(scan)
  <2>. DEFINE o == NearestObstacle(scan)
              l == LastLateral
  <2>1. corridor' = Estimate(l, 0, 0, 0, o, 0) /\ l \in Int /\ o \in Int
    BY <1>1, <1>2
  <2>. HIDE DEF o, l
  <2>2. corridor' \in Estimates /\ corridor'.obstacle = o
    BY <2>1 DEF Estimate, Estimates
  <2>. QED  BY <2>2 DEF o
<1>4. /\ tracker'.lateral = tracker.lateral /\ tracker'.estimate = tracker.estimate
      /\ tracker'.curvature = tracker.curvature
  <2>1. tracker' = [tracker EXCEPT !.apex = << >>]
    BY DEF SeeNothing
  <2>. QED  BY <2>1 DEF TrackedIsAimed
<1>. QED  BY <1>3, <1>4 DEF SeenIsTyped

(* A held target: of its estimate the obstacle and the rate are new.        *)
LEMMA HoldTargetIsTyped ==
  ASSUME TrackedIsAimed, SeenIsTyped, NEW scan \in Seq(Points),
         NEW points \in Seq(FrontPoints), NEW gap, NEW at \in Int,
         HoldTarget(scan, points, gap, at)
  PROVE  SeenIsTyped' /\ corridor'.obstacle = NearestFrontObstacle(scan)
<1>. DEFINE front == NearestFrontObstacle(scan)
            confidence == IF tracker.estimate = << >> THEN ScanConfidence(points)
                          ELSE tracker.estimate[1].confidence
            previous == PreviousEstimate(scan, confidence)
            held == [previous EXCEPT !.rate = LateralRate(previous.lateral, at)]
<1>1. corridor' = held /\ tracker' = HeldTracker(held, gap, at)
  BY DEF HoldTarget
<1>2. front \in Int
  BY ObstaclesAreTyped
<1>3. confidence \in Int
  <2>1. ScanConfidence(points) \in Int
    BY ConfidenceIsTyped
  <2>. QED  BY <2>1 DEF SeenIsTyped, Estimates
<1>. HIDE DEF confidence
<1>4. previous \in Estimates /\ previous.obstacle = front
  <2>1. CASE tracker.estimate = << >>
    <3>1. previous = Estimate(LastLateral, 0, 0, tracker.curvature, front, confidence)
      BY <2>1 DEF PreviousEstimate
    <3>2. LastLateral \in Int /\ tracker.curvature \in Int /\ 0 \in Int
      BY LastLateralIsTyped DEF SeenIsTyped
    <3>. HIDE DEF previous, front
    <3>. QED  BY <1>2, <1>3, <3>1, <3>2 DEF Estimate, Estimates
  <2>2. CASE tracker.estimate # << >>
    <3>. DEFINE e == tracker.estimate[1]
    <3>1. previous = [e EXCEPT !.obstacle = front, !.confidence = confidence]
      BY <2>2 DEF PreviousEstimate
    <3>2. e \in Estimates
      BY <2>2 DEF SeenIsTyped
    <3>. HIDE DEF e, previous, front
    <3>. QED  BY <1>2, <1>3, <3>1, <3>2 DEF Estimates
  <2>. QED  BY <2>1, <2>2
<1>. HIDE DEF previous, front
<1>5. held \in Estimates /\ held.obstacle = front /\ held.lateral \in Int
  <2>1. previous.lateral \in Int
    BY <1>4 DEF Estimates
  <2>2. LateralRate(previous.lateral, at) \in Int
    BY <2>1, RateIsTyped
  <2>. QED  BY <1>4, <2>1, <2>2 DEF Estimates
<1>. HIDE DEF held
<1>6. /\ tracker'.lateral = <<[error |-> held.lateral, at |-> at]>>
      /\ tracker'.estimate = <<held>> /\ tracker'.curvature = tracker.curvature
  BY <1>1 DEF HeldTracker, TrackedIsAimed
<1>. QED  BY <1>1, <1>5, <1>6 DEF SeenIsTyped, front

(* A new target                                                             *)
LEMMA NewTargetIsTyped ==
  ASSUME SeenIsTyped, NEW scan \in Seq(Points),
         NEW points \in Seq(FrontPoints), NEW gap \in Gaps(points), NEW at \in Int,
         NewTarget(scan, points, gap, at)
  PROVE  SeenIsTyped' /\ corridor'.obstacle = NearestFrontObstacle(scan)
<1>. DEFINE confidence == ScanConfidence(points)
            opposite == OppositePoint(OppositeWall(points, gap), gap.breakpoint)
            target == PolarMidpoint(gap.breakpoint, opposite[1])
            curvature == TargetCurvature(target)
            front == NearestFrontObstacle(scan)
            rate == LateralRate(Y(target), at)
            estimate == Estimate(Y(target), rate, target.angle, curvature, front, confidence)
<1>1. /\ corridor' = estimate
      /\ tracker'.lateral = <<[error |-> Y(target), at |-> at]>>
      /\ tracker'.estimate = <<estimate>>
      /\ tracker'.curvature = IF curvature = 0 THEN tracker.curvature ELSE curvature
  BY DEF NewTarget
<1>2. confidence \in Int /\ front \in Int
  BY ConfidenceIsTyped, ObstaclesAreTyped
<1>3. target \in Points
  <2>1. opposite[1] \in Points
    BY OppositePointIsTyped
  <2>2. gap.breakpoint \in Points
    <3>1. gap.breakpoint \in FrontPoints
      BY DEF Gaps
    <3>. QED  BY <3>1, FrontIsPoint
  <2>. HIDE DEF opposite
  <2>. QED  BY <2>1, <2>2, MidpointIsTyped
<1>. HIDE DEF confidence, target, front
<1>4. Y(target) \in Int /\ target.angle \in Int
  BY <1>3, PlaceIsTyped DEF Points
<1>5. curvature \in Int /\ tracker.curvature \in Int
  BY <1>3, CurvatureIsTyped DEF SeenIsTyped
<1>6. rate \in Int
  BY <1>4, RateIsTyped
<1>. HIDE DEF curvature, rate
<1>7. estimate \in Estimates /\ estimate.obstacle = front
  BY <1>2, <1>4, <1>5, <1>6 DEF Estimate, Estimates
<1>. HIDE DEF estimate
<1>8. tracker'.lateral[1].error \in Int /\ tracker'.lateral[1].at \in Int
  BY <1>1, <1>4
<1>9. tracker'.estimate[1] \in Estimates /\ tracker'.curvature \in Int
  BY <1>1, <1>5, <1>7
<1>. QED  BY <1>1, <1>7, <1>8, <1>9 DEF SeenIsTyped, front

LEMMA PerceiveIsTyped ==
  ASSUME TrackedIsAimed, SeenIsTyped, NEW scan \in Seq(Points), NEW at \in Int,
         Perceive(scan, at)
  PROVE  SeenIsTyped' /\ corridor'.obstacle <= NearestFrontObstacle(scan)
<1>. DEFINE points == Preprocess(scan, DynamicLookahead(scan))
            found == FindDiscontinuity(points)
<1>1. points \in Seq(FrontPoints)
  BY PreprocessIsTyped
<1>2. \/ SeeNothing(scan, points, found)
      \/ /\ found # << >>
         /\ HoldTarget(scan, points, found[1], at) \/ NewTarget(scan, points, found[1], at)
  BY DEF Perceive
<1>. HIDE DEF points
<1>3. found # << >> => found[1] \in Gaps(points)
  BY <1>1, DiscontinuityIsTyped
<1>. HIDE DEF found
<1>4. /\ NearestObstacle(scan) \in Int /\ NearestFrontObstacle(scan) \in Int
      /\ NearestObstacle(scan) <= NearestFrontObstacle(scan)
  BY ObstaclesAreTyped
<1>5. CASE SeeNothing(scan, points, found)
  BY <1>4, <1>5, SeeNothingIsTyped
<1>6. CASE HoldTarget(scan, points, found[1], at)
  <2>1. SeenIsTyped' /\ corridor'.obstacle = NearestFrontObstacle(scan)
    BY <1>1, <1>6, HoldTargetIsTyped
  <2>. QED  BY <1>4, <2>1
<1>7. CASE found # << >> /\ NewTarget(scan, points, found[1], at)
  <2>1. SeenIsTyped' /\ corridor'.obstacle = NearestFrontObstacle(scan)
    BY <1>1, <1>3, <1>7, NewTargetIsTyped
  <2>. QED  BY <1>4, <2>1
<1>. QED  BY <1>2, <1>5, <1>6, <1>7

-----------------------------------------------------------------------------
(* The target speed                                                         *)

LEMMA TopSpeedIsTyped == VMax \in Nat
BY SpeedIsTyped, MaxIsTyped DEF VMax

LEMMA LeastOfThree ==
  ASSUME NEW a \in Int, NEW b \in Int, NEW c \in Int
  PROVE  /\ Min({a, b, c}) \in {a, b, c} /\ Min({a, b, c}) \in Int
         /\ Min({a, b, c}) <= a /\ Min({a, b, c}) <= b /\ Min({a, b, c}) <= c
<1>1. \E x \in {a, b, c} : \A y \in {a, b, c} : x <= y
  OBVIOUS
<1>2. Min({a, b, c}) \in {a, b, c} /\ \A y \in {a, b, c} : Min({a, b, c}) <= y
  BY <1>1 DEF Min
<1>. QED  BY <1>2

LEMMA ErrorCapIsTyped ==
  ASSUME NEW gain \in Int, NEW error \in Int
  PROVE  ErrorCap(gain, error) \in Int
<1>1. VMax \in Int
  BY TopSpeedIsTyped
<1>2. CASE gain <= 0 \/ error <= 0
  BY <1>1, <1>2 DEF ErrorCap
<1>3. CASE gain > 0 /\ error > 0
  <2>. DEFINE d == gain * error
  <2>1. d \in Nat
    BY <1>3
  <2>2. ErrorCap(gain, error) = (1000 * VMax) \div (1000 + d)
    BY <1>3 DEF ErrorCap
  <2>. HIDE DEF d
  <2>3. 1000 * VMax \in Int /\ 1000 + d \in Nat \ {0}
    BY <1>1, <2>1
  <2>4. \A x \in Int, y \in Nat \ {0} : x \div y \in Int
    OBVIOUS
  <2>. QED  BY <2>2, <2>3, <2>4
<1>. QED  BY <1>2, <1>3

(* Below a speed that is too fast for the curve there is a fastest one that *)
(* is not.                                                                  *)
LEMMA CurvatureCapIsTyped ==
  ASSUME NEW curvature \in Int
  PROVE  CurvatureCap(curvature) \in Int
<1>. DEFINE square == (100000 * Speed.a_lat_max) \div Abs(curvature)
            Fits(v) == (v + 1) * (v + 1) > square /\ v * v <= square
<1>1. VMax \in Nat
  BY TopSpeedIsTyped
<1>2. CurvatureCap(curvature)
        = IF curvature = 0 \/ Speed.a_lat_max <= 0 \/ VMax * VMax <= square THEN VMax
          ELSE CHOOSE v \in 0..VMax : Fits(v)
  BY DEF CurvatureCap
<1>3. CASE curvature = 0 \/ Speed.a_lat_max <= 0 \/ VMax * VMax <= square
  BY <1>1, <1>2, <1>3
<1>4. CASE ~ (curvature = 0 \/ Speed.a_lat_max <= 0 \/ VMax * VMax <= square)
  <2>1. square \in Nat
    <3>1. Speed.a_lat_max \in Int
      BY SpeedIsTyped
    <3>2. 100000 * Speed.a_lat_max \in Nat
      BY <1>4, <3>1
    <3>3. Abs(curvature) \in Nat \ {0}
      BY <1>4 DEF Abs
    <3>4. \A x \in Nat, y \in Nat \ {0} : x \div y \in Nat
      OBVIOUS
    <3>. QED  BY <3>2, <3>3, <3>4
  <2>2. ~ (VMax * VMax <= square)
    BY <1>4
  <2>. HIDE DEF square
  <2>. DEFINE TooFast == {v \in Nat : ~ (v * v <= square)}
  <2>3. PICK m \in TooFast : \A v \in TooFast : m <= v
    <3>1. TooFast \subseteq Nat /\ VMax \in TooFast
      BY <1>1, <2>2
    <3>. HIDE DEF TooFast
    <3>. QED  BY <3>1, LeastElement
  <2>4. m \in Nat /\ m <= VMax /\ ~ (m * m <= square)
    BY <1>1, <2>2, <2>3
  <2>5. m # 0
    BY <2>1, <2>4
  <2>6. m - 1 \in 0..VMax /\ (m - 1) + 1 = m /\ m - 1 \in Nat /\ ~ (m <= m - 1)
    BY <1>1, <2>4, <2>5
  <2>7. m - 1 \notin TooFast
    <3>. HIDE DEF TooFast
    <3>. QED  BY <2>3, <2>6
  <2>8. (m - 1) * (m - 1) <= square
    BY <2>6, <2>7
  <2>9. m * m > square
    <3>1. m * m \in Int
      BY <2>4
    <3>. QED  BY <2>1, <2>4, <3>1
  <2>10. Fits(m - 1)
    BY <2>6, <2>8, <2>9
  <2>. HIDE DEF Fits
  <2>11. (CHOOSE v \in 0..VMax : Fits(v)) \in 0..VMax
    BY <2>6, <2>10
  <2>. QED  BY <1>1, <1>2, <1>4, <2>11 DEF square
<1>. QED  BY <1>3, <1>4

LEMMA PathTargetIsTyped ==
  ASSUME NEW c \in Estimates
  PROVE  PathTarget(c) \in Int
<1>1. c.heading \in Int /\ c.lateral \in Int /\ c.curvature \in Int
  BY DEF Estimates
<1>2. Speed.k_heading \in Int /\ Speed.k_lateral \in Int /\ Speed.v_min \in Int
  BY SpeedIsTyped
<1>. DEFINE a == ErrorCap(Speed.k_heading, (c.heading * c.heading * 305) \div 1000)
            b == ErrorCap(Speed.k_lateral, 10 * Abs(c.lateral))
            d == CurvatureCap(c.curvature)
<1>3. a \in Int
  <2>1. \A x \in Int : (x * x * 305) \div 1000 \in Int
    OBVIOUS
  <2>2. (c.heading * c.heading * 305) \div 1000 \in Int
    BY <1>1, <2>1
  <2>. DEFINE k == Speed.k_heading
              e == (c.heading * c.heading * 305) \div 1000
  <2>3. k \in Int /\ e \in Int
    BY <1>2, <2>2
  <2>. HIDE DEF k, e
  <2>4. ErrorCap(k, e) \in Int
    BY <2>3, ErrorCapIsTyped
  <2>. QED  BY <2>4 DEF k, e
<1>4. b \in Int
  <2>1. 10 * Abs(c.lateral) \in Int
    BY <1>1 DEF Abs
  <2>. QED  BY <1>2, <2>1, ErrorCapIsTyped
<1>5. d \in Int
  BY <1>1, CurvatureCapIsTyped
<1>6. PathCap(c) = Min({a, b, d})
  BY DEF PathCap
<1>. HIDE DEF a, b, d
<1>7. PathCap(c) \in Int
  <2>1. Min({a, b, d}) \in Int
    BY <1>3, <1>4, <1>5, LeastOfThree, Zenon
  <2>. QED  BY <1>6, <2>1
<1>. DEFINE cap == PathCap(c)
            least == Clamp(Speed.v_min, 0, VMax)
<1>8. least \in Int
  BY <1>2, TopSpeedIsTyped DEF Clamp
<1>9. cap \in Int /\ PathTarget(c) = IF cap > 0 THEN Max({cap, least}) ELSE 0
  BY <1>7 DEF PathTarget
<1>. HIDE DEF cap, least
<1>10. Max({cap, least}) \in Int
  BY <1>8, <1>9, MaxOfTwo
<1>. QED  BY <1>9, <1>10

(* The nearer the obstacle, the lower its cap.                              *)
LEMMA ObstacleCapInOrder ==
  ASSUME NEW near \in Int, NEW far \in Int, near <= far
  PROVE  ObstacleCap(near) \in Nat /\ ObstacleCap(far) \in Nat /\ ObstacleCap(near) <= ObstacleCap(far)
<1>. DEFINE slowdown == Max({Speed.obstacle_slowdown, 1})
            n == Clamp(near, 0, slowdown)
            m == Clamp(far, 0, slowdown)
<1>1. ObstacleCap(near) = (VMax * n) \div slowdown /\ ObstacleCap(far) = (VMax * m) \div slowdown
  BY DEF ObstacleCap
<1>2. slowdown \in Nat \ {0}
  <2>. DEFINE s == Speed.obstacle_slowdown
              one == 1
  <2>1. s \in Int /\ one \in Int
    BY SpeedIsTyped
  <2>. HIDE DEF s, one
  <2>2. Max({s, one}) \in {s, one} /\ Max({s, one}) >= one
    BY <2>1, MaxIsOneOfTwo
  <2>3. Max({s, one}) \in Int
    BY <2>1, <2>2
  <2>4. slowdown = Max({s, one})
    BY DEF s, one
  <2>5. one = 1
    BY DEF one
  <2>. QED  BY <2>2, <2>3, <2>4, <2>5
<1>. HIDE DEF slowdown
<1>3. n \in Nat /\ m \in Nat /\ n <= m
  BY <1>2 DEF Clamp
<1>. HIDE DEF n, m
<1>. DEFINE top == VMax
<1>4. top \in Nat
  BY TopSpeedIsTyped
<1>. HIDE DEF top
<1>5. top * n \in Nat /\ top * m \in Nat /\ top * n <= top * m
  <2>1. top * n <= top * m
    BY <1>3, <1>4, TimesInOrder
  <2>. QED  BY <1>3, <1>4, <2>1
<1>6. /\ (top * n) \div slowdown <= (top * m) \div slowdown
  BY <1>2, <1>5, DivideInOrder
<1>7. (top * n) \div slowdown \in Nat /\ (top * m) \div slowdown \in Nat
  <2>1. \A x \in Nat, y \in Nat \ {0} : x \div y \in Nat
    OBVIOUS
  <2>. QED  BY <1>2, <1>5, <2>1
<1>. QED  BY <1>1, <1>6, <1>7 DEF top

LEMMA TargetIsCapped ==
  ASSUME NEW c \in Estimates
  PROVE  RawTargetSpeed(c) \in Int /\ RawTargetSpeed(c) <= ObstacleCap(c.obstacle)
<1>. DEFINE path == PathTarget(c)
            cap == ObstacleCap(c.obstacle)
            sure == ConfidenceCap(c.confidence)
            top == VMax
<1>1. path \in Int
  BY PathTargetIsTyped
<1>2. cap \in Nat
  <2>1. c.obstacle \in Int /\ c.obstacle <= c.obstacle
    BY DEF Estimates
  <2>. QED  BY <2>1, ObstacleCapInOrder
<1>3. sure \in Int
  <2>1. Clamp(c.confidence, 10, 100) \in Int
    BY DEF Clamp, Estimates
  <2>2. \A x \in Int, y \in Int : (x * y) \div 100 \in Int
    OBVIOUS
  <2>. QED  BY <2>1, <2>2, TopSpeedIsTyped DEF ConfidenceCap
<1>4. top \in Nat
  BY TopSpeedIsTyped
<1>5. RawTargetSpeed(c) = IF top = 0 THEN 0 ELSE Clamp(Min({path, cap, sure}), 0, top)
  BY DEF RawTargetSpeed
<1>. HIDE DEF path, cap, sure, top
<1>6. Min({path, cap, sure}) \in Int /\ Min({path, cap, sure}) <= cap
  <2>1. cap \in Int
    BY <1>2
  <2>. QED  BY <1>1, <1>3, <2>1, LeastOfThree, Zenon
<1>7. RawTargetSpeed(c) \in Int /\ RawTargetSpeed(c) <= cap
  BY <1>2, <1>4, <1>5, <1>6 DEF Clamp
<1>. QED  BY <1>7 DEF cap

(* rate_limit: a lower target is reached, or the speed falls by the limit.  *)
LEMMA RateIsLimited ==
  ASSUME targetSpeed \in Int, NEW target \in Int
  PROVE  /\ RateLimit(target) \in Int
         /\ \/ RateLimit(target) <= target
            \/ RateLimit(target) = targetSpeed - Max({Speed.decel_limit, 0})
<1>. DEFINE up == Max({Speed.accel_limit, 0})
            down == Max({Speed.decel_limit, 0})
            limit == IF target >= targetSpeed THEN up ELSE down
<1>1. up \in Nat /\ down \in Nat
  BY SpeedIsTyped, MaxIsTyped
<1>2. RateLimit(target) = targetSpeed + Clamp(target - targetSpeed, -limit, limit)
  <2>1. Max({IF target >= targetSpeed THEN Speed.accel_limit ELSE Speed.decel_limit, 0}) = limit
    OBVIOUS
  <2>. QED  BY <2>1 DEF RateLimit
<1>. HIDE DEF up, down
<1>3. /\ RateLimit(target) \in Int
      /\ RateLimit(target) <= target \/ RateLimit(target) = targetSpeed - down
  BY <1>1, <1>2 DEF Clamp
<1>. QED  BY <1>3 DEF down

-----------------------------------------------------------------------------
(* Braking                                                                  *)

DriveIsTyped ==
  /\ TrackedIsAimed
  /\ SeenIsTyped
  /\ cloud \in Seq(Points)
  /\ now \in Int
  /\ targetSpeed \in Int

BrakesNow ==
  driven'.by = "reactive" /\ driven' # driven =>
    \/ targetSpeed' <= ObstacleCap(NearestFrontObstacle(cloud))
    \/ targetSpeed' = targetSpeed - Max({Speed.decel_limit, 0})

LEMMA InitDriveIsTyped == Init => DriveIsTyped
<1>. SUFFICES ASSUME Init PROVE DriveIsTyped
  OBVIOUS
<1>1. TrackedIsAimed
  BY InitIInv DEF IInv
<1>2. SeenIsTyped
  BY DEF Init, PercInit, NewTracker, SeenIsTyped, Estimate, Estimates
<1>3. cloud \in Seq(Points) /\ now \in Int /\ targetSpeed \in Int
  BY DEF Init, ReactiveInit
<1>. QED  BY <1>1, <1>2, <1>3 DEF DriveIsTyped

LEMMA StepIsTyped ==
  ASSUME DriveIsTyped, Step
  PROVE  SeenIsTyped' /\ targetSpeed' \in Int /\ BrakesNow
<1>1. /\ SeenIsTyped' /\ corridor'.obstacle <= NearestFrontObstacle(cloud)
  <2>1. Perceive(cloud, now)
    BY DEF Step
  <2>. QED  BY <2>1, PerceiveIsTyped DEF DriveIsTyped
<1>2. PICK car \in Cars : DriveReactive(car) \/ DriveRaceLine(car)
  BY DEF Step
<1>3. CASE DriveReactive(car)
  <2>. DEFINE raw == RawTargetSpeed(corridor')
              near == corridor'.obstacle
              front == NearestFrontObstacle(cloud)
  <2>1. targetSpeed' = RateLimit(raw)
    BY <1>3 DEF DriveReactive, ReactiveRemember, ReactiveCommand
  <2>2. corridor' \in Estimates
    BY <1>1 DEF SeenIsTyped
  <2>3. near \in Int
    BY <2>2 DEF Estimates
  <2>4. front \in Int
    BY ObstaclesAreTyped DEF DriveIsTyped
  <2>5. raw \in Int /\ raw <= ObstacleCap(near)
    BY <2>2, TargetIsCapped
  <2>6. near <= front
    BY <1>1
  <2>. HIDE DEF raw, near, front
  <2>7. /\ ObstacleCap(near) \in Nat /\ ObstacleCap(front) \in Nat
        /\ ObstacleCap(near) <= ObstacleCap(front)
    BY <2>3, <2>4, <2>6, ObstacleCapInOrder
  <2>8. /\ RateLimit(raw) \in Int
        /\ \/ RateLimit(raw) <= raw
           \/ RateLimit(raw) = targetSpeed - Max({Speed.decel_limit, 0})
    BY <2>5, RateIsLimited DEF DriveIsTyped
  <2>9. \/ targetSpeed' <= ObstacleCap(front)
        \/ targetSpeed' = targetSpeed - Max({Speed.decel_limit, 0})
    BY <2>1, <2>5, <2>7, <2>8
  <2>. QED  BY <1>1, <2>1, <2>8, <2>9 DEF BrakesNow, front
<1>4. CASE DriveRaceLine(car)
  <2>1. driven'.by = "raceline" /\ targetSpeed' = targetSpeed
    BY <1>4 DEF DriveRaceLine, reactiveVars
  <2>. QED  BY <1>1, <2>1 DEF BrakesNow, DriveIsTyped
<1>. QED  BY <1>2, <1>3, <1>4

LEMMA StepKeepsDriveIsTyped ==
  IInv /\ DriveIsTyped /\ [Next]_vars => DriveIsTyped' /\ [BrakesNow]_vars
<1>. SUFFICES ASSUME IInv, DriveIsTyped, [Next]_vars PROVE DriveIsTyped' /\ [BrakesNow]_vars
  OBVIOUS
<1>1. TrackedIsAimed'
  BY StepKeepsIInv DEF IInv
<1>2. CASE NewScan
  <2>1. cloud' \in Seq(Points) /\ now' \in Int
    BY <1>2, CloudsAssumption DEF NewScan, DriveIsTyped, Points
  <2>2. SeenIsTyped' /\ targetSpeed' \in Int /\ driven' = driven
    BY <1>2 DEF NewScan, percVars, reactiveVars, DriveIsTyped, SeenIsTyped
  <2>. QED  BY <1>1, <2>1, <2>2 DEF DriveIsTyped, BrakesNow
<1>3. CASE Step
  <2>1. SeenIsTyped' /\ targetSpeed' \in Int /\ BrakesNow
    BY <1>3, StepIsTyped
  <2>2. cloud' = cloud /\ now' = now
    BY <1>3 DEF Step
  <2>. QED  BY <1>1, <2>1, <2>2 DEF DriveIsTyped
<1>4. CASE Reset
  <2>1. cloud' = cloud /\ now' = now /\ driven' = driven /\ targetSpeed' \in Int
    BY <1>4 DEF Reset, ReactiveReset
  <2>2. SeenIsTyped'
    BY <1>4 DEF Reset, PercReset, NewTracker, DriveIsTyped, SeenIsTyped
  <2>. QED  BY <1>1, <2>1, <2>2 DEF DriveIsTyped, BrakesNow
<1>5. CASE UNCHANGED vars
  BY <1>1, <1>5 DEF vars, percVars, reactiveVars, DriveIsTyped, SeenIsTyped
<1>. QED  BY <1>2, <1>3, <1>4, <1>5 DEF Next

-----------------------------------------------------------------------------
(* The theorems                                                             *)

(* However the scan's apex wanders, and for every threshold, the apex the   *)
(* car aims for is never farther from the scan's than the threshold         *)
(* (perception/apex/tracking.rs:29).                                        *)
THEOREM HeldTargetsAreNear == Spec => []AimsNearTheApex
<1>1. IInv => AimsNearTheApex
  BY DEF IInv
<1>. QED  BY <1>1, InitIInv, StepKeepsIInv, PTL DEF Spec

(* For every line, every car and every gain, limit and fade: the race-line  *)
(* controller steers a car that is beside the line and does not head for it *)
(* no less back to it than one on the line (raceline/controller.rs:64).     *)
THEOREM SteersBackToTheLine == Spec => []TurnsBackToTheLine
BY InitDriven, StepKeepsDriven, DrivenTurnsBack, PTL DEF Spec

(* For every scan, of however few points and however the tracker came to    *)
(* what it holds: a tick of the reactive controller ends with a target that *)
(* what is ahead in this very scan allows, or a whole braking step below    *)
(* the last (speed.rs:87-120, perception/apex/tracking.rs:86).              *)
THEOREM BrakesInTime == Spec => BrakesForWhatIsAhead
<1>1. IInv /\ DriveIsTyped /\ [Next]_vars => IInv' /\ DriveIsTyped' /\ [BrakesNow]_vars
  BY StepKeepsIInv, StepKeepsDriveIsTyped
<1>2. Init => IInv /\ DriveIsTyped
  BY InitIInv, InitDriveIsTyped
<1>. QED  BY <1>1, <1>2, PTL DEF Spec, BrakesForWhatIsAhead, BrakesNow
=============================================================================
