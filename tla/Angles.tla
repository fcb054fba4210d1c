-------------------------------- MODULE Angles --------------------------------
(***************************************************************************)
(* Angles in whole degrees, counted to the left, and their sine in         *)
(* thousandths.                                                            *)
(***************************************************************************)
EXTENDS Integers, FiniteSetsExt

Abs(v) == IF v < 0 THEN -v ELSE v
Sign(v) == IF v < 0 THEN -1 ELSE 1
(* Division towards zero                                                    *)
Quotient(v, d) == Sign(v) * Sign(d) * (Abs(v) \div Abs(d))
Clamp(v, lo, hi) == IF v < lo THEN lo ELSE IF v > hi THEN hi ELSE v

(* nfe_core::wrap_angle; angle_diff_rad is the same of a difference.        *)
WrapAngle(a) == ((a + 180) % 360) - 180
AngleDiff(a, b) == WrapAngle(a - b)

(* Bhaskara's approximation; it is exact at 0, 30 and 90 degrees.           *)
HalfWave(a) == (4000 * a * (180 - a)) \div (40500 - a * (180 - a))
SinTable == [a \in 0..359 |-> IF a <= 180 THEN HalfWave(a) ELSE -HalfWave(a - 180)]
Sin(a) == SinTable[a % 360]
Cos(a) == Sin(a + 90)

(* The angle of the point (x, y), for x > 0, rounded towards zero           *)
Atan(y, x) ==
  LET Reached(a) == x * Sin(a) <= Abs(y) * Cos(a)
  IN Sign(y) * CHOOSE a \in 0..90 : ~ Reached(a + 1) /\ Reached(a)
=============================================================================
