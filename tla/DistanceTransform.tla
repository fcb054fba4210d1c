-------------------------- MODULE DistanceTransform --------------------------
(***************************************************************************)
(* The distance of every cell of a grid to the nearest site                *)
(* (nfe-algo/src/raceline/edt.rs): two passes of the lower envelope of     *)
(* parabolas, first along the rows, then along the columns.  Distances are *)
(* squared and counted in cells, so every value is an integer and the      *)
(* envelope's break points are fractions.                                  *)
(***************************************************************************)
EXTENDS Integers, Sequences, FiniteSetsExt

CONSTANTS
  Width, Height,
  INF             \* no site in this row: 1e20 in the code

(* On no grid does a distance come near INF.                                *)
ASSUME GridSize ==
  /\ Width \in Nat \ {0} /\ Height \in Nat \ {0}
  /\ INF \in Nat /\ 3 * (Width * Width + Height * Height) < INF

Cells == (0..Width-1) \X (0..Height-1)

(* f[q] + q * q: the square is lost when it is added to INF.                *)
Raise(value, q) == IF value = INF THEN INF ELSE value + q * q

(* Where the parabola of q overtakes the one of p < q: num / den, den > 0.  *)
Intersection(f, q, p) ==
  [num |-> Raise(f[q], q) - Raise(f[p], p), den |-> 2 * (q - p)]

(* z: the envelope's breaks.  z[0] is minus infinity, written as num = -2   *)
(* INF over 1, below every intersection.                                    *)
MinusInfinity == [num |-> -2 * INF, den |-> 1]
NotAbove(a, b) == a.num * b.den <= b.num * a.den

(* The envelope is the sequence of [v, z], vertex and break, the last one   *)
(* on top.  q removes the parabolas that it overtakes no later than their   *)
(* break, from the top down; the first one goes only when q overtakes it no *)
(* later than minus infinity.                                               *)
Hide(f, q, envelope) ==
  LET Overtaken(k) == Intersection(f, q, envelope[k].v)
      staying[k \in 0..Len(envelope)] ==
        IF k = 0 \/ ~NotAbove(Overtaken(k), envelope[k].z) THEN k ELSE staying[k - 1]
      top == staying[Len(envelope)]
  IN IF top = 0 THEN << [v |-> q, z |-> MinusInfinity] >>
     ELSE Append(SubSeq(envelope, 1, top), [v |-> q, z |-> Overtaken(top)])

(* The envelope of the parabolas of 0 to last                               *)
Envelope(f, last) ==
  LET upTo[q \in 0..last] ==
        IF q = 0 THEN << [v |-> 0, z |-> MinusInfinity] >> ELSE Hide(f, q, upTo[q - 1])
  IN upTo[last]

(* The squared distances of one row or column; f is a function on 0..n-1.   *)
(* The parabola used at q is the last one whose break is below q.           *)
Edt1d(f, n) ==
  LET envelope == Envelope(f, n - 1)
      Used(q) == Max({1} \cup {k \in 2..Len(envelope) :
                                  envelope[k].z.num < q * envelope[k].z.den})
  IN [q \in 0..n-1 |->
        LET v == envelope[Used(q)].v
            d == (q - v) * (q - v)
        IN IF f[v] = INF THEN INF ELSE d + f[v]]

(* The distances within the rows.                                           *)
RowPass(sites) ==
  [y \in 0..Height-1 |->
     Edt1d([x \in 0..Width-1 |-> IF <<x, y>> \in sites THEN 0 ELSE INF], Width)]

(* Mutant: the columns are not passed.                                      *)
ColumnsAsTheyAre(rows) == [c \in Cells |-> rows[c[2]][c[1]]]

(* Carried along the columns, they become the distances in the grid.        *)
ColumnPass(rows) ==
  LET columns == [x \in 0..Width-1 |->
                    Edt1d([y \in 0..Height-1 |-> rows[y][x]], Height)]
  IN [c \in Cells |-> columns[c[1]][c[2]]]

EdtFromSites(sites) ==
  IF sites = {} THEN [c \in Cells |-> INF] ELSE ColumnPass(RowPass(sites))

(* What it must compute.                                                    *)
Square(n) == n * n
NearestSite(sites, c) ==
  IF sites = {} THEN INF
  ELSE Min({Square(c[1] - s[1]) + Square(c[2] - s[2]) : s \in sites})
=============================================================================
