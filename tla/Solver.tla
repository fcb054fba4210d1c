------------------------------- MODULE Solver -------------------------------
(***************************************************************************)
(* solve_min_curvature (nfe-algo/src/raceline/solver.rs), the work of the  *)
(* race-line planner's thread: a track map becomes a race line, or the     *)
(* first step that fails gives the error.  The occupancy grid is cleaned,  *)
(* the contour between its two walls becomes the reference line            *)
(* (reference.rs, savgol.rs), the line is moved sideways within bounds     *)
(* (min_curvature.rs, qp.rs) and gets a speed at every sample              *)
(* (velocity.rs).  A map without a grid goes the way of the boundaries.    *)
(*                                                                         *)
(* The grid part is exact.  From the reference on, geometry is abstract:   *)
(* the widths beside each of the samples, the solutions of the quadratic   *)
(* program, the linearization errors and the curvatures are any of small   *)
(* sets; offsets are integers and speeds are squared.                      *)
(***************************************************************************)
EXTENDS Separatrix

CONSTANTS
  Maps,            (* track maps: [grid, complete], grid = NoGrid if none   *)
  Radii,           (* values of occupancy_morph_radius_cells                *)
  SavgolWindow,    (* reference_savgol_window_points                        *)
  SavgolOrder,     (* reference_savgol_polynomial_order                     *)
  Samples,         (* samples of the reference line, 0..Samples-1           *)
  Widths,          (* what ray_width returns                                *)
  Clearance,       (* clearance_m                                           *)
  Slope,           (* max_adjacent_offset_slope * ds, 0 disables it         *)
  Damping,         (* one over the damping factor                           *)
  MaxIterations,   (* max_iterations                                        *)
  Offsets,         (* offsets the quadratic program returns                 *)
  Caps,            (* squares of the corner speeds, top speed included      *)
  AccelTwiceDs,    (* 2 * accel limit * ds, 0 disables the pass             *)
  BrakeTwiceDs,    (* 2 * brake limit * ds, 0 disables the pass             *)
  ClosedPasses     (* velocity_closed_passes                                *)

ASSUME SolverSizes ==
  /\ Radii \subseteq Nat
  /\ Samples \in Nat /\ Samples >= 3 /\ MaxIterations \in Nat
  /\ Damping \in Nat \ {0} /\ ClosedPasses \in Nat
  /\ Clearance \in Nat /\ Slope \in Nat
  /\ Caps \subseteq Nat /\ AccelTwiceDs \in Nat /\ BrakeTwiceDs \in Nat

VARIABLES
  stage,    (* the step that solve_min_curvature is at, or "done"           *)
  map,      (* the map it was called with                                   *)
  radius,
  mask,
  markers,
  fields,   (* the distances to each marker; after one pass, within the rows *)
  contour,  (* points of the contour                                        *)
  offsets,  (* of the optimization: widths, alpha, iteration, status        *)
  profile,  (* of the speeds: cap, speed, passes, converged                 *)
  result

gridVars == <<map, radius, mask, markers, fields, contour>>
lineVars == <<offsets, profile>>
solverVars == <<stage, gridVars, lineVars, result>>

Nothing == << >>
NoGrid  == << >>

SolverInit ==
  /\ map \in Maps /\ radius \in Radii
  /\ stage = IF map.grid = NoGrid THEN "boundaries" ELSE "grid"
  /\ mask = {} /\ markers = Nothing /\ fields = Nothing /\ contour = Nothing
  /\ offsets = Nothing /\ profile = Nothing /\ result = "none"

(* What the call no longer needs goes out of scope with it.                 *)
Forget ==
  /\ mask' = {} /\ markers' = Nothing /\ fields' = Nothing /\ contour' = Nothing
  /\ map' = [grid |-> NoGrid, complete |-> map.complete] /\ radius' = 0

Fail(error) ==
  /\ stage' = "done" /\ result' = error
  /\ Forget /\ offsets' = Nothing /\ profile' = Nothing

Finish(line) == stage' = "done" /\ result' = line

-----------------------------------------------------------------------------
(* solve_from_occupancy: from the grid to the contour                       *)

(* A cell that is no number, or a missing cell, makes a grid invalid.       *)
NotFinite == 99

(* validate_occupancy_grid                                                  *)
GridError(grid) ==
  IF DOMAIN grid # Cells THEN "InvalidOccupancyGrid"
  ELSE IF \E c \in Cells : grid[c] = NotFinite THEN "NonFiniteOccupancyCell"
  ELSE "none"

(* Mutant: a window one cell larger closes walls that should stay.          *)
WideCleanMask(free, r) == RetainLargest(OpenMask(CloseMask(free, r + 1), r))

(* The mask: what is narrower than the window is closed, then opened.       *)
CleanMask(free, r) == RetainLargest(OpenMask(CloseMask(free, r), r))

Binarize ==
  /\ stage = "grid"
  /\ IF GridError(map.grid) # "none" THEN Fail(GridError(map.grid))
     ELSE /\ mask' = CleanMask(FromOccupancy(map.grid), radius)
          /\ stage' = "markers"
          /\ UNCHANGED <<map, radius, markers, fields, contour, lineVars, result>>

ChooseMarkers ==
  /\ stage = "markers"
  /\ LET chosen == SelectMarkers(mask)
     IN IF ~chosen.ok THEN Fail(chosen.error)
        ELSE /\ markers' = chosen.value /\ stage' = "rows"
             /\ UNCHANGED <<map, radius, mask, fields, contour, lineVars, result>>

(* edt_from_sites of both markers, which are never empty: its two passes.   *)
MeasureRows ==
  /\ stage = "rows"
  /\ fields' = <<RowPass(markers[1]), RowPass(markers[2])>>
  /\ stage' = "columns"
  /\ UNCHANGED <<map, radius, mask, markers, contour, lineVars, result>>

MeasureColumns ==
  /\ stage = "columns"
  /\ fields' = <<ColumnPass(fields[1]), ColumnPass(fields[2])>>
  /\ stage' = "march"
  /\ UNCHANGED <<map, radius, mask, markers, contour, lineVars, result>>

Phi == [c \in Cells |-> fields[1][c] - fields[2][c]]

(* separatrix_segments, then longest_closed_contour.  Lengths are           *)
(* abstracted: any of the closed contours may be the longest.               *)
March(saddle) ==
  /\ stage = "march"
  /\ LET phi == Phi
         segments == Segments(mask, phi, saddle)
         stitched == ExtractCycles(segments)
     IN IF ~PlateausAreChains(mask, phi) THEN Fail("BranchedPlateau")
        ELSE IF saddle = "tie" /\ \E c \in Squares(mask) : IsSaddle(phi, c)
             THEN Fail("SaddleTie")
        ELSE IF stitched.endless
             THEN /\ stage' = "endless"
                  /\ UNCHANGED <<gridVars, lineVars, result>>
        ELSE IF stitched.cycles = {} THEN Fail("NoClosedContour")
        ELSE /\ \E points \in stitched.cycles : contour' = points
             /\ stage' = "reference"
             /\ UNCHANGED <<map, radius, mask, markers, fields, lineVars, result>>

-----------------------------------------------------------------------------
(* reference_path_from_contour                                              *)

Odd(n) == n % 2 = 1
SmoothingWindow(n) ==
  LET most == IF Odd(n) THEN n ELSE n - 1
  IN IF SavgolWindow < most THEN SavgolWindow ELSE most

SmoothingError(n) ==
  IF ~Odd(SavgolWindow) THEN "EvenWindow"
  ELSE IF SavgolWindow <= SavgolOrder THEN "WindowTooSmall"
  ELSE IF SmoothingWindow(n) <= SavgolOrder THEN "WindowTooSmall"
  ELSE "none"

Indices == 0..Samples-1
After(i) == (i + 1) % Samples

(* Smoothing may move a point out of the free space, or onto its neighbour; *)
(* each sample has a free width to its left and to its right.               *)
Reference ==
  /\ stage = "reference"
  /\ IF SmoothingError(Len(contour)) # "none" THEN Fail(SmoothingError(Len(contour)))
     ELSE \/ Fail("PointOutsideFreeSpace")
          \/ Fail("DegenerateTangent")
          \/ \E left, right \in [Indices -> Widths] :
               /\ offsets' = [left |-> left, right |-> right, iteration |-> 0,
                              alpha |-> [i \in Indices |-> 0], status |-> "none"]
               /\ stage' = "optimize"
               /\ Forget /\ UNCHANGED <<profile, result>>

-----------------------------------------------------------------------------
(* optimize_min_curvature                                                   *)

Lower(i) == Clearance - offsets.right[i]
Upper(i) == offsets.left[i] - Clearance
Feasible == \A i \in Indices : Lower(i) <= Upper(i)

Within(alpha) == \A i \in Indices : Lower(i) <= alpha[i] /\ alpha[i] <= Upper(i)
SlopeKept(alpha) ==
  Slope > 0 => \A i \in Indices : /\ alpha[After(i)] - alpha[i] <= Slope
                                  /\ alpha[i] - alpha[After(i)] <= Slope

(* solve_qp: a point of the polytope, or the solver's status as an error.   *)
Solutions == {x \in [Indices -> Offsets] : Within(x) /\ SlopeKept(x)}

Clamp(x, low, high) == IF x < low THEN low ELSE IF x > high THEN high ELSE x

(* A damped step towards the solution, clamped to the bounds.               *)
Damped(alpha, solution) ==
  [i \in Indices |->
     Clamp(alpha[i] + (solution[i] - alpha[i]) \div Damping, Lower(i), Upper(i))]

Iterations == IF MaxIterations < 1 THEN 1 ELSE MaxIterations

(* path_from_offsets                                                        *)
Optimized(alpha, status) ==
  /\ offsets' = [offsets EXCEPT !.alpha = alpha, !.status = status]
  /\ stage' = "speeds" /\ UNCHANGED <<gridVars, profile, result>>

(* Neighbouring samples too close, or a derivative that vanishes.           *)
Degenerate == Fail("DegenerateGeometry")

(* Is the linear prediction of the curvatures within the tolerance of the   *)
(* curvatures at the candidate?                                             *)
PredictionFits == BOOLEAN

(* One turn of the loop: the step is the last when the linearization fits,  *)
(* else it is the start of the next turn.                                   *)
Linearize ==
  /\ stage = "optimize" /\ offsets.iteration < Iterations
  /\ IF ~Feasible THEN Fail("InfeasibleBounds")
     ELSE \/ Degenerate
          \/ Fail("SolverStatus")
          \/ \E solution \in Solutions, fits \in PredictionFits :
               LET candidate == Damped(offsets.alpha, solution)
               IN IF fits THEN Optimized(candidate, "Converged")
                  ELSE /\ offsets' = [offsets EXCEPT !.alpha = candidate, !.iteration = @ + 1]
                       /\ UNCHANGED <<stage, gridVars, profile, result>>

(* Without convergence the reference line itself is the path.               *)
FallBack ==
  /\ stage = "optimize" /\ offsets.iteration = Iterations
  /\ Optimized([i \in Indices |-> 0], "ReferenceFallback")

-----------------------------------------------------------------------------
(* compute_velocity_profile, for a closed line                              *)

BeginProfile ==
  /\ stage = "speeds"
  /\ \E cap \in [Indices -> Caps] :
       profile' = [cap |-> cap, speed |-> cap, passes |-> 0, converged |-> FALSE]
  /\ offsets' = Nothing /\ stage' = "profile"
  /\ UNCHANGED <<gridVars, result>>

Lowered(speed, j, cap) == IF speed[j] > cap THEN [speed EXCEPT ![j] = cap] ELSE speed

(* Along the line, and against it; the edge that closes it comes last, or   *)
(* first.  swept[k] is what the speeds are after k edges.                   *)
ForwardPass(speed) ==
  LET swept[k \in 0..Samples] ==
        LET v == swept[k - 1]
        IN IF k = 0 THEN speed ELSE Lowered(v, After(k - 1), v[k - 1] + AccelTwiceDs)
  IN IF AccelTwiceDs = 0 THEN speed ELSE swept[Samples]
BackwardPass(speed) ==
  LET swept[k \in 0..Samples] ==
        LET v == swept[k - 1]
            i == Samples - k
        IN IF k = 0 THEN speed ELSE Lowered(v, i, v[After(i)] + BrakeTwiceDs)
  IN IF BrakeTwiceDs = 0 THEN speed ELSE swept[Samples]

Passes == IF ClosedPasses < 1 THEN 1 ELSE ClosedPasses

(* Mutant: the pass counts as converged while it still lowers speeds.       *)
AnyPass(before, after) == TRUE
Converged(before, after) == before = after

ProfilePass ==
  /\ stage = "profile" /\ ~profile.converged /\ profile.passes < Passes
  /\ LET after == BackwardPass(ForwardPass(profile.speed))
     IN profile' = [cap |-> profile.cap, speed |-> after, passes |-> profile.passes + 1,
                    converged |-> Converged(profile.speed, after)]
  /\ UNCHANGED <<stage, gridVars, offsets, result>>

(* raceline_from_min_curvature_path: the diagnostics are dropped.           *)
Deliver ==
  /\ stage = "profile" /\ (profile.converged \/ profile.passes = Passes)
  /\ Finish("line")
  /\ UNCHANGED <<gridVars, offsets, profile>>

-----------------------------------------------------------------------------
(* solve_from_boundaries_legacy: the ends of the walls in bins of x, above  *)
(* or below the axis; a bin with both gives a point of the line.            *)

Bins == 4
BinsWithBoth(ends) == {b \in 0..Bins-1 : <<b, "top">> \in ends /\ <<b, "bottom">> \in ends}

SolveBoundaries ==
  /\ stage = "boundaries"
  /\ \E ends \in SUBSET ((0..Bins-1) \X {"top", "bottom"}) :
       IF ends = {} THEN Fail("EmptyMap")
       ELSE IF Cardinality(BinsWithBoth(ends)) < 3 THEN Fail("InsufficientBoundaries")
       ELSE /\ Finish("line")
            /\ UNCHANGED <<gridVars, lineVars>>

SolverNext ==
  \/ Binarize \/ ChooseMarkers \/ MeasureRows \/ MeasureColumns
  \/ \E saddle \in {"a", "b", "tie"} : March(saddle)
  \/ Reference \/ Linearize \/ FallBack
  \/ BeginProfile \/ ProfilePass \/ Deliver \/ SolveBoundaries

SolverSpec == SolverInit /\ [][SolverNext]_solverVars /\ WF_solverVars(SolverNext)

-----------------------------------------------------------------------------
(* Properties                                                               *)

(* The two passes of the distance transform give every cell its distance to *)
(* the nearest cell of each marker (edt.rs).                                *)
DistancesAreNearest ==
  stage = "march" =>
    \A k \in {1, 2} : \A c \in Cells : fields[k][c] = NearestSite(markers[k], c)

(* Cleaning frees a blocked cell only where the wall around it is thinner   *)
(* than the window: a cell of a thick wall or obstacle never becomes part   *)
(* of the track (grid.rs, open and close).                                  *)
ThickObstaclesStay ==
  stage = "markers" =>
    \A c \in mask \ FromOccupancy(map.grid) :
      \A d \in Window(c, radius) :
        Window(d, radius) \cap FromOccupancy(map.grid) # {}

CellsAt(p) == {<<x \div 2, y \div 2>> : x \in {p[1], p[1] + (p[1] % 2)},
                                        y \in {p[2], p[2] + (p[2] % 2)}}
NextPoint(k) == contour[(k % Len(contour)) + 1]
(* Is a blocked cell inside the contour?  No segment passes at its height   *)
(* within a cell of it, so its column tells the side.                       *)
Inside(c) ==
  Odd(Cardinality({k \in DOMAIN contour :
        /\ contour[k][1] > 2 * c[1]
        /\ (contour[k][2] <= 2 * c[2]) # (NextPoint(k)[2] <= 2 * c[2])}))

(* The contour has at least three points, and every line of it, the closing *)
(* one too, lies in one square of free cells (cell_all_free in              *)
(* watershed.rs, extract_cycles in contour.rs).                             *)
ContourIsFree ==
  stage = "reference" =>
    /\ Len(contour) >= 3
    /\ \A k \in DOMAIN contour : \E c \in Cells :
         /\ ToSet(Corners(c)) \subseteq mask
         /\ CellsAt(contour[k]) \cup CellsAt(NextPoint(k)) \subseteq ToSet(Corners(c))

(* The contour is found in finitely many steps, never visits a point twice, *)
(* stays in free cells and goes around one of the two walls: all of one is  *)
(* inside and all of the other outside (watershed.rs, contour.rs).          *)
ContourSeparatesWalls ==
  /\ stage # "endless" /\ ContourIsFree
  /\ stage = "reference" =>
       /\ \A j, k \in DOMAIN contour : contour[j] = contour[k] => j = k
       /\ \A a \in markers[1], b \in markers[2] : Inside(a) # Inside(b)

(* Once a closed profile has converged, and in any case from the second     *)
(* pass on, every speed can be reached from the one before and braked to    *)
(* the one after, also across the end of the line; three passes converge    *)
(* (velocity.rs).                                                           *)
ProfileIsDriveable ==
  profile # Nothing =>
    /\ profile.converged \/ profile.passes >= 2 =>
         \A i \in Indices :
           /\ profile.speed[i] <= profile.cap[i]
           /\ AccelTwiceDs > 0 => profile.speed[After(i)] <= profile.speed[i] + AccelTwiceDs
           /\ BrakeTwiceDs > 0 => profile.speed[i] <= profile.speed[After(i)] + BrakeTwiceDs
    /\ profile.passes >= 3 => profile.converged
=============================================================================
