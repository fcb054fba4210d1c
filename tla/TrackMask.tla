------------------------------ MODULE TrackMask ------------------------------
(***************************************************************************)
(* The mask of free cells that the race-line solver works on               *)
(* (nfe-algo/src/raceline/grid.rs).  A mask is the set of its free cells;  *)
(* a cell outside the grid is never free.                                  *)
(***************************************************************************)
EXTENDS Sequences, SequencesExt, DistanceTransform

(* BinaryMask::from_occupancy: the log odds of a cell are below zero (free), *)
(* zero (never seen) or above (occupied).                                    *)
FromOccupancy(logOdds) == {c \in Cells : logOdds[c] < 0}

Window(c, r) == {<<c[1] + dx, c[2] + dy>> : dx \in -r..r, dy \in -r..r}

Erode(mask, r)  == {c \in Cells : Window(c, r) \subseteq mask}
Dilate(mask, r) == {c \in Cells : Window(c, r) \cap mask # {}}

OpenMask(mask, r)  == Dilate(Erode(mask, r), r)
CloseMask(mask, r) == Erode(Dilate(mask, r), r)

(* four_neighbors                                                           *)
Neighbors ==
  [c \in Cells |-> Cells \cap
     { <<c[1]+1, c[2]>>, <<c[1]-1, c[2]>>, <<c[1], c[2]+1>>, <<c[1], c[2]-1>> }]
Beside(c) == Neighbors[c]

(* Row-major order of the cells.                                            *)
Index(c) == c[2] * Width + c[1]
RowMajor == [i \in 1..Width * Height |-> <<(i - 1) % Width, (i - 1) \div Width>>]
First(cells) == CHOOSE c \in cells : \A d \in cells : Index(c) <= Index(d)

(* flood_component: what a walk of four-neighbours within some cells        *)
(* reaches from its start.                                                  *)
Flood(within, start) ==
  LET spread[reached \in SUBSET within] ==
        LET next == reached \cup ((UNION {Beside(c) : c \in reached}) \cap within)
        IN IF next = reached THEN reached ELSE spread[next]
  IN spread[{start}]

(* The components of a set of cells: each is the flood of a cell that no    *)
(* earlier one has reached.                                                 *)
Components(cells) ==
  LET parts[rest \in SUBSET cells] ==
        LET one == Flood(rest, CHOOSE c \in rest : TRUE)
        IN IF rest = {} THEN {} ELSE {one} \cup parts[rest \ one]
  IN parts[cells]

(* The largest of the components, or the one of several equals that the     *)
(* code finds last (max_by_key) or first (main_free_component).             *)
Largest(parts) ==
  {p \in parts : \A q \in parts : Cardinality(p) >= Cardinality(q)}
LastFound(parts) ==
  CHOOSE p \in parts : \A q \in parts : Index(First(p)) >= Index(First(q))
FirstFound(parts) ==
  CHOOSE p \in parts : \A q \in parts : Index(First(p)) <= Index(First(q))

(* retain_largest_free_component                                            *)
RetainLargest(mask) ==
  IF mask = {} THEN mask ELSE LastFound(Largest(Components(mask)))
=============================================================================
