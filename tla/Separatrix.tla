----------------------------- MODULE Separatrix -----------------------------
(***************************************************************************)
(* The line between the two walls of a track                               *)
(* (nfe-algo/src/raceline/watershed.rs and contour.rs): two blocked        *)
(* components are chosen as markers, every cell gets its distance to each, *)
(* the zero set of their difference is marched through the squares of four *)
(* free cells, and its segments are stitched to closed contours.           *)
(*                                                                         *)
(* Distances are squared; their difference has the sign of the difference  *)
(* of the distances.  A point of the line is a pair of doubled             *)
(* coordinates: even ones are a cell's centre, an odd one a point          *)
(* strictly between the centres of two neighbours.                         *)
(***************************************************************************)
EXTENDS TrackMask

CONSTANTS
  MinSharedBorder,     (* MIN_MARKER_SHARED_BORDER_CELLS                    *)
  DominancePercent     (* TOP_TWO_MARKER_DOMINANCE_FRACTION                 *)

(* A result is a value or an error.                                         *)
Ok(value)   == [ok |-> TRUE, value |-> value, error |-> "none"]
Err(reason) == [ok |-> FALSE, value |-> {}, error |-> reason]

-----------------------------------------------------------------------------
(* select_two_markers                                                       *)

(* main_free_component                                                      *)
MainFree(mask) == IF mask = {} THEN {} ELSE FirstFound(Largest(Components(mask)))

(* shared_border_with                                                       *)
SharedBorder(cells, free) ==
  MapThenSumSet(LAMBDA c : Cardinality(Beside(c) \cap free), cells)

(* The blocked components that share a long enough border with the track.   *)
Walls(mask) ==
  LET free == MainFree(mask)
  IN {w \in {[cells |-> p, border |-> SharedBorder(p, free)] :
                p \in Components(Cells \ mask)} : w.border >= MinSharedBorder}

(* The sort is stable: of equal borders the one found first.                *)
Longest(walls) ==
  CHOOSE w \in walls :
    \A o \in walls \ {w} : \/ w.border > o.border
                           \/ /\ w.border = o.border
                              /\ Index(First(w.cells)) < Index(First(o.cells))

SelectMarkers(mask) ==
  LET walls == Walls(mask)
      total == MapThenSumSet(LAMBDA w : w.border, walls)
      a == Longest(walls)
      b == Longest(walls \ {a})
  IN IF mask = {} THEN Err("NoFreeComponent")
     ELSE IF Cardinality(walls) < 2 THEN Err("InsufficientMarkers")
     ELSE IF 100 * (a.border + b.border) < DominancePercent * total
          THEN Err("MarkerAmbiguity")
     ELSE Ok(<<a.cells, b.cells>>)

-----------------------------------------------------------------------------
(* plateau_segments: a chain of cells at equal distances must not branch    *)

Plateaus(mask, phi) == Components({c \in mask : phi[c] = 0})

SeparatesSigns(plateau, phi) ==
  LET around == UNION {Beside(c) : c \in plateau}
  IN (\E c \in around : phi[c] < 0) /\ (\E c \in around : phi[c] > 0)

Degree(plateau, c) == Cardinality(Beside(c) \cap plateau)

Branched(plateau) ==
  \/ \E c \in plateau : Degree(plateau, c) > 2
  \/ Cardinality({c \in plateau : Degree(plateau, c) = 1}) \notin {0, 2}

PlateausAreChains(mask, phi) ==
  LET parts == Plateaus(mask, phi)
  IN \A p \in parts :
       Cardinality(p) >= 2 /\ SeparatesSigns(p, phi) => ~Branched(p)

-----------------------------------------------------------------------------
(* cell_segments: marching squares                                          *)

Corners(c) == << c, <<c[1]+1, c[2]>>, <<c[1]+1, c[2]+1>>, <<c[1], c[2]+1>> >>
Edges == << <<1, 2>>, <<2, 3>>, <<4, 3>>, <<1, 4>> >>  (* top, right, bottom, left *)

(* f32::signum: zero counts as positive.                                    *)
Negative(value) == value < 0

(* edge_crossing: at a corner whose phi is zero, else between the two.      *)
CrossingPoint(phi, a, b) ==
  IF phi[a] = 0 THEN <<2*a[1], 2*a[2]>>
  ELSE IF phi[b] = 0 THEN <<2*b[1], 2*b[2]>>
  ELSE <<a[1] + b[1], a[2] + b[2]>>

(* segment: none from a point to itself                                     *)
Segment(p, q) == IF p = q THEN << >> ELSE << <<p, q>> >>

(* The segments of the square at c.  A saddle has a crossing on every edge; *)
(* its pairing keeps the larger clearance, which the squared distances do   *)
(* not tell: `saddle` says which.                                           *)
CellSegments(phi, c, saddle) ==
  LET k == Corners(c)
      crossed == {e \in 1..4 : Negative(phi[k[Edges[e][1]]]) # Negative(phi[k[Edges[e][2]]])}
      at(e) == CrossingPoint(phi, k[Edges[e][1]], k[Edges[e][2]])
  IN IF crossed = {} THEN << >>
     ELSE IF Cardinality(crossed) = 2 THEN Segment(at(Min(crossed)), at(Max(crossed)))
     ELSE IF saddle = "a" THEN Segment(at(1), at(2)) \o Segment(at(3), at(4))
     ELSE Segment(at(1), at(4)) \o Segment(at(2), at(3))

IsSaddle(phi, c) ==
  LET k == Corners(c)
  IN /\ Negative(phi[k[1]]) = Negative(phi[k[3]])
     /\ Negative(phi[k[2]]) = Negative(phi[k[4]])
     /\ Negative(phi[k[1]]) # Negative(phi[k[2]])

(* Mutant: squares with a blocked corner are marched through as well.       *)
SquaresAnywhere(mask) == {c \in Cells : ToSet(Corners(c)) \subseteq Cells}

(* cell_all_free                                                            *)
Squares(mask) == {c \in Cells : ToSet(Corners(c)) \subseteq mask}

(* separatrix_segments                                                      *)
Segments(mask, phi, saddle) ==
  LET squares == Squares(mask)
  IN FoldLeft(LAMBDA sofar, c : IF c \in squares
                                THEN sofar \o CellSegments(phi, c, saddle) ELSE sofar,
              << >>, RowMajor)

-----------------------------------------------------------------------------
(* stitch_closed_contours: the segments are the edges of a graph            *)

Incident(edges, v) == {i \in DOMAIN edges : v \in {edges[i][1], edges[i][2]}}

(* prune_open_chains: the indices of the edges left when every edge with a  *)
(* loose end has been taken away.                                           *)
PruneOpenChains(edges) ==
  LET degree(alive, v) == Cardinality(Incident(edges, v) \cap alive)
      kept(alive) ==
        {i \in alive : degree(alive, edges[i][1]) > 1 /\ degree(alive, edges[i][2]) > 1}
      pruned[alive \in SUBSET DOMAIN edges] ==
        IF kept(alive) = alive THEN alive ELSE pruned[kept(alive)]
  IN pruned[DOMAIN edges]

OtherEnd(edge, v) == IF edge[1] = v THEN edge[2] ELSE edge[1]

(* trace_cycle: the walk goes on along the first edge not yet used, or the  *)
(* first other one; the result is a cycle, none, or a walk that repeats     *)
(* itself for ever (`walked` holds the steps taken since the last edge not  *)
(* used before).                                                            *)
Walks(edges) ==
  LET ends == UNION {ToSet(edge) : edge \in ToSet(edges)}
  IN [used : SUBSET DOMAIN edges, walked : SUBSET ((DOMAIN edges) \X ends),
      cycle : Seq(ends), edge : DOMAIN edges]

Trace(edges, alive, usedBefore, first) ==
  LET trace[w \in Walks(edges)] ==
        LET edge    == w.edge
            current == OtherEnd(edges[edge], w.cycle[Len(w.cycle)])
            now     == w.used \cup {edge}
            since   == IF edge \in w.used THEN w.walked \cup {<<edge, current>>} ELSE {}
            others  == (Incident(edges, current) \cap alive) \ {edge}
            fresh   == others \ now
            next    == Min(IF fresh # {} THEN fresh ELSE others)
            back    == OtherEnd(edges[next], current) = w.cycle[Len(w.cycle)]
        IN IF current = w.cycle[1]
           THEN [kind |-> "cycle", points |-> w.cycle, used |-> now]
           ELSE IF others = {}
           THEN [kind |-> "none", points |-> << >>, used |-> now]
           ELSE IF back   (* next == prev; with an other edge the degree is over 1 *)
           THEN [kind |-> "none", points |-> << >>, used |-> now]
           ELSE IF edge \in w.used /\ <<edge, current>> \in w.walked
           THEN [kind |-> "endless", points |-> << >>, used |-> now]
           ELSE trace[[used |-> now, walked |-> since, cycle |-> Append(w.cycle, current),
                       edge |-> next]]
  IN trace[[used |-> usedBefore, walked |-> {}, cycle |-> <<edges[first][1]>>, edge |-> first]]

(* extract_cycles: a trace from every edge that no earlier one used.        *)
ExtractCycles(edges) ==
  LET alive == PruneOpenChains(edges)
      Step(acc, i) ==
        IF i \notin alive \/ i \in acc.used THEN acc
        ELSE LET t == Trace(edges, alive, acc.used, i)
             IN [used |-> t.used,
                 endless |-> acc.endless \/ t.kind = "endless",
                 cycles |-> IF t.kind = "cycle" /\ Len(t.points) >= 3
                            THEN acc.cycles \cup {t.points} ELSE acc.cycles]
  IN FoldLeft(Step, [used |-> {}, endless |-> FALSE, cycles |-> {}],
              [i \in DOMAIN edges |-> i])
=============================================================================
