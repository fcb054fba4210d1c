------------------------------ MODULE MC_Solver ------------------------------
(* A ring track, three lanes wide around an island of nine cells, with one  *)
(* cell of it blocked, or two in a row below the island, or with a piece of *)
(* the island's side missing; a track with a small island, one with a cell  *)
(* never seen; invalid grids, and a map without a grid.                     *)
EXTENDS Solver

Border == {c \in Cells : c[1] \in {0, Width - 1} \/ c[2] \in {0, Height - 1}}
Middle == <<Width \div 2, Height \div 2>>
Island == Window(Middle, 1)
Track  == Cells \ (Border \cup Island)

Grid(free, unseen) ==
  [c \in Cells |-> IF c \in unseen THEN 0 ELSE IF c \in free THEN -1 ELSE 1]
Below == {c \in Track : c[2] < Middle[2] - 1 /\ c[1] \in (Middle[1] - 1)..(Middle[1] + 1)}
Obstacles ==
  {{}} \cup {{c} : c \in Track} \cup {{c, <<c[1] + 1, c[2]>>} : c \in Below}
Islands == {Island \ {<<Middle[1] + 1, Middle[2]>>}, {Middle},
            Island \ {<<Middle[1] + 1, Middle[2] + 1>>}}

MCOffsets == {-4, 0, 4}

MCMaps ==
  {[grid |-> Grid(Track \ blocked, {}), complete |-> TRUE] : blocked \in Obstacles}
  \cup {[grid |-> Grid(Cells \ (Border \cup island), {}), complete |-> TRUE] :
          island \in Islands}
  \cup {[grid |-> Grid(Track \ {<<1, 1>>}, {<<1, 1>>}), complete |-> TRUE],
        [grid |-> Grid({}, {}), complete |-> TRUE],
        [grid |-> Grid(Cells, {}), complete |-> TRUE],
        [grid |-> [c \in { <<0, 0>> } |-> -1], complete |-> TRUE],
        [grid |-> [c \in Cells |-> NotFinite], complete |-> TRUE],
        [grid |-> NoGrid, complete |-> FALSE]}
=============================================================================
