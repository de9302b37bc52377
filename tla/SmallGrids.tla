----------------------------- MODULE SmallGrids -----------------------------
(***************************************************************************)
(* Grids small enough to model-check the solver on.                        *)
(***************************************************************************)
EXTENDS SweepGrid, TLC

Extent(x, y, z) == (0 :> x) @@ (1 :> y) @@ (2 :> z)

MinusOne == -1

(* One direction set.                                                      *)
OneOctant == 0 :> Extent(1, 1, 1)

(* Two direction sets, in opposite octants.                                *)
OppositeOctants == (0 :> Extent(1, 1, 1)) @@ (1 :> Extent(-1, -1, -1))

RanksX == Extent(2, 1, 1)
ZoneSetsY == Extent(1, 2, 1)

(* The tables, evaluated once.                                             *)
Table(f) == [s \in SdomIds |-> Extent(f[s][0], f[s][1], f[s][2])] @@ << >>

MCUpwind == Table(upwindOf)
MCDownwind == Table(downwindOf)
MCOwner == ownerOf @@ << >>

=============================================================================
