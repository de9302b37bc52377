---------------------------- MODULE MCPartition -----------------------------
(***************************************************************************)
(* Small decompositions.                                                   *)
(***************************************************************************)
EXTENDS Partition, TLC

By5(p, q, x, y, z) == (0 :> p) @@ (1 :> q) @@ (2 :> x) @@ (3 :> y) @@ (4 :> z)

Flags(x, y, z) == (0 :> x) @@ (1 :> y) @@ (2 :> z)

RanksXY == By5(1, 1, 2, 2, 1)

(* Two group sets, two direction sets and two zone sets in y.              *)
SetsPQY == By5(2, 2, 1, 2, 1)

Opposite == (0 :> Flags(1, -1, 1)) @@ (1 :> Flags(-1, 1, -1))

Uneven == [r \in Rank |-> [c \in Chunks("R") |-> 1 + ((r + c) % 3)]]

Sizes(g, i, j, k) ==
  [Group |-> g, Direction |-> 4, ZoneI |-> i, ZoneJ |-> j, ZoneK |-> k]

EvenAndOdd == {Sizes(4, 4, 8, 1), Sizes(4, 3, 4, 2)}

=============================================================================
