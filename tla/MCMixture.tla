----------------------------- MODULE MCMixture ------------------------------
(***************************************************************************)
(* Mixture on small meshes.                                                *)
(***************************************************************************)
EXTENDS Mixture, TLC

(* Two group sets, two direction sets, and zone sets in x and y.           *)
SetsPQXY == (0 :> 2) @@ (1 :> 2) @@ (2 :> 2) @@ (3 :> 2) @@ (4 :> 1)

Mesh(i, j, k, n) == [zones |-> (0 :> i) @@ (1 :> j) @@ (2 :> k), samples |-> n]

(* From one sample per zone, which mixes nothing, to all three materials   *)
(* in one zone.                                                            *)
SmallMeshes == {Mesh(1, 1, 1, 1), Mesh(1, 1, 2, 2), Mesh(2, 2, 1, 2), Mesh(2, 2, 2, 3),
                Mesh(1, 2, 3, 5), Mesh(3, 1, 1, 4)}

=============================================================================
