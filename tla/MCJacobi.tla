------------------------------ MODULE MCJacobi ------------------------------
(***************************************************************************)
(* BlockJacobi on small grids.                                             *)
(***************************************************************************)
EXTENDS BlockJacobi, SmallGrids

=============================================================================
