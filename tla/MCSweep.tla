------------------------------ MODULE MCSweep -------------------------------
(***************************************************************************)
(* SweepSolver on small grids.                                             *)
(***************************************************************************)
EXTENDS SweepSolver, SmallGrids

=============================================================================
