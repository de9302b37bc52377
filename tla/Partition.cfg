SPECIFICATION Spec

CONSTANTS
  NumProcs <- RanksXY
  NumLocal <- SetsPQY
  Problems <- EvenAndOdd
  NumMixed <- Uneven
  SetFlags <- Opposite

INVARIANTS
  TablesExact
  BuildsSweepGrid
  SetsTile
  ZonesFollowGrid

PROPERTY
  AllSetUp
