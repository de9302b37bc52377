SPECIFICATION Spec

CONSTANTS
  NumLocal <- SetsPQXZ
  NumIter = 2

INVARIANT
  CountsAllFlux

PROPERTY
  SweepsFullSource
