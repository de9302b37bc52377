SPECIFICATION PoolSpec

CONSTANTS
  NumLocal <- SetsPQXZ
  Inputs <- SmallProblems
  Methods = {"sweep", "bj"}
  NumIter = 3

INVARIANTS
  FitsPool
  NothingToSpare
  NeverThrows
