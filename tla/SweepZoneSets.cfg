SPECIFICATION FairSpec

CONSTANTS
  NoSdom <- MinusOne
  NumSets = 2
  NumRanks <- RanksX
  NumZoneSets <- ZoneSetsY
  SweepDir <- OppositeOctants
  Sdom <- SdomIds
  Rank <- RankIds
  owner <- MCOwner
  upwind <- MCUpwind
  downwind <- MCDownwind
  NumIter = 2

INVARIANTS
  IndInv
  ReadyHasInputs
  MatchedAsMeant

PROPERTIES
  BuffersBelongToMPI
  SweepsInOrder
  Termination
