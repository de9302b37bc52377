SPECIFICATION FairSpec

CONSTANTS
  NoSdom <- MinusOne
  NumSets = 1
  NumRanks <- RanksX
  NumZoneSets <- ZoneSetsY
  SweepDir <- OneOctant
  Sdom <- SdomIds
  Rank <- RankIds
  owner <- MCOwner
  upwind <- MCUpwind
  downwind <- MCDownwind
  NumIter = 2

INVARIANTS
  IndInv
  CopiesAreSettled
  ReadyIsSettled
  ReadyListValid
  OneMessagePerEnvelope
  NothingPendingAfterSweep

PROPERTIES
  BuffersBelongToMPI
  OncePerIteration
  Termination
