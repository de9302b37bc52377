SPECIFICATION Spec

CONSTANTS
  MixTables <- TwoZones
  Extents <- SmallExtents

INVARIANTS
  OneWriterPerCell
  NothingLost
  SameSumEverywhere
  ReadsUpwind
