SPECIFICATION Spec

CONSTANTS
  NumLocal <- SetsPQXY
  Meshes <- SmallMeshes
  NumGroups = 2

INVARIANTS
  RangesMatchZones
  SigtOfSamples
  MirrorImage
  PoolCountsMixed
