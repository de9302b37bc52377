SPECIFICATION Spec

CONSTANT
  Inputs <- AllInputs

INVARIANTS
  OneOctantIfAligned
  OctantsBalanced
  EnoughSets
