SPECIFICATION Spec

CONSTANT
  Inputs <- PolarAsDocumented

INVARIANTS
  SingleOriginatingOctant
