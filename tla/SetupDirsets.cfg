SPECIFICATION Spec

CONSTANT
  Inputs <- FakeInputs

INVARIANTS
  DirsetsAreMultipleOf8
