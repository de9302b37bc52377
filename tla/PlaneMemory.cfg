SPECIFICATION Spec

CONSTANTS
  a = a
  b = b
  c = c
  d = d
  Local = {a, b, c, d}
  Remote = Remote
  NoSdom = NoSdom
  upwind <- CornerUp
  downwind <- CornerDown
  Programs <- AllBuilds
  NumIter = 2

INVARIANTS
  ReadsWhatArrived
  SendsTheFlux
  SweptOnReturn
  ReceivesInPlace
