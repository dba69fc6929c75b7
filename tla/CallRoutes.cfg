SPECIFICATION Spec
CONSTANTS
  Uuid = {c1, c2}
  Token = {}
  Missing = Missing
  None = None
  Activation = {a1, a2, a3, a4}
  PoolSize <- OneSlot
  PeerBound = TRUE
  Lossy = TRUE
  MaxSends = 2
  MaxTime = 2
INVARIANTS
  RouteIsTheTrace
  InheritsCall
  ProductIsTerminal
SYMMETRY Symmetry
CHECK_DEADLOCK FALSE
