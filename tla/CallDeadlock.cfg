SPECIFICATION FairSpec
CONSTANTS
  Uuid = {c1, c2}
  Token = {}
  Missing = Missing
  None = None
  Activation = {a1, a2, a3, a4}
  PoolSize <- OneSlot
  PeerBound = FALSE
  Lossy = FALSE
  MaxSends = 1
  MaxTime = 0
PROPERTIES
  EveryCallReturns
CHECK_DEADLOCK FALSE
