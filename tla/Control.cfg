SPECIFICATION Spec
CONSTANTS
  Uuid = {c1, c2}
  Token = {}
  Missing = Missing
  None = None
  OwnerID = {owner1}
  MaxAccountGeneration = 2
  Scope = {execute}
  Descriptor = {message}
  RootDigest = {d1}
  DefaultGrantTTL = 3
  DefaultProductDelegationTTL = 2
  DefaultControlGrantTTL = 2
  DefaultGrantClockSkew = 1
  Owner = owner1
  RequiredActions <- CancelAndReconcile
  Drift <- Around
  ClockSkew = 1
  Lives = {1}
  Entries = {"ms"}
  Found = {"completed"}
  CallTime = {1, 2}
  ReplyLengths = {1, 2}
  MaxTime = 2
  MaxStarts = 2
INVARIANTS
  HeldSetIsWhole
  ServedOnItsOwnRoute
  FreshSetAccepted
PROPERTIES
  ImplementsPermits
  LifecycleNeedsItsGrant
SYMMETRY Chains
CHECK_DEADLOCK FALSE
