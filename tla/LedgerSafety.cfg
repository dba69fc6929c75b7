SPECIFICATION Spec
CONSTANTS
  OperationID = {u1}
  CapabilityID = {cap}
  Operation = {oper}
  OwnerID = {owner1, owner2}
  MaxAccountGeneration = 1
  RootDigest = {d1}
  Grant = {g1, g2}
  Missing = Missing
  None = None
  Request = {r1, r2, r3}
  TombstoneFence = "replay_key"
  MaxCrashes = 1
  LegacyTombstone <- LegacyDigestOnly
INVARIANTS
  AtMostOnceSideEffect
  AcceptedMeansSameIdentity
  RenewalNeverConflicts
  CancelledBeforeRunHasNoEffect
  CompletedHasItsEffect
PROPERTIES
  TerminalImmutable
  DisclosedMonotone
  ImplementsContract
SYMMETRY Symmetry
CHECK_DEADLOCK FALSE
