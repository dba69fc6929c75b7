SPECIFICATION Spec
CONSTANTS
  OperationID = {u1}
  CapabilityID = {cap}
  Operation = {oper}
  OwnerID = {owner1, owner2}
  MaxAccountGeneration = 1
  RootDigest = {d1}
  Grant = {g1}
  Missing = Missing
  None = None
  Request = {r1, r2}
  TombstoneFence = "root_digest"
  MaxCrashes = 0
  LegacyTombstone <- NoLegacy
INVARIANTS
  AcceptedMeansSameIdentity
CHECK_DEADLOCK FALSE
