SPECIFICATION FairSpec
CONSTANTS
  OperationID = {u1}
  CapabilityID = {cap}
  Operation = {oper}
  OwnerID = {owner1}
  MaxAccountGeneration = 1
  RootDigest = {d1}
  Grant = {g1}
  Missing = Missing
  None = None
  Request = {r1, r2}
  TombstoneFence = "replay_key"
  MaxCrashes = 1
  LegacyTombstone <- NoLegacy
PROPERTIES
  AdmittedIsDecided
  EveryStartIsAnswered
CHECK_DEADLOCK FALSE
