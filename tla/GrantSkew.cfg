SPECIFICATION Spec
CONSTANTS
  Uuid = {c1}
  Token = {}
  Missing = Missing
  None = None
  OwnerID = {owner1}
  MaxAccountGeneration = 1
  Scope = {execute, send}
  Descriptor = {agentRun, message}
  RootDigest = {d1, d2}
  DefaultGrantTTL = 2
  DefaultProductDelegationTTL = 1
  DefaultGrantClockSkew = 1
  RootOperation = c1
  Owner = owner1
  AgentTarget = agentRun
  AgentDigest = d1
  BrokerScope = execute
  Drift <- Behind
  OfferedHops = {3}
  CallTime = {1, 2}
  Asked <- SomeExchanges
  MaxTime = 3
  MaxOffers = 1
INVARIANTS
  FreshGrantAcceptedWithinSkew
CHECK_DEADLOCK FALSE
