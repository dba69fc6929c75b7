SPECIFICATION Spec
CONSTANTS
  Uuid = {c1}
  Token = {t1}
  Missing = Missing
  Foreign = Foreign
  MaxLength = 4
INVARIANTS
  AgentBoundaryFollowsPaths
CHECK_DEADLOCK FALSE
