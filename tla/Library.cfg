SPECIFICATION MCSpec
CONSTANTS
  None = None
  Missing = Missing
  Foreign = Foreign
  u1 = u1
  t1 = t1
  owner1 = owner1
  message = message
  d1 = d1
  k1 = k1
  k2 = k2
  l1 = l1
  l2 = l2
  l3 = l3
  Uuid <- MCUuid
  Token <- MCToken
  OwnerID <- MCOwnerID
  MaxAccountGeneration = 15
  Scope <- MCScope
  Descriptor <- MCDescriptor
  RootDigest <- MCRootDigest
  DefaultGrantTTL = 3
  DefaultProductDelegationTTL = 2
  DefaultControlGrantTTL = 2
  DefaultGrantClockSkew = 1
  KeyPair <- MCKeyPair
  DefaultGrantMaxSize = 2
  Setting <- MCSetting
  MaxBlocks = 2
  AgentBinding <- MCAgentBinding
  AgentControl <- MCAgentControl
  SignTime = {1}
  ReadTime = {1, 4}
  MaxLength = 4
  MaxChunks = 6
  MaxOutside = 3
  Location <- MCLocation
  Root = l1
  Leaf = {"text", "channel"}
  MaxItems = 2
  MaxName = 4
  MaxScope = 2
  Names <- MCNames
  Lists <- MCLists
  CapabilityTokenBytes = 1
  MaxInteger = 60
  Instance <- MCInstance
  RawTokens <- MCRawTokens
  Generations = {0, 10, 15, 16}
  MaxText = 2
  Spelled <- MCSpelled
  CanonicalForms <- MCCanonicalForms
  MaxTokens = 6
  MaxDepth = 3
INVARIANTS
  LibraryTypeOK
  BoundariesAreExact
  NothingIsLostInReading
  RefusedOnlyIfNested
  ListsAreSets
  GrantReadAsSigned
  GrantTextIsItsClaims
  OneTextPerValue
  CanonicalFormsStay
  IdentityHasOneSpelling
PROPERTIES
  KeyStaysOrIsRefused
CHECK_DEADLOCK FALSE
