SPECIFICATION PathsSpec
CONSTANTS
  u1 = u1
  u2 = u2
  owner1 = owner1
  execute = execute
  read = read
  write = write
  run = run
  list = list
  chat = chat
  send = send
  find = find
  one = one
  empty = empty
  file = file
  NotObject = NotObject
  Missing = Missing
  Nil = Nil
  Uuid <- MCUuid
  Token <- MCToken
  OwnerID <- MCOwnerID
  Owner = owner1
  MaxAccountGeneration = 2
  Scope <- MCScope
  Descriptor <- MCDescriptor
  RootDigest <- MCRootDigest
  DefaultGrantTTL = 2
  DefaultProductDelegationTTL = 1
  DefaultGrantClockSkew = 1
  Input <- MCInput
  EmptyObject = empty
  Business <- MCBusiness
  Queries <- MCQueries
  Catalog <- MCCatalog
  SchemaOf <- MCSchemaOf
  Attached <- MCAttached
  Setting <- MCSetting
  RequiredScope = execute
  GrantedScopes <- MCGrantedScopes
  HopBudget = {2}
  CallTime = {1}
  MaxGrants = 2
  MaxRequests = 2
  RootDescriptor <- MCRootDescriptor
  RootBusiness <- MCRootBusiness
  RootScopes <- MCScope
  BrokerScope = execute
  ScopeOf <- MCScopeOf
  Deadline = 2
  MaxExchanges = 2
  NestedBusiness <- MCNestedBusiness
  NestedMixed <- MCNestedMixed
  NestedMaxTime = 3
INVARIANTS
  PathsTypeOK
  TakenIsSigned
  ReplayIsExact
  PassedIsTaken
SYMMETRY Symmetry
