SPECIFICATION Spec
CONSTANTS
  Tenants <- MCTenants3
  Labels <- MCLabels
  StartsWith <- MCStartsWith
  s1 = s1
  s2 = s2
  s3 = s3
  low1 = low1
  low2 = low2
  i1 = i1
  i2 = i2
  ClientSocks = {s1, s2, s3}
  BrokerSocks = {low1, low2}
  Sockids = {s1, s2, s3, low1, low2}
  Ids = {i1}
  NoId = NoId
  RootId = RootId
  BrokerCookie = BrokerCookie
  Scope <- MCScope
  Limit = 2
  StartState = "UNREG"
  TenantOf <- OnePublic
  ClientNames <- MCNames1
  Dests <- MCDests
  ClientTopics <- None
  PubTopics <- None
  ClientScopes <- None
  RemotePubs <- None
SYMMETRY TenantSymmetry
INVARIANTS
  TypeOK
  LocalTablesAgree
  OneOwner
  DistRoutable
  AnnouncedUpstream
  TimersInStep
  Isolation
  ReplyReachesSender
  Decryptable
