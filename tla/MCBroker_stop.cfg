SPECIFICATION Spec
CONSTANTS
  Tenants <- MCTenants
  Labels <- MCLabels
  StartsWith <- MCStartsWith
  s1 = s1
  s2 = s2
  s3 = s3
  low1 = low1
  low2 = low2
  i1 = i1
  i2 = i2
  ClientSocks = {s1, s2}
  BrokerSocks = {}
  Sockids = {s1, s2}
  Ids = {i1}
  NoId = NoId
  RootId = RootId
  BrokerCookie = BrokerCookie
  Scope <- MCScope
  Limit = 1
  StartState = "UNREG"
  TenantOf <- OneEach
  ClientNames <- MCNames1
  Dests <- None
  ClientTopics <- MCTopics
  PubTopics <- MCTopics
  ClientScopes <- MCScopes
  RemotePubs <- None
INVARIANTS
  UnsubscribeStops
