SPECIFICATION LSpec
CONSTANTS
  Tenants <- MCTenants
  Labels <- MCLabels
  StartsWith <- MCStartsWith
  root = root
  n1 = n1
  n2 = n2
  c1 = c1
  c2 = c2
  c3 = c3
  NoId = NoId
  RootId = RootId
  BrokerCookie = BrokerCookie
  Scope <- MCScope
  Sockids = {c1, c2, c3}
  Limit = 1
  Root = root
  Brokers = {root, n1, n2}
  Parent <- Chain
  Clients = {c1, c2, c3}
  Home <- MCHome
  NameOf <- MCNameOf
  TopicsOf <- MCTopicsOf
  PubTopics <- MCPubTopics
  ClientScopes <- MCScopes
  Publishers = {c1, c3}
  MayLeave = {c2}
  MaxPairs <- Twice
  MaxOps = 3
INVARIANTS
  ReachesSubscribers
  AtMostOnce
  NoLeftovers
PROPERTY PublicationsEnd
CHECK_DEADLOCK FALSE
