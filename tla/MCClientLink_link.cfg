SPECIFICATION Spec
CONSTANTS
  Tenants <- MCTenants
  Labels <- MCLabels
  StartsWith <- MCStartsWith
  s1 = s1
  s2 = s2
  s3 = s3
  Sockids = {s1, s2, s3}
  NoId = NoId
  RootId = RootId
  BrokerCookie = BrokerCookie
  Scope <- MCScope
  Limit = 1
  Tenant = "ta"
  ClientName <- MCName
  Calls <- MCCalls
  MaxCalls = 3
  MaxTrouble = 1
INVARIANTS
  OneLoop
  PingChain
  SubscriptionsHeld
PROPERTY
  EventuallyServed
