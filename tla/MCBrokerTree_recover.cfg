SPECIFICATION LSpec
CONSTANTS
  Tenants <- MCTenants
  Labels <- MCLabels
  StartsWith <- MCStartsWith
  root = root
  n1 = n1
  n2 = n2
  c1 = c1
  c2 = c2
  c3 = c3
  NoId = NoId
  RootId = RootId
  BrokerCookie = BrokerCookie
  Scope <- NoScope
  Sockids <- MCSockids
  Root = root
  Brokers = {root, n1, n2}
  Parent <- Chain
  Clients = {c1,c2}
  Home <- HomeChain
  NameOf <- OwnName
  Timely = TRUE
  Traffic = {}
  MayLeave = {}
  MaxConn <- Reconnect
  MaxQueue = 2
  MaxCrash = 1
  MayCrash = {root,n1,n2}
  Limit = 1
INVARIANTS
  Synced
  OneTimer
  NoFalseRefusal
PROPERTY Recovers
