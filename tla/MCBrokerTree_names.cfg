SPECIFICATION LSpec
CONSTANTS
  Tenants <- MCTenants
  Labels <- MCLabels
  StartsWith <- MCStartsWith
  root = root
  n1 = n1
  n2 = n2
  c1 = c1
  c2 = c2
  c3 = c3
  NoId = NoId
  RootId = RootId
  BrokerCookie = BrokerCookie
  Scope <- NoScope
  Sockids <- MCSockids
  Root = root
  Brokers = {root, n1, n2}
  Parent <- Star
  Clients = {c1, c2, c3}
  Home <- HomeBoth
  NameOf <- SameName
  Timely = TRUE
  Traffic <- ToC3
  MayLeave = {c3}
  MaxConn <- TwoConn
  MaxQueue = 2
  MaxCrash = 1
  MayCrash = {root}
  Limit = 1
INVARIANTS
  TypeOK
  UniqueNames
  Synced
PROPERTY
  ForwardEnds
