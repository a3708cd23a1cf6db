SPECIFICATION LSpec
CONSTANTS
  Tenants <- MCTenants
  Labels <- MCLabels
  StartsWith <- MCStartsWith
  root = root
  n1 = n1
  n2 = n2
  c1 = c1
  c2 = c2
  c3 = c3
  NoId = NoId
  RootId = RootId
  BrokerCookie = BrokerCookie
  Scope <- NoScope
  Sockids <- MCSockids
  Root = root
  Brokers = {root, n1, n2}
  Parent <- Star
  Clients = {c1, c2, c3}
  Home <- HomeStar
  NameOf <- SameName
  Timely = TRUE
  Traffic <- FromC3
  MayLeave = {c2}
  MaxConn <- OneConn
  MaxQueue = 2
  MaxCrash = 0
  MayCrash = {}
  Limit = 1
PROPERTY
  ForwardEnds
