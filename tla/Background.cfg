SPECIFICATION BackgroundSpec
CONSTANTS
  long = long
  Messages = {long}
  Long = {long}
  Relays = {}
  Keyed <- MCKeyed
  PoolOf <- MCPoolOf
  Configs <- MCConfigs
  None = None
  MaxOutages = 1
  MaxRestarts = 1
  MaxSaves = 1
  Users = {user}
  Nothing = Nothing
  MaxTraffic = 2
  MaxResets = 1
  MaxStops = 1
  Handlers = {h1, h2}
  Main = Main
  Ports = {port1, port2}
  Clients = {client}
  NoServer = NoServer
  MaxRequests = 3
  Ids = {p1, p2}
  Shapes <- MCShapes
  Workers = {w1, w2}
  Nobody = Nobody
  MaxVersions = 2
  MaxApplies = 2
  MaxEnds = 1
INVARIANTS
  KeepsItsWord
  NoNeedlessCopy
  CountersAreTrue
  ServerFollowsConfig
  ProfilesAgree
PROPERTIES
  EventuallyDealtWith
