SPECIFICATION FairSpec
CONSTANTS
  c1 = c1
  c2 = c2
  s1 = s1
  s2 = s2
  Clients = {c1, c2}
  Servers = {s1}
  MaxClients = 1
  Env <- TwoEnvs
  NoOne = NoOne
  NoSock = NoSock
PROPERTY SessionResolves
PROPERTY ServersRetire
CHECK_DEADLOCK FALSE
