SPECIFICATION Spec
CONSTANTS
  c1 = c1
  c2 = c2
  s1 = s1
  s2 = s2
  Clients = {c1, c2}
  Servers = {s1, s2}
  MaxClients = 1
  Env <- TwoEnvs
  NoOne = NoOne
  NoSock = NoSock
SYMMETRY ServerSymmetry
INVARIANT TypeOK
INVARIANT ClientsCounted
INVARIANT OneServerUnlessAbandoned
PROPERTY IdleExitStrandsNobody
CHECK_DEADLOCK FALSE
