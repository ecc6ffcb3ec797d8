SPECIFICATION FairSpec
CONSTANTS
  a1 = a1
  a2 = a2
  a3 = a3
  a4 = a4
  Agents = {a1, a2, a3, a4}
  Orgs = {1, 2}
  OrgOf <- Outnumbered
  Servers = {}
  LaneCap <- OneEach
  Warming = {}
  None = None
  gpu = gpu
  FirstSeats <- Anywhere
  Slots = {s1, s2, s3, s4}
  MaxLimit = 1
  InitLimit = 1
  MaxChan = 1
  Env = {}
PROPERTY TurnsServed
