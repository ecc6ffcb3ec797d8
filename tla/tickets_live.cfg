\* Two agents of one org over one slot, with cancels and the crash of a process, under fairness.
SPECIFICATION FairSpec
CONSTANTS
  r1 = r1
  r2 = r2
  r3 = r3
  a1 = a1
  a2 = a2
  h1 = h1
  h2 = h2
  Requests = {r1, r2}
  Agents = {a1, a2}
  AgentOf <- AgentEach
  Orgs = {1}
  OrgOf <- OneOrg
  Hosts = {h1, h2}
  HostOf <- TwoHosts
  Frail = {h1}
  None = None
  MaxLimit = 1
  InitLimit = 1
  Env = {"end", "cancel"}
PROPERTY CancelStops
PROPERTY HalvesSettle
PROPERTY WaitersMove
PROPERTY LeaseSpec
CHECK_DEADLOCK FALSE
