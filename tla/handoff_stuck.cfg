\* A turn whose process crashes between the two commits of its end.
SPECIFICATION FairSpec
CONSTANTS
  r1 = r1
  r2 = r2
  r3 = r3
  a1 = a1
  a2 = a2
  h1 = h1
  h2 = h2
  Requests = {r1, r2}
  Agents = {a1, a2}
  AgentOf <- AgentEach
  Orgs = {1}
  OrgOf <- OneOrg
  Hosts = {h1, h2}
  HostOf <- TwoHosts
  Frail = {h1}
  None = None
  MaxLimit = 1
  InitLimit = 1
  Env = {"end"}
PROPERTY HandoffsSettle
CHECK_DEADLOCK FALSE
