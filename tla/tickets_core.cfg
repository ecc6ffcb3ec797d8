\* Two turns of one agent in two processes, one of which may crash, with everything that can go wrong.
SPECIFICATION Spec
CONSTANTS
  r1 = r1
  r2 = r2
  r3 = r3
  a1 = a1
  a2 = a2
  h1 = h1
  h2 = h2
  Requests = {r1, r2}
  Agents = {a1, a2}
  AgentOf <- AgentOfTwo
  Orgs = {1}
  OrgOf <- OneOrg
  Hosts = {h1, h2}
  HostOf <- TwoHosts
  Frail = {h1}
  None = None
  MaxLimit = 2
  InitLimit = 2
  Env = {"jobs", "giveup", "end", "cancel", "lost", "limit"}
INVARIANT TypeOK
INVARIANT OneProviderPerAgent
INVARIANT NothingStranded
INVARIANT SlotCoversProvider
INVARIANT PublisherHoldsSlot
CHECK_DEADLOCK FALSE
