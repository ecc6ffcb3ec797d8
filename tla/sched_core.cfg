SPECIFICATION Spec
CONSTANTS
  a1 = a1
  a2 = a2
  a3 = a3
  a4 = a4
  Agents = {a1, a2}
  Orgs = {1, 2}
  OrgOf <- Apart
  Servers = {gpu}
  LaneCap <- OneEach
  Warming = {gpu}
  None = None
  gpu = gpu
  FirstSeats <- Anywhere
  Slots = {s1, s2, s3}
  MaxLimit = 2
  InitLimit = 2
  MaxChan = 2
  Env = {"idle", "limit", "switch"}
SYMMETRY Symmetry
INVARIANT TypeOK
INVARIANT HeldCounts
INVARIANT LaneKept
INVARIANT WaiterWanted
INVARIANT NoIdleSlot
PROPERTY LimitKept
