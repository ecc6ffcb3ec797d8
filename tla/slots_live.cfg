\* Two agents, one of them outside the line, and one slot, with the idle reclaim of the checkup and a crash, under fairness.
CONSTANTS
  a1 = a1
  a2 = a2
  r1 = r1
  r2 = r2
  User = user
  Agents = {a1, a2}
  Requests = {r1, r2}
  MaxCap = 1
  InitCap = 1
  Audience = {a1}
  Reminders = 1
  MaxCrashes = 1
  MaxActs = 0
  MaxDue = 2
  Env = {"inline", "delegate", "unqueue", "idle"}
SPECIFICATION FairSpec
INVARIANTS TypeOK FireOwed
PROPERTIES WaitersServed
CHECK_DEADLOCK FALSE
