\* Claims of two agents that join and leave the line in every way, with every way an agent stops and goes on, while transactions fail.
CONSTANTS
  a1 = a1
  a2 = a2
  r1 = r1
  r2 = r2
  User = user
  Agents = {a1, a2}
  Requests = {r1, r2}
  MaxCap = 2
  InitCap = 2
  Audience = {}
  Reminders = 0
  MaxCrashes = 0
  MaxActs = 1
  MaxDue = 1
  Env = {"inline", "delegate", "remove", "pause", "resume", "edit", "freeze", "removal", "noaccount", "continue", "userhalt", "retire", "rehire", "project", "dbfail"}
SYMMETRY Symmetry
SPECIFICATION Spec
INVARIANTS AnchorsDistinct OneInLine
PROPERTIES StrictFIFO PoolSpec
CHECK_DEADLOCK FALSE
