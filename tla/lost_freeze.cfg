\* The head of the line is frozen at the end of its turn.
CONSTANTS
  a1 = a1
  a2 = a2
  r1 = r1
  r2 = r2
  r3 = r3
  User = user
  Agents = {a1, a2}
  Requests = {r1, r2, r3}
  MaxCap = 2
  InitCap = 2
  Audience = {}
  Reminders = 1
  MaxCrashes = 0
  MaxActs = 0
  MaxDue = 1
  Env = {"delegate", "freeze"}
SYMMETRY Symmetry
SPECIFICATION Spec
INVARIANTS NoLostWakeup
CHECK_DEADLOCK FALSE
