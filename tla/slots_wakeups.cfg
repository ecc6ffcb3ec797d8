\* Claims of two agents and the user while slots come free, the slot count changes and holders become unfit, each followed by what the code promises.
CONSTANTS
  a1 = a1
  a2 = a2
  r1 = r1
  r2 = r2
  User = user
  Agents = {a1, a2}
  Requests = {r1, r2}
  MaxCap = 2
  InitCap = 2
  Audience = {}
  Reminders = 0
  MaxCrashes = 0
  MaxActs = 0
  MaxDue = 2
  Env = {"delegate", "inline", "setslots", "die", "halt", "move", "user"}
SYMMETRY Symmetry
SPECIFICATION Spec
INVARIANTS UnfitHolderLeaves NoLostWakeup
PROPERTIES CapacityKept UserHoldsLast
CHECK_DEADLOCK FALSE
