\* An agent is halted while mail is handed to it.
SPECIFICATION Spec
CONSTANTS
  a1 = a1
  a2 = a2
  t1 = t1
  t2 = t2
  Agents = {a1, a2}
  User = user
  None = none
  Projects = {1, 2}
  Listeners <- Each
  Once = {}
  Batch <- OneAtATime
  FirstModes <- BothAck
  MaxAttempts = 1
  Reminders = 0
  Tasks = {t1, t2}
  MaxMail = 1
  MaxActs = 1
  Env = {"halt"}
SYMMETRY Symmetry
INVARIANT HolderFit
CHECK_DEADLOCK FALSE
