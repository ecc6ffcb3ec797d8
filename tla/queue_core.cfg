\* Two mails to two projects, one of which relays from the other, with an act of the user or a mishap of an agent.
SPECIFICATION Spec
CONSTANTS
  a1 = a1
  a2 = a2
  t1 = t1
  t2 = t2
  Agents = {a1, a2}
  User = user
  None = none
  Projects = {1, 2}
  Listeners <- WithUser
  Once <- Brief
  Batch <- OneAtATime
  FirstModes <- BothAck
  MaxAttempts = 2
  Reminders = 1
  Tasks = {t1, t2}
  MaxMail = 2
  MaxActs = 1
  Env = {"halt", "alone", "takeback", "letters", "mode", "remind", "die", "purge", "dogs", "move", "crash"}
SYMMETRY Symmetry
INVARIANTS TypeOK HeirLinked RelaySettles NoIdleListener BatchKept
PROPERTY AckFinal
CHECK_DEADLOCK FALSE
