\* Two turns of one org and one of another, one interrupted and one halted, over a changing limit.
SPECIFICATION Spec
CONSTANTS
  a1 = a1
  a2 = a2
  a3 = a3
  Agents = {a1, a2, a3}
  Orgs = {1, 2}
  OrgOf <- Outnumbered
  None = None
  Interrupted = {a1}
  Halted = {a3}
  Limits = {0, 2}
  InitLimit = 2
INVARIANT TypeOK
INVARIANT HeldCounts
INVARIANT TicketsKept
INVARIANT NoIdleSlot
INVARIANT NoLostWakeup
INVARIANT CutHonoured
PROPERTY OrgsAlternate
