SPECIFICATION Spec
CONSTANTS
  Target = {t1, t2}
  Worker = {w1, w2}
  MinCycle = 2
  MaxChanges = 4
  MaxCrashes = 1
INVARIANTS TypeOK NoLostTarget TicketsBounded
PROPERTIES RestPeriod ProbedForever LeftAlone
