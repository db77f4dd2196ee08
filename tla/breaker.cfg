SPECIFICATION FairSpec
CONSTANTS
  Job = {j1, j2}
  Worker = {w1, w2}
  Scheduler = {p1}
  None = None
  Window = 2
  Trip = 1
  Cooldown = 1
  MaxInFlight = 2
  MaxTime = 2
INVARIANT BreakerSafe
PROPERTIES  OpenEnds
