SPECIFICATION LocksSpec
CONSTANTS
  r1 = r1
  r2 = r2
  r3 = r3
  j1 = j1
  j2 = j2
  w1 = w1
  w2 = w2
  Runner = {r1, r2, r3}
  Known <- Releases
  Broken = {3}
  MaxStarts = 2
  Job = {j1, j2}
  Worker = {w1, w2}
  Start <- Start2
  Tunings <- Changes
  MaxShards = 2
  Want = 2
  Unit = 2
  MaxTime = 1
  None = None
  Queued = Queued
  Done = Done
SYMMETRY Symmetric
CHECK_DEADLOCK FALSE
INVARIANTS MigrateSafe  RateHeld 
