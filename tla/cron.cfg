SPECIFICATION FairSpec
CONSTANTS
  Schedule = {s1}
  Scheduler = {p1, p2}
  Client = {c1}
  Expr = {1}
  Zone = {0, 1}
  Unknown = {1}
  Patch <- Rewrites
  Keep = Keep
  Batch = 1
  TickCap = 3
  MaxTime = 3
  MaxFaults = 1
INVARIANTS CronSafe TicksAccounted
PROPERTIES QuietWhilePaused Settles
