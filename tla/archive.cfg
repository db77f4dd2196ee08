SPECIFICATION FairSpec
CONSTANTS
  Job = {j1, j2}
  Archiver = {a1,a2}
  After = 1
  DeadAfter = 2
  KeyLife = 1
  Hot = 1
  Batch = 1
  MaxTime = 3
  MaxGen = 1
  MaxLogs = 1
  Busy = {j1}
INVARIANTS ArchiveSafe LiveKeyFindsJob
PROPERTY OldJobsGo
