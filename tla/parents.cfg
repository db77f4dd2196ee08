SPECIFICATION AckedSpec
CONSTANTS
  j1 = j1
  j2 = j2
  j3 = j3
  Job = {j1, j2, j3}
  Worker = {w1}
  NoWorker = NoWorker
  Scheduler = {s1}
  Deps <- Vee
  Shards = 1
  MaxConcurrency = 2
  Concurrency = 2
  MaxAttempts = 1
  MaxFence = 1
  MaxGen = 1
INVARIANTS ParentsFirst RowChecks
