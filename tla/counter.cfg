SPECIFICATION AckedSpec
CONSTANTS
  j1 = j1
  j2 = j2
  j3 = j3
  Job = {j1, j2}
  Worker = {w1, w2}
  NoWorker = NoWorker
  Scheduler = {s1}
  Deps <- NoDeps
  Shards = 2
  MaxConcurrency = 1
  Concurrency = 2
  MaxAttempts = 1
  MaxFence = 2
  MaxGen = 0
SYMMETRY SymmetricJobs
INVARIANTS CounterCovers WithinConcurrency
