SPECIFICATION FairSpec
CONSTANTS
  j1 = j1
  j2 = j2
  j3 = j3
  Job = {j1}
  Worker = {w1, w2}
  NoWorker = NoWorker
  Scheduler = {s1}
  Deps <- NoDeps
  Shards = 1
  MaxConcurrency = 2
  Concurrency = 1
  MaxAttempts = 2
  MaxFence = 3
  MaxGen = 1
INVARIANTS TypeOK FenceHeldOnce LedgerExact LeaseIffActive CompletedOnce
PROPERTIES ClosedStaysClosed  Recovered
