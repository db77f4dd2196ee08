SPECIFICATION Spec
CONSTANTS
  j1 = j1
  j2 = j2
  j3 = j3
  Job = {j1}
  Worker = {w1}
  NoWorker = NoWorker
  Scheduler = {s1}
  Deps <- NoDeps
  Shards = 1
  MaxConcurrency = 1
  Concurrency = 1
  MaxAttempts = 1
  MaxFence = 1
  MaxGen = 0
INVARIANT CounterNeverLow
