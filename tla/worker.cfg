SPECIFICATION FairSpec
CONSTANTS
  Job = {j1, j2}
  Concurrency = 2
  CompleteBatch = 2
  MaxLines = 1
INVARIANTS WorkerSafe SuccessIsReported
PROPERTY Exits
