SPECIFICATION FairSpec
CONSTANTS
  Job = {1, 2, 3}
  Existing = {1}
  Foreign = {}
  Client = {c1, c2}
  Key = {k1}
  Body = {x}
  None = None
  MaxDepth = 2
  MaxTries = 2
  MaxParents = 2
  MaxReplays = 1
  Worked = {1, 2}
  MaxTunings = 1
CHECK_DEADLOCK FALSE
INVARIANT SubmissionSafe
PROPERTIES NotBeforeParents RepeatFindsOriginal 
