SPECIFICATION FairSpec
CONSTANTS
  t1 = t1
  t2 = t2
  r1 = r1
  Tx = {t1, t2}
  Reader = {r1}
  Project = {"p1", "p2"}
  Reads <- ReadsFirst
  Batch = 2
  MaxStreams = 1
  MaxDay = 1
INVARIANTS OutboxSafe LowWaterCoversDrops
PROPERTY Delivered
