CONSTANTS
  w1 = w1
  w2 = w2
  c1 = c1
  Runs <- OnlyRun1
  Workers <- OneWorker
  Calls <- NoneOf
  NoRun = 0
  NoWorker = NoWorker
  NodeLevel <- OnlyRun1
  EarlyFlush <- FlushOfRun1
  Triggering <- OnlyRun1
  Interval = 1
  ReapAfter = 2
  BatchLimit = 1
  MaxFaults = 0
SPECIFICATION FairSpec
PROPERTIES
  FinishedRunLeavesRunning
