CONSTANTS
  w1 = w1
  w2 = w2
  c1 = c1
  Runs <- TwoRuns
  Workers <- OneWorker
  Calls <- OneCall
  NoRun = 0
  NoWorker = NoWorker
  NodeLevel <- OnlyRun1
  EarlyFlush <- FlushOfRun1
  Triggering <- OnlyRun1
  Interval = 1
  ReapAfter = 2
  BatchLimit = 1
  MaxFaults = 1
SPECIFICATION FairSpec
INVARIANTS
  RetryOfEnded
PROPERTIES
  ImplementsLifecycle
  OrphanIsReaped
  QuietRunLeavesRunning
  CancelReachesExecutor
