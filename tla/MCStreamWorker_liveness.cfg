SPECIFICATION FairSpec
CONSTANTS
  Schedules = {s1}
  Runs <- TwoRuns
  Replicas = {w1}
  NoRun = NoRun
  NoReplica = NoReplica
  NoSchedule = NoSchedule
  MaxEdits = 2
  MaxFaults = 2
PROPERTIES
  GhostIsReaped
  InactiveIsStopped
