SPECIFICATION Spec
CONSTANTS
  Schedules = {s1}
  Runs <- TwoRuns
  Replicas = {w1}
  NoRun = NoRun
  NoReplica = NoReplica
  NoSchedule = NoSchedule
  MaxEdits = 0
  MaxFaults = 0
INVARIANT ExitLeavesNoRunningRow
