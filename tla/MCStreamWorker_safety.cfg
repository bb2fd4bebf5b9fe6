SPECIFICATION Spec
CONSTANTS
  Schedules = {s1}
  Runs <- TwoRuns
  Replicas = {w1, w2}
  NoRun = NoRun
  NoReplica = NoReplica
  NoSchedule = NoSchedule
  MaxEdits = 1
  MaxFaults = 2
SYMMETRY Processes
INVARIANTS
  TypeOK
  OneRunningPerSchedule
  TasksAreTracked
  RespawnNeedsEdit
PROPERTIES
  VerdictStands
