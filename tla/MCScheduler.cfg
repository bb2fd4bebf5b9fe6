SPECIFICATION FairSpec
CONSTANTS
  Schedules = {s1}
  Pipelines = {p1}
  Replicas = {w1, w2}
  NoReplica = NoReplica
  Cron <- Minutely
  Horizon = 2
  Sla = 1
  MaxRequests = 1
  MaxFaults = 1
INVARIANTS
  TypeOK
  NoDoubleFire
  
  CooldownPerReplica
PROPERTY DueIsFired
