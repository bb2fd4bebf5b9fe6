-------------------------- MODULE StreamWorkerProofs --------------------------
(***************************************************************************)
(* Theorems about StreamWorker, for every set of schedules, runs and       *)
(* processes and every number of edits and faults.                         *)
(***************************************************************************)
EXTENDS StreamWorker, TLAPS

-----------------------------------------------------------------------------
(***************************************************************************)
(* Type correctness                                                        *)
(***************************************************************************)
\* The fault counter stays within its bound.
LEMMA FaultType ==
  ASSUME TypeOK, Fault
  PROVE  faults' \in 0..MaxFaults
BY BoundsAssumption DEF TypeOK, Fault

\* A transaction that ends gives back the locks of its process and no others.
LEMMA ReleaseFacts ==
  ASSUME TypeOK, NEW w \in Replicas, Release(w)
  PROVE  /\ lock' \in [Schedules -> Replicas \cup {NoReplica}]
         /\ \A s \in Schedules : lock[s] = w => lock'[s] = NoReplica
         /\ \A s \in Schedules : lock[s] # w => lock'[s] = lock[s]
         /\ \A v \in Replicas \ {w}, s \in Schedules : lock'[s] = v <=> lock[s] = v
         /\ \A s \in Schedules : lock'[s] # w
BY NamesAssumption DEF TypeOK, Release

\* What a process leaves behind is well typed.
LEMMA ForgetType ==
  ASSUME TypeOK, NEW w \in Replicas, Forget(w)
  PROVE  /\ pc' \in [Replicas -> PcValues]
         /\ seen' \in [Replicas -> [Schedules -> Versions \cup {NoVersion}]]
         /\ inflight' \in [Replicas -> [Schedules -> Runs \cup {NoRun}]]
         /\ awaited' \in [Replicas -> Runs \cup {NoRun}]
         /\ marker' \in [Replicas -> [Schedules -> Versions \cup {NoVersion}]]
         /\ stalled' \in [Replicas -> BOOLEAN]
         /\ task' \in [Runs -> [phase : Phases, host : Replicas \cup {NoReplica},
                                version : Versions \cup {NoVersion}]]
<1>1. task' \in [Runs -> [phase : Phases, host : Replicas \cup {NoReplica},
                          version : Versions \cup {NoVersion}]]
  <2>1. ASSUME NEW t \in [phase : Phases, host : Replicas \cup {NoReplica},
                          version : Versions \cup {NoVersion}], NEW ph \in Phases
        PROVE  [t EXCEPT !.host = NoReplica, !.phase = ph]
                 \in [phase : Phases, host : Replicas \cup {NoReplica},
                      version : Versions \cup {NoVersion}]
    OBVIOUS
  <2>2. \A r \in Runs : (IF Live(r) THEN "ended" ELSE task[r].phase) \in Phases
    BY DEF TypeOK, Phases, Over
  <2> QED
    BY <2>1, <2>2 DEF Forget, TypeOK
<1> QED
  BY <1>1 DEF Forget, TypeOK, PcValues

\* A phase change keeps the task table well typed, and the rest of each task.
LEMMA SetPhaseFacts ==
  ASSUME TypeOK, NEW r \in Runs, NEW ph \in Phases, SetPhase(r, ph)
  PROVE  /\ task' \in [Runs -> [phase : Phases, host : Replicas \cup {NoReplica},
                                version : Versions \cup {NoVersion}]]
         /\ task'[r].phase = ph
         /\ \A q \in Runs : /\ task'[q].host = task[q].host
                            /\ task'[q].version = task[q].version
                            /\ q # r => task'[q] = task[q]
<1> DEFINE Task == [phase : Phases, host : Replicas \cup {NoReplica},
                    version : Versions \cup {NoVersion}]
           new == [task[r] EXCEPT !.phase = ph]
<1>1. task \in [Runs -> Task]
  BY DEF TypeOK
<1>2. /\ new \in Task /\ new.phase = ph
      /\ new.host = task[r].host /\ new.version = task[r].version
  BY <1>1
<1>3. task' = [task EXCEPT ![r] = new]
  BY DEF SetPhase
<1> HIDE DEF new, Task
<1>4. task' \in [Runs -> Task] /\ task'[r] = new /\ \A q \in Runs : q # r => task'[q] = task[q]
  BY <1>1, <1>2, <1>3
<1> QED
  BY <1>2, <1>4 DEF Task

\* A cancelled task is somewhere afterwards.
LEMMA CancelledPhaseFacts ==
  ASSUME NEW ph
  PROVE  /\ CancelledPhase(ph) \in {"cancelling", "crashing", "closing"}
         /\ CancelledPhase(ph) \in Phases
         /\ CancelledPhase(ph) = "cancelling" => ph \in {"streaming", "succeeding"}
BY DEF CancelledPhase, Phases, Recording

\* A verdict is one of three.
LEMMA VerdictFacts ==
  ASSUME NEW ph \in Recording
  PROVE  /\ Verdict(ph) \in {"succeeded", "cancelled", "failed"}
         /\ ph = "cancelling" => Verdict(ph) = "cancelled"
BY DEF Verdict, Recording

\* A status changes and the schedule of a row stays.
LEMMA SetStatusFacts ==
  ASSUME TypeOK, NEW r \in Runs, NEW st \in Statuses, run' = [run EXCEPT ![r].status = st]
  PROVE  /\ run' \in [Runs -> [status : Statuses, schedule : Schedules \cup {NoSchedule}]]
         /\ run'[r].status = st
         /\ \A q \in Runs : /\ run'[q].schedule = run[q].schedule
                            /\ q # r => run'[q] = run[q]
<1> DEFINE Row == [status : Statuses, schedule : Schedules \cup {NoSchedule}]
           new == [run[r] EXCEPT !.status = st]
<1>1. run \in [Runs -> Row]
  BY DEF TypeOK
<1>2. new \in Row /\ new.status = st /\ new.schedule = run[r].schedule
  BY <1>1
<1>3. run' = [run EXCEPT ![r] = new]
  OBVIOUS
<1> HIDE DEF new, Row
<1>4. run' \in [Runs -> Row] /\ run'[r] = new /\ \A q \in Runs : q # r => run'[q] = run[q]
  BY <1>1, <1>2, <1>3
<1> QED
  BY <1>2, <1>4 DEF Row

\* The initial state is well typed.
LEMMA TypeInit == Init => TypeOK
<1> SUFFICES ASSUME Init PROVE TypeOK
  OBVIOUS
<1> USE DEF Init
<1>1. 0 \in Versions /\ 0 \in 0..MaxFaults
  BY BoundsAssumption DEF Versions
<1>2. schedule \in [Schedules -> [active : BOOLEAN, version : Versions]]
  BY <1>1
<1>3. run \in [Runs -> [status : Statuses, schedule : Schedules \cup {NoSchedule}]]
  BY DEF Statuses
<1>4. task \in [Runs -> [phase : Phases, host : Replicas \cup {NoReplica},
                        version : Versions \cup {NoVersion}]]
  BY DEF Phases, Over
<1>5. pc \in [Replicas -> PcValues]
  BY DEF PcValues
<1>6. \A w \in Replicas : pc[w] = "inserting" <=> \E s \in Schedules : lock[s] = w
  BY NamesAssumption
<1> QED
  BY <1>1, <1>2, <1>3, <1>4, <1>5, <1>6 DEF TypeOK

\* An empty tick is well typed.
LEMMA LeaveTickType ==
  ASSUME TypeOK, NEW w \in Replicas, LeaveTick(w)
  PROVE  /\ pc' \in [Replicas -> PcValues]
         /\ seen' \in [Replicas -> [Schedules -> Versions \cup {NoVersion}]]
         /\ pc'[w] = "idle" /\ \A v \in Replicas \ {w} : pc'[v] = pc[v]
BY DEF TypeOK, LeaveTick, PcValues

\* The steps a stream or its end decides about are phase changes.
LEMMA StreamStepFacts ==
  ASSUME TypeOK, NEW r \in Runs, StreamStep(r)
  PROVE  /\ \E to \in {"connecting", "rejecting", "streaming", "succeeding", "failing", "crashing"} :
              /\ SetPhase(r, to)
              /\ to = "connecting" => task[r].phase = "building"
              /\ to = "rejecting" => task[r].phase = "building"
              /\ to = "streaming" => task[r].phase = "connecting"
              /\ to = "succeeding" => task[r].phase = "streaming"
              /\ to = "failing" => task[r].phase \in {"streaming", "succeeding"}
         /\ task[r].phase \notin Over
         /\ UNCHANGED <<tables, lock, loopVars, mapVars, stalled>>
         /\ faults' \in 0..MaxFaults
<1>1. faults' = faults \/ Fault => faults' \in 0..MaxFaults
  BY FaultType DEF TypeOK
<1>2. CASE BuildOk(r)
  BY <1>1, <1>2 DEF BuildOk, Advance, Over
<1>3. CASE BuildRejected(r)
  BY <1>1, <1>3 DEF BuildRejected, Advance, Over
<1>4. CASE Connected(r)
  BY <1>1, <1>4 DEF Connected, Advance, Over
<1>5. CASE Exhausted(r)
  BY <1>1, <1>5 DEF Exhausted, Advance, Over
<1>6. CASE StreamRaises(r)
  BY <1>1, <1>6 DEF StreamRaises, Advance, Over
<1>7. CASE BuildRaises(r)
  BY <1>1, <1>7 DEF BuildRaises, Advance, Over
<1>8. CASE ConnectRaises(r)
  BY <1>1, <1>8 DEF ConnectRaises, Advance, Over
<1>9. CASE RecordRaises(r)
  BY <1>1, <1>9 DEF RecordRaises, Advance, Over, Recording
<1> QED
  BY <1>2, <1>3, <1>4, <1>5, <1>6, <1>7, <1>8, <1>9 DEF StreamStep

\* The bookkeeping of every process preserves the types.
LEMMA TypeReplica ==
  ASSUME TypeOK, NEW w \in Replicas,
         \/ Loop(w) \/ StartRaises(w) \/ \E s \in Schedules : StopSchedule(w, s, TRUE)
         \/ Halt(w) \/ Crash(w) \/ Restart(w) \/ Stall(w) \/ Resume(w)
  PROVE  TypeOK'
<1> USE DEF TypeOK, tables, loopVars, mapVars
<1>1. CASE Scan(w)
  <2>1. seen' \in [Replicas -> [Schedules -> Versions \cup {NoVersion}]]
    BY <1>1 DEF Scan
  <2> QED
    BY <1>1, <2>1 DEF Scan, Resting, PcValues
<1>2. CASE RetireMarkers(w)
  <2>1. marker' \in [Replicas -> [Schedules -> Versions \cup {NoVersion}]]
    BY <1>2 DEF RetireMarkers
  <2> QED
    BY <1>2, <2>1 DEF RetireMarkers, PcValues
<1>3. CASE Exit(w)
  <2>1. pc[w] = "halting" /\ pc'[w] = "down" /\ \A v \in Replicas \ {w} : pc'[v] = pc[v]
    BY <1>3 DEF Exit, Forget
  <2> QED
    BY <1>3, <2>1, ForgetType DEF Exit
<1>4. CASE StopReturns(w)
  BY <1>4 DEF StopReturns
<1>5. CASE StopRaises(w)
  <2>1. /\ pc' \in [Replicas -> PcValues]
        /\ seen' \in [Replicas -> [Schedules -> Versions \cup {NoVersion}]]
        /\ \A v \in Replicas : pc'[v] = "inserting" <=> pc[v] = "inserting"
    BY <1>5, LeaveTickType DEF StopRaises
  <2> QED
    BY <1>5, <2>1 DEF StopRaises
<1>6. ASSUME NEW s \in Schedules, NEW landed \in BOOLEAN, StopSchedule(w, s, landed)
      PROVE  TypeOK'
  <2> DEFINE r == inflight[w][s]
  <2>1. r \in Runs
    BY <1>6 DEF StopSchedule, MayStop
  <2>2. task' \in [Runs -> [phase : Phases, host : Replicas \cup {NoReplica},
                           version : Versions \cup {NoVersion}]]
    BY <1>6, <2>1, CancelledPhaseFacts, SetPhaseFacts DEF StopSchedule
  <2>3. run' \in [Runs -> [status : Statuses, schedule : Schedules \cup {NoSchedule}]]
    <3>1. "succeeded" \in Statuses
      BY DEF Statuses
    <3> QED
      BY <1>6, <2>1, <3>1, SetStatusFacts DEF StopSchedule
  <2>4. /\ inflight' \in [Replicas -> [Schedules -> Runs \cup {NoRun}]]
        /\ awaited' \in [Replicas -> Runs \cup {NoRun}]
    BY <1>6, <2>1 DEF StopSchedule
  <2> QED
    BY <1>6, <2>2, <2>3, <2>4 DEF StopSchedule
<1>7. ASSUME NEW s \in Schedules, PassOver(w, s) PROVE TypeOK'
  <2>1. /\ seen' \in [Replicas -> [Schedules -> Versions \cup {NoVersion}]]
        /\ marker' \in [Replicas -> [Schedules -> Versions \cup {NoVersion}]]
    BY <1>7 DEF PassOver
  <2> QED
    BY <1>7, <2>1 DEF PassOver
<1>8. ASSUME NEW s \in Schedules, StartLock(w, s) PROVE TypeOK'
  <2>1. marker' \in [Replicas -> [Schedules -> Versions \cup {NoVersion}]]
    BY <1>8 DEF StartLock
  <2>2. ASSUME NEW v \in Replicas
        PROVE  pc'[v] = "inserting" <=> \E z \in Schedules : lock'[z] = v
    BY <1>8, NamesAssumption DEF StartLock
  <2> QED
    BY <1>8, <2>1, <2>2 DEF StartLock, PcValues
<1>9. ASSUME NEW s \in Schedules, NEW r \in Runs, StartCommit(w, s, r) PROVE TypeOK'
  <2>1. run' \in [Runs -> [status : Statuses, schedule : Schedules \cup {NoSchedule}]]
    <3>1. [status |-> "running", schedule |-> s]
            \in [status : Statuses, schedule : Schedules \cup {NoSchedule}]
      BY DEF Statuses
    <3> QED
      BY <1>9, <3>1 DEF StartCommit
  <2>2. task' \in [Runs -> [phase : Phases, host : Replicas \cup {NoReplica},
                           version : Versions \cup {NoVersion}]]
    <3>1. [phase |-> "building", host |-> w, version |-> seen[w][s]]
            \in [phase : Phases, host : Replicas \cup {NoReplica},
                 version : Versions \cup {NoVersion}]
      BY DEF Phases
    <3> QED
      BY <1>9, <3>1 DEF StartCommit
  <2>3. /\ inflight' \in [Replicas -> [Schedules -> Runs \cup {NoRun}]]
        /\ seen' \in [Replicas -> [Schedules -> Versions \cup {NoVersion}]]
    BY <1>9 DEF StartCommit
  <2>4. /\ pc' \in [Replicas -> PcValues] /\ pc'[w] = "idle"
        /\ \A v \in Replicas \ {w} : pc'[v] = pc[v]
    BY <1>9 DEF StartCommit, PcValues
  <2>5. Release(w)
    BY <1>9 DEF StartCommit
  <2> QED
    BY <1>9, <2>1, <2>2, <2>3, <2>4, <2>5, ReleaseFacts DEF StartCommit
<1>10. CASE StartRaises(w)
  BY <1>10, LeaveTickType, ReleaseFacts, FaultType DEF StartRaises
<1>11. CASE Halt(w)
  BY <1>11 DEF Halt, Resting, PcValues
<1>12. CASE Crash(w)
  <2>1. pc'[w] = "down" /\ \A v \in Replicas \ {w} : pc'[v] = pc[v]
    BY <1>12 DEF Crash, Forget
  <2>2. Release(w) /\ Forget(w) /\ Fault /\ UNCHANGED <<schedule, run>>
    BY <1>12 DEF Crash
  <2>3. \A v \in Replicas : pc'[v] = "inserting" <=> \E s \in Schedules : lock'[s] = v
    BY <2>1, <2>2, ReleaseFacts
  <2>4. lock' \in [Schedules -> Replicas \cup {NoReplica}]
    BY <2>2, ReleaseFacts
  <2>5. faults' \in 0..MaxFaults
    BY <2>2, FaultType
  <2> QED
    BY <2>2, <2>3, <2>4, <2>5, ForgetType
<1>13. CASE Restart(w)
  BY <1>13 DEF Restart, PcValues
<1>14. CASE Stall(w)
  BY <1>14, FaultType DEF Stall
<1>15. CASE Resume(w)
  BY <1>15 DEF Resume
<1> QED
  BY <1>1, <1>2, <1>3, <1>4, <1>5, <1>6, <1>7, <1>8, <1>9, <1>10, <1>11, <1>12, <1>13,
     <1>14, <1>15 DEF Loop

\* So do the tasks, the reaper and the API.
LEMMA TypeStep == TypeOK /\ [Next]_vars => TypeOK'
<1> SUFFICES ASSUME TypeOK, [Next]_vars PROVE TypeOK'
  OBVIOUS
<1> USE DEF TypeOK, tables, loopVars, mapVars
<1>1. ASSUME NEW s \in Schedules, NEW active \in BOOLEAN, Edit(s, active) PROVE TypeOK'
  <2>1. schedule[s].version + 1 \in Versions
    BY <1>1, BoundsAssumption DEF Edit, Versions
  <2>2. [active |-> active, version |-> schedule[s].version + 1]
          \in [active : BOOLEAN, version : Versions]
    BY <2>1
  <2> QED
    BY <1>1, <2>2 DEF Edit
<1>2. ASSUME NEW r \in Runs, StreamStep(r) PROVE TypeOK'
  <2>1. PICK to \in Phases : SetPhase(r, to)
    BY <1>2, StreamStepFacts DEF Phases, Recording
  <2> QED
    BY <1>2, <2>1, SetPhaseFacts, StreamStepFacts
<1>3. ASSUME NEW r \in Runs, Recorded(r) PROVE TypeOK'
  <2>1. "closing" \in Phases /\ Verdict(task[r].phase) \in Statuses
    BY <1>3, VerdictFacts DEF Recorded, Phases, Statuses
  <2> QED
    BY <1>3, <2>1, SetPhaseFacts, SetStatusFacts DEF Recorded
<1>4. ASSUME NEW r \in Runs, TaskEnds(r) PROVE TypeOK'
  <2>1. "ended" \in Phases /\ "raised" \in Phases
    BY DEF Phases, Over
  <2>2. /\ inflight' \in [Replicas -> [Schedules -> Runs \cup {NoRun}]]
        /\ marker' \in [Replicas -> [Schedules -> Versions \cup {NoVersion}]]
    BY <1>4 DEF TaskEnds
  <2> QED
    BY <1>4, <2>1, <2>2, SetPhaseFacts DEF TaskEnds
<1>5. ASSUME NEW r \in Runs, Reap(r) PROVE TypeOK'
  <2>1. "reaped" \in Statuses
    BY DEF Statuses
  <2> QED
    <3>1. run' \in [Runs -> [status : Statuses, schedule : Schedules \cup {NoSchedule}]]
      BY <1>5, <2>1, SetStatusFacts DEF Reap
    <3> QED
      BY <1>5, <3>1 DEF Reap
<1>6. CASE UNCHANGED vars
  BY <1>6 DEF vars
<1>7. ASSUME NEW w \in Replicas,
             \/ Loop(w) \/ StartRaises(w) \/ \E s \in Schedules : StopSchedule(w, s, TRUE)
             \/ Halt(w) \/ Crash(w) \/ Restart(w) \/ Stall(w) \/ Resume(w)
      PROVE  TypeOK'
  <2> HIDE DEF TypeOK, tables, loopVars, mapVars
  <2> QED
    BY <1>7, TypeReplica
<1> HIDE DEF TypeOK, tables, loopVars, mapVars
<1> QED
  BY <1>1, <1>2, <1>3, <1>4, <1>5, <1>6, <1>7 DEF Next, TaskStep

\* The tables, the maps of each process and its tasks stay within their types.
THEOREM TypeCorrect == Spec => []TypeOK
<1>1. QED
  BY TypeInit, TypeStep, PTL DEF Spec

-----------------------------------------------------------------------------
(***************************************************************************)
(* What the steps do, point by point                                       *)
(***************************************************************************)
\* Runs a process started for a schedule, over or not.
Started(w, s) == {r \in Runs : task[r].host = w /\ run[r].schedule = s}

\* The insert: one new row with its task, and the lock is given back.
LEMMA StartCommitFacts ==
  ASSUME TypeOK, NEW w \in Replicas, NEW s \in Schedules, NEW r \in Runs, StartCommit(w, s, r)
  PROVE  /\ pc[w] = "inserting" /\ lock[s] = w /\ run[r].status = "none"
         /\ run'[r].status = "running" /\ run'[r].schedule = s
         /\ task'[r].phase = "building" /\ task'[r].host = w /\ task'[r].version = seen[w][s]
         /\ \A q \in Runs : q # r => run'[q] = run[q] /\ task'[q] = task[q]
         /\ inflight'[w][s] = r /\ seen'[w][s] = NoVersion
         /\ \A v \in Replicas, z \in Schedules : v # w \/ z # s =>
              inflight'[v][z] = inflight[v][z] /\ seen'[v][z] = seen[v][z]
         /\ pc'[w] = "idle" /\ \A v \in Replicas : v # w => pc'[v] = pc[v]
         /\ Release(w) /\ UNCHANGED <<schedule, awaited, marker>>
<1> USE DEF StartCommit
<1>1. pc[w] = "inserting" /\ lock[s] = w /\ run[r].status = "none"
  BY DEF Unused
<1>2. /\ run'[r].status = "running" /\ run'[r].schedule = s
      /\ task'[r].phase = "building" /\ task'[r].host = w /\ task'[r].version = seen[w][s]
      /\ \A q \in Runs : q # r => run'[q] = run[q] /\ task'[q] = task[q]
  BY DEF TypeOK
<1>3. /\ inflight'[w][s] = r
      /\ \A v \in Replicas, z \in Schedules : v # w \/ z # s => inflight'[v][z] = inflight[v][z]
  BY DEF TypeOK
<1>4. /\ seen'[w][s] = NoVersion
      /\ \A v \in Replicas, z \in Schedules : v # w \/ z # s => seen'[v][z] = seen[v][z]
  BY DEF TypeOK
<1>5. pc'[w] = "idle" /\ \A v \in Replicas : v # w => pc'[v] = pc[v]
  BY DEF TypeOK
<1> QED
  BY <1>1, <1>2, <1>3, <1>4, <1>5

\* A stop: the task leaves the map, is cancelled and waited for.
LEMMA StopScheduleFacts ==
  ASSUME TypeOK, NEW w \in Replicas, NEW s \in Schedules, NEW landed \in BOOLEAN,
         StopSchedule(w, s, landed)
  PROVE  LET r == inflight[w][s] IN
         /\ r \in Runs /\ awaited[w] = NoRun /\ pc[w] \in {"scanned", "halting"}
         /\ task'[r].phase \in {"cancelling", "crashing", "closing"}
         /\ task'[r].phase = "cancelling" => task[r].phase \in {"streaming", "succeeding"}
         /\ run'[r].status # run[r].status =>
              task[r].phase = "succeeding" /\ run'[r].status = "succeeded"
         /\ run'[r].status \in {run[r].status, "succeeded"}
         /\ \A q \in Runs : /\ task'[q].host = task[q].host
                            /\ task'[q].version = task[q].version
                            /\ run'[q].schedule = run[q].schedule
                            /\ q # r => run'[q] = run[q] /\ task'[q] = task[q]
         /\ inflight'[w][s] = NoRun /\ awaited'[w] = r
         /\ \A v \in Replicas : v # w => awaited'[v] = awaited[v]
         /\ \A v \in Replicas, z \in Schedules : v # w \/ z # s => inflight'[v][z] = inflight[v][z]
         /\ UNCHANGED <<schedule, lock, pc, seen, marker>>
<1> DEFINE r == inflight[w][s]
           ph == CancelledPhase(task[r].phase)
<1>1. r \in Runs /\ awaited[w] = NoRun /\ pc[w] \in {"scanned", "halting"}
  BY DEF StopSchedule, MayStop, TypeOK
<1>2. ph \in Phases /\ SetPhase(r, ph)
  BY CancelledPhaseFacts DEF StopSchedule
<1>3. /\ task'[r].phase = ph
      /\ \A q \in Runs : /\ task'[q].host = task[q].host
                         /\ task'[q].version = task[q].version
                         /\ q # r => task'[q] = task[q]
  <2> HIDE DEF r, ph
  <2> QED
    BY <1>1, <1>2, SetPhaseFacts
<1>4. /\ \A q \in Runs : /\ run'[q].schedule = run[q].schedule
                         /\ q # r => run'[q] = run[q]
      /\ \/ run'[r].status = run[r].status
         \/ run'[r].status = "succeeded" /\ task[r].phase = "succeeding"
  <2>1. CASE landed
    <3>1. run' = [run EXCEPT ![r].status = "succeeded"] /\ task[r].phase = "succeeding"
      BY <2>1 DEF StopSchedule
    <3>2. "succeeded" \in Statuses
      BY DEF Statuses
    <3> HIDE DEF r
    <3> QED
      BY <1>1, <3>1, <3>2, SetStatusFacts
  <2>2. CASE ~landed
    BY <2>2 DEF StopSchedule
  <2> QED
    BY <2>1, <2>2
<1>5. /\ inflight'[w][s] = NoRun /\ awaited'[w] = r
      /\ \A v \in Replicas : v # w => awaited'[v] = awaited[v]
      /\ \A v \in Replicas, z \in Schedules : v # w \/ z # s => inflight'[v][z] = inflight[v][z]
      /\ UNCHANGED <<schedule, lock, pc, seen, marker>>
  BY DEF StopSchedule, TypeOK
<1>6. ph \in {"cancelling", "crashing", "closing"}
      /\ (ph = "cancelling" => task[r].phase \in {"streaming", "succeeding"})
  BY CancelledPhaseFacts
<1> HIDE DEF ph
<1> QED
  BY <1>1, <1>3, <1>4, <1>5, <1>6

\* The end of a process: its tasks are over and host-less, its maps empty.
LEMMA ForgetFacts ==
  ASSUME TypeOK, NEW w \in Replicas, Forget(w)
  PROVE  /\ pc'[w] = "down" /\ awaited'[w] = NoRun
         /\ \A s \in Schedules : /\ inflight'[w][s] = NoRun
                                 /\ seen'[w][s] = NoVersion /\ marker'[w][s] = NoVersion
         /\ \A v \in Replicas : v # w =>
              /\ pc'[v] = pc[v] /\ awaited'[v] = awaited[v] /\ seen'[v] = seen[v]
              /\ inflight'[v] = inflight[v] /\ marker'[v] = marker[v]
         /\ \A r \in Runs : task[r].host # w => task'[r] = task[r]
         /\ \A r \in Runs : task[r].host = w =>
              /\ task'[r].host = NoReplica /\ task'[r].phase \in Over
              /\ task[r].phase = "none" => task'[r].phase = "none"
<1>1. ASSUME NEW r \in Runs, task[r].host = w
      PROVE  /\ task'[r].host = NoReplica /\ task'[r].phase \in Over
             /\ task[r].phase = "none" => task'[r].phase = "none"
  <2> DEFINE ph == IF Live(r) THEN "ended" ELSE task[r].phase
  <2>1. ph \in Over /\ (task[r].phase = "none" => ph = "none")
    BY DEF Live, Over
  <2>2. task'[r] = [task[r] EXCEPT !.host = NoReplica, !.phase = ph]
    BY <1>1 DEF Forget
  <2> HIDE DEF ph
  <2>3. task'[r].host = NoReplica /\ task'[r].phase = ph
    BY <2>2 DEF TypeOK
  <2> QED
    BY <2>1, <2>3
<1>2. /\ pc'[w] = "down" /\ awaited'[w] = NoRun
      /\ \A v \in Replicas : v # w => pc'[v] = pc[v] /\ awaited'[v] = awaited[v]
  BY DEF Forget, TypeOK
<1>3. \A s \in Schedules :
        inflight'[w][s] = NoRun /\ seen'[w][s] = NoVersion /\ marker'[w][s] = NoVersion
  BY DEF Forget, TypeOK
<1>4. \A v \in Replicas : v # w =>
        seen'[v] = seen[v] /\ inflight'[v] = inflight[v] /\ marker'[v] = marker[v]
  BY DEF Forget, TypeOK
<1>5. \A r \in Runs : task[r].host # w => task'[r] = task[r]
  BY DEF Forget
<1> QED
  BY <1>1, <1>2, <1>3, <1>4, <1>5

\* The end of a task: it leaves the map and its marker stays.
LEMMA TaskEndsFacts ==
  ASSUME TypeOK, NEW r \in Runs, TaskEnds(r), task[r].host \in Replicas,
         run[r].schedule \in Schedules
  PROVE  LET w == task[r].host  s == run[r].schedule IN
         /\ task[r].phase \in {"closing", "crashing"} /\ task'[r].phase \in {"ended", "raised"}
         /\ \A q \in Runs : /\ task'[q].host = task[q].host
                            /\ task'[q].version = task[q].version
                            /\ q # r => task'[q] = task[q]
         /\ inflight'[w][s] = NoRun /\ marker'[w][s] = task[r].version
         /\ \A v \in Replicas, z \in Schedules : v # w \/ z # s =>
              inflight'[v][z] = inflight[v][z] /\ marker'[v][z] = marker[v][z]
         /\ UNCHANGED <<tables, lock, loopVars>>
<1> DEFINE w == task[r].host
           s == run[r].schedule
           ph == IF task[r].phase = "closing" THEN "ended" ELSE "raised"
<1>1. ph \in Phases /\ ph \in {"ended", "raised"} /\ SetPhase(r, ph)
  BY DEF TaskEnds, Phases, Over
<1>2. /\ task'[r].phase = ph
      /\ \A q \in Runs : /\ task'[q].host = task[q].host
                         /\ task'[q].version = task[q].version
                         /\ q # r => task'[q] = task[q]
  BY <1>1, SetPhaseFacts
<1>3. /\ inflight'[w][s] = NoRun
      /\ \A v \in Replicas, z \in Schedules : v # w \/ z # s => inflight'[v][z] = inflight[v][z]
  BY DEF TaskEnds, TypeOK
<1>4. /\ marker'[w][s] = task[r].version
      /\ \A v \in Replicas, z \in Schedules : v # w \/ z # s => marker'[v][z] = marker[v][z]
  BY DEF TaskEnds, TypeOK
<1>5. task[r].phase \in {"closing", "crashing"} /\ UNCHANGED <<tables, lock, loopVars>>
  BY DEF TaskEnds
<1> HIDE DEF ph
<1> QED
  BY <1>1, <1>2, <1>3, <1>4, <1>5

-----------------------------------------------------------------------------
(***************************************************************************)
(* The inductive invariant: rows, tasks and the maps of the processes      *)
(***************************************************************************)
\* A row and its task: unused rows have none, live tasks have a process, and
\* before a task records its verdict only the reaper has touched its row; a
\* cancel may have let a success through.
RowInv ==
  \A r \in Runs :
    /\ run[r].status = "none" =>
         /\ task[r].phase = "none" /\ task[r].host = NoReplica
         /\ run[r].schedule = NoSchedule
    /\ run[r].status # "none" => run[r].schedule \in Schedules
    /\ Live(r) => task[r].host \in Replicas
    /\ task[r].phase \in {"building", "connecting", "streaming", "rejecting",
                         "succeeding", "failing"} => run[r].status \in {"running", "reaped"}
    /\ task[r].phase = "cancelling" => run[r].status \in {"running", "reaped", "succeeded"}

\* Under the lock of a start no run of the schedule is running.
LockInv == \A s \in Schedules : lock[s] # NoReplica => RunningFor(s) = {}

\* _inflight holds live tasks under their schedules, and none where the
\* process is about to insert one.
MapInv ==
  /\ \A w \in Replicas, s \in Schedules : inflight[w][s] # NoRun =>
       /\ Live(inflight[w][s]) /\ task[inflight[w][s]].host = w
       /\ run[inflight[w][s]].schedule = s
  /\ \A w \in Replicas, s \in Schedules : lock[s] = w => inflight[w][s] = NoRun

\* While a process waits for a cancelled task it starts nothing, and the
\* task's place in the map is free.
AwaitInv ==
  \A w \in Replicas : awaited[w] # NoRun =>
    /\ pc[w] \in {"scanned", "halting"}
    /\ task[awaited[w]].host = w
    /\ run[awaited[w]].schedule \in Schedules
    /\ inflight[w][run[awaited[w]].schedule] = NoRun

ShapeInv ==
  /\ TypeOK /\ RowInv /\ LockInv /\ MapInv /\ AwaitInv
  /\ OneRunningPerSchedule /\ TasksAreTracked

\* The invariant holds at the start.
LEMMA ShapeInit == Init => ShapeInv
<1> SUFFICES ASSUME Init PROVE ShapeInv
  OBVIOUS
<1>1. RowInv /\ LockInv /\ MapInv /\ AwaitInv
  BY NamesAssumption DEF Init, RowInv, LockInv, MapInv, AwaitInv, Live, Over
<1>2. OneRunningPerSchedule /\ TasksAreTracked
  BY DEF Init, OneRunningPerSchedule, TasksAreTracked, Hosted, Live, Over
<1> QED
  BY <1>1, <1>2, TypeInit DEF ShapeInv

\* Steps that leave rows, tasks and maps alone, keep waiting processes where
\* they wait and take no lock.
LEMMA ShapeAside ==
  ASSUME ShapeInv, TypeOK', UNCHANGED <<run, task, inflight, lock>>,
         \A w \in Replicas :
           \/ awaited'[w] = awaited[w] /\ (awaited[w] # NoRun => pc'[w] = pc[w])
           \/ awaited'[w] = NoRun /\ (awaited[w] # NoRun => ~Live(awaited[w]))
  PROVE  ShapeInv'
<1> USE DEF ShapeInv
<1>1. RowInv' /\ LockInv' /\ MapInv' /\ OneRunningPerSchedule'
  BY DEF RowInv, LockInv, MapInv, OneRunningPerSchedule, Live, RunningFor
<1>2. AwaitInv'
  BY DEF AwaitInv
<1>3. TasksAreTracked'
  BY RunsAssumption DEF TasksAreTracked, Hosted, Live
<1> QED
  BY <1>1, <1>2, <1>3

\* The insert happens under the lock, in a free place of the map.
LEMMA ShapeStartCommit ==
  ASSUME ShapeInv, TypeOK', NEW w \in Replicas, NEW s \in Schedules, NEW r \in Runs,
         StartCommit(w, s, r)
  PROVE  ShapeInv'
<1> USE StartCommitFacts DEF ShapeInv
<1>1. /\ \A z \in Schedules : lock'[z] # NoReplica => lock'[z] = lock[z] /\ lock[z] # w
      /\ \A z \in Schedules : lock'[z] # NoReplica => z # s
  BY ReleaseFacts
<1>2. inflight[w][s] = NoRun /\ RunningFor(s) = {} /\ awaited[w] = NoRun
  BY NamesAssumption DEF MapInv, LockInv, AwaitInv
<1>3. RowInv'
  BY DEF RowInv, Live, Over
<1>4. LockInv'
  BY <1>1 DEF LockInv, RunningFor
<1>5. OneRunningPerSchedule'
  BY <1>2 DEF OneRunningPerSchedule, RunningFor
<1>6. task[r].phase = "none" /\ task[r].host = NoReplica /\ run[r].schedule = NoSchedule
  BY DEF RowInv
<1>7. MapInv'
  <2>1. ASSUME NEW v \in Replicas, NEW z \in Schedules, inflight'[v][z] # NoRun
        PROVE  /\ task'[inflight'[v][z]].phase \notin Over /\ task'[inflight'[v][z]].host = v
               /\ run'[inflight'[v][z]].schedule = z
    <3>1. CASE v = w /\ z = s
      BY <3>1 DEF Live, Over
    <3>2. CASE v # w \/ z # s
      <4> DEFINE q == inflight[v][z]
      <4>1. inflight'[v][z] = q /\ q \in Runs /\ q # NoRun
        BY <2>1, <3>2 DEF TypeOK
      <4>2. Live(q) /\ task[q].host = v /\ run[q].schedule = z
        BY <4>1 DEF MapInv
      <4>3. q # r
        BY <1>6, <4>2 DEF Live, Over
      <4> QED
        BY <4>1, <4>2, <4>3 DEF Live
    <3> QED
      BY <3>1, <3>2
  <2>2. ASSUME NEW v \in Replicas, NEW z \in Schedules, lock'[z] = v
        PROVE  inflight'[v][z] = NoRun
    BY <2>2, <1>1, NamesAssumption DEF MapInv
  <2> QED
    BY <2>1, <2>2 DEF MapInv, Live
<1>8. AwaitInv'
  <2> SUFFICES ASSUME NEW v \in Replicas, awaited'[v] # NoRun
               PROVE  /\ pc'[v] \in {"scanned", "halting"}
                      /\ task'[awaited'[v]].host = v
                      /\ run'[awaited'[v]].schedule \in Schedules
                      /\ inflight'[v][run'[awaited'[v]].schedule] = NoRun
    BY DEF AwaitInv
  <2>1. v # w /\ awaited'[v] = awaited[v] /\ awaited[v] \in Runs
    BY <1>2 DEF TypeOK
  <2>2. awaited[v] # r
    BY <2>1, <1>6, NamesAssumption DEF AwaitInv
  <2> QED
    BY <2>1, <2>2 DEF AwaitInv
<1>9. TasksAreTracked'
  <2> SUFFICES ASSUME NEW v \in Replicas, NEW q \in Runs, task'[q].host = v, Live(q)'
               PROVE  inflight'[v][run'[q].schedule] = q \/ awaited'[v] = q
    BY DEF TasksAreTracked, Hosted
  <2>1. CASE q = r
    BY <2>1
  <2>2. CASE q # r
    <3>1. inflight[v][run[q].schedule] = q \/ awaited[v] = q
      BY <2>2 DEF TasksAreTracked, Hosted, Live
    <3>2. run[q].schedule \in Schedules
      BY <2>2 DEF RowInv, Live, Over
    <3> QED
      BY <2>2, <3>1, <3>2, <1>2, RunsAssumption
  <2> QED
    BY <2>1, <2>2
<1> QED
  BY <1>3, <1>4, <1>5, <1>7, <1>8, <1>9

\* A start takes a lock nobody has, on a schedule without a running row.
LEMMA ShapeStartLock ==
  ASSUME ShapeInv, TypeOK', NEW w \in Replicas, NEW s \in Schedules, StartLock(w, s)
  PROVE  ShapeInv'
<1> USE DEF ShapeInv
<1>1. /\ pc[w] = "idle" /\ inflight[w][s] = NoRun /\ lock[s] = NoReplica /\ RunningFor(s) = {}
      /\ UNCHANGED <<run, task, inflight, awaited>>
      /\ lock'[s] = w /\ \A z \in Schedules : z # s => lock'[z] = lock[z]
      /\ \A v \in Replicas : v # w => pc'[v] = pc[v]
  BY DEF StartLock, HeldBack, TypeOK, tables
<1>2. RowInv' /\ OneRunningPerSchedule' /\ TasksAreTracked'
  BY <1>1 DEF RowInv, OneRunningPerSchedule, TasksAreTracked, Hosted, Live
<1>3. LockInv'
  BY <1>1 DEF LockInv, RunningFor
<1>4. MapInv'
  BY <1>1 DEF MapInv, Live
<1>5. AwaitInv'
  BY <1>1 DEF AwaitInv
<1> QED
  BY <1>2, <1>3, <1>4, <1>5

\* A stop moves the task from the map to the process that waits for it.
LEMMA ShapeStopSchedule ==
  ASSUME ShapeInv, TypeOK', NEW w \in Replicas, NEW s \in Schedules, NEW landed \in BOOLEAN,
         StopSchedule(w, s, landed)
  PROVE  ShapeInv'
<1> USE StopScheduleFacts DEF ShapeInv
<1> DEFINE r == inflight[w][s]
<1>1. r \in Runs /\ r # NoRun
  BY RunsAssumption
<1>2. Live(r) /\ task[r].host = w /\ run[r].schedule = s
  BY <1>1 DEF MapInv
<1>3. RowInv'
  BY <1>1, <1>2 DEF RowInv, Live, Over
<1>4. \A z \in Schedules : RunningFor(z)' \subseteq RunningFor(z)
  BY <1>1 DEF RunningFor
<1>5. LockInv'
  BY <1>4 DEF LockInv
<1>6. OneRunningPerSchedule'
  BY <1>1 DEF OneRunningPerSchedule
<1>7. MapInv'
  <2>1. ASSUME NEW v \in Replicas, NEW z \in Schedules, inflight'[v][z] # NoRun
        PROVE  /\ task'[inflight'[v][z]].phase \notin Over /\ task'[inflight'[v][z]].host = v
               /\ run'[inflight'[v][z]].schedule = z
    <3> DEFINE q == inflight[v][z]
    <3>1. (v # w \/ z # s) /\ inflight'[v][z] = q /\ q \in Runs /\ q # NoRun
      BY <2>1 DEF TypeOK
    <3>2. Live(q) /\ task[q].host = v /\ run[q].schedule = z
      BY <3>1 DEF MapInv
    <3>3. q # r
      BY <3>1, <3>2, <1>2
    <3> QED
      BY <3>1, <3>2, <3>3 DEF Live
  <2>2. ASSUME NEW v \in Replicas, NEW z \in Schedules, lock'[z] = v
        PROVE  inflight'[v][z] = NoRun
    BY <2>2 DEF MapInv
  <2> QED
    BY <2>1, <2>2 DEF MapInv, Live
<1>8. AwaitInv'
  <2> SUFFICES ASSUME NEW v \in Replicas, awaited'[v] # NoRun
               PROVE  /\ pc'[v] \in {"scanned", "halting"}
                      /\ task'[awaited'[v]].host = v
                      /\ run'[awaited'[v]].schedule \in Schedules
                      /\ inflight'[v][run'[awaited'[v]].schedule] = NoRun
    BY DEF AwaitInv
  <2>1. CASE v = w
    BY <2>1, <1>1, <1>2
  <2>2. CASE v # w
    BY <2>2 DEF AwaitInv, TypeOK
  <2> QED
    BY <2>1, <2>2
<1>9. TasksAreTracked'
  <2> SUFFICES ASSUME NEW v \in Replicas, NEW q \in Runs, task'[q].host = v, Live(q)'
               PROVE  inflight'[v][run'[q].schedule] = q \/ awaited'[v] = q
    BY DEF TasksAreTracked, Hosted
  <2>1. CASE q = r
    BY <2>1, <1>2
  <2>2. CASE q # r
    <3>1. inflight[v][run[q].schedule] = q \/ awaited[v] = q
      BY <2>2 DEF TasksAreTracked, Hosted, Live
    <3>2. run[q].schedule \in Schedules
      BY <2>2 DEF RowInv, Live, Over
    <3> QED
      BY <2>2, <3>1, <3>2, RunsAssumption
  <2> QED
    BY <2>1, <2>2
<1> QED
  BY <1>3, <1>5, <1>6, <1>7, <1>8, <1>9

\* A task that moves on to another phase, or writes its verdict, keeps its
\* place: the maps speak of the others and of it as before.
LEMMA ShapeTask ==
  ASSUME ShapeInv, TypeOK', NEW r \in Runs, task'[r].phase \notin Over, task[r].phase \notin Over,
         \A q \in Runs : /\ task'[q].host = task[q].host
                         /\ run'[q].schedule = run[q].schedule
                         /\ q # r => run'[q] = run[q] /\ task'[q] = task[q],
         run'[r].status = "running" => run[r].status = "running",
         UNCHANGED <<lock, pc, awaited, inflight>>,
         RowInv'
  PROVE  ShapeInv'
<1> USE DEF ShapeInv
<1>1. \A q \in Runs : Live(q)' <=> Live(q)
  BY DEF Live
<1>2. \A z \in Schedules : RunningFor(z)' \subseteq RunningFor(z)
  BY DEF RunningFor
<1>3. LockInv'
  BY <1>2 DEF LockInv
<1>4. OneRunningPerSchedule'
  BY DEF OneRunningPerSchedule
<1>5. MapInv'
  <2>1. ASSUME NEW v \in Replicas, NEW z \in Schedules, inflight[v][z] # NoRun
        PROVE  /\ task'[inflight[v][z]].phase \notin Over /\ task'[inflight[v][z]].host = v
               /\ run'[inflight[v][z]].schedule = z
    <3>1. inflight[v][z] \in Runs
      BY <2>1 DEF TypeOK
    <3> QED
      BY <2>1, <3>1 DEF MapInv, Live
  <2> QED
    BY <2>1 DEF MapInv, Live
<1>6. AwaitInv'
  BY DEF AwaitInv, TypeOK
<1>7. TasksAreTracked'
  BY <1>1 DEF TasksAreTracked, Hosted
<1> QED
  BY <1>3, <1>4, <1>5, <1>6, <1>7

\* A stream's own steps keep the invariant.
LEMMA ShapeStream ==
  ASSUME ShapeInv, TypeOK', NEW r \in Runs, StreamStep(r)
  PROVE  ShapeInv'
<1>1. TypeOK
  BY DEF ShapeInv
<1>2. PICK to \in {"connecting", "rejecting", "streaming", "succeeding", "failing", "crashing"} :
        /\ SetPhase(r, to)
        /\ to = "connecting" => task[r].phase = "building"
        /\ to = "rejecting" => task[r].phase = "building"
        /\ to = "streaming" => task[r].phase = "connecting"
        /\ to = "succeeding" => task[r].phase = "streaming"
        /\ to = "failing" => task[r].phase \in {"streaming", "succeeding"}
  BY <1>1, StreamStepFacts
<1>3. to \in Phases /\ to \notin Over
  BY DEF Phases, Recording, Over
<1>4. /\ task'[r].phase = to
      /\ \A q \in Runs : /\ task'[q].host = task[q].host
                         /\ q # r => task'[q] = task[q]
  BY <1>1, <1>2, <1>3, SetPhaseFacts
<1>5. task[r].phase \notin Over /\ UNCHANGED <<run, lock, pc, awaited, inflight>>
  BY <1>1, StreamStepFacts DEF tables, loopVars, mapVars
<1>6. RowInv'
  BY <1>2, <1>3, <1>4, <1>5 DEF ShapeInv, RowInv, Live, Over
<1> QED
  BY <1>3, <1>4, <1>5, <1>6, ShapeTask

\* A verdict is written on the way out.
LEMMA ShapeRecorded ==
  ASSUME ShapeInv, TypeOK', NEW r \in Runs, Recorded(r)
  PROVE  ShapeInv'
<1>1. TypeOK
  BY DEF ShapeInv
<1>2. /\ Verdict(task[r].phase) \in {"succeeded", "cancelled", "failed"}
      /\ task[r].phase \in Recording /\ task[r].phase \notin Over
  BY VerdictFacts DEF Recorded, Recording, Over
<1>3. /\ run'[r].status \in {"succeeded", "cancelled", "failed"}
      /\ \A q \in Runs : /\ run'[q].schedule = run[q].schedule
                         /\ q # r => run'[q] = run[q]
  BY <1>1, <1>2, SetStatusFacts DEF Recorded, Statuses
<1>4. /\ task'[r].phase = "closing"
      /\ \A q \in Runs : /\ task'[q].host = task[q].host
                         /\ q # r => task'[q] = task[q]
  BY <1>1, SetPhaseFacts DEF Recorded, Phases
<1>5. UNCHANGED <<lock, pc, awaited, inflight>>
  BY DEF Recorded, loopVars, mapVars
<1>6. RowInv'
  BY <1>2, <1>3, <1>4 DEF ShapeInv, RowInv, Live, Over
<1> QED
  BY <1>2, <1>3, <1>4, <1>5, <1>6, ShapeTask DEF Over

\* The reaper touches a running row and nothing else.
LEMMA ShapeReap ==
  ASSUME ShapeInv, TypeOK', NEW r \in Runs, Reap(r)
  PROVE  ShapeInv'
<1> USE DEF ShapeInv
<1>1. /\ run[r].status = "running" /\ run'[r].status = "reaped"
      /\ \A q \in Runs : /\ run'[q].schedule = run[q].schedule
                         /\ q # r => run'[q] = run[q]
      /\ UNCHANGED <<task, lock, pc, awaited, inflight>>
  BY SetStatusFacts DEF Reap, Statuses, loopVars, mapVars
<1>2. RowInv'
  BY <1>1 DEF RowInv, Live
<1>3. LockInv' /\ OneRunningPerSchedule'
  <2>1. \A z \in Schedules : RunningFor(z)' \subseteq RunningFor(z)
    BY <1>1 DEF RunningFor
  <2> QED
    BY <1>1, <2>1 DEF LockInv, OneRunningPerSchedule
<1>4. MapInv' /\ AwaitInv' /\ TasksAreTracked'
  <2>1. \A v \in Replicas, z \in Schedules :
          inflight[v][z] # NoRun => inflight[v][z] \in Runs
    BY DEF TypeOK
  <2>2. \A v \in Replicas : awaited[v] # NoRun => awaited[v] \in Runs
    BY DEF TypeOK
  <2>3. MapInv'
    BY <1>1, <2>1 DEF MapInv, Live
  <2>4. AwaitInv'
    BY <1>1, <2>2 DEF AwaitInv
  <2>5. TasksAreTracked'
    BY <1>1 DEF TasksAreTracked, Hosted, Live
  <2> QED
    BY <2>3, <2>4, <2>5
<1> QED
  BY <1>2, <1>3, <1>4

\* The place a task gives up at its end is its own: had another task of the
\* schedule taken it, the process would still be waiting for this one.
LEMMA ShapeTaskEnds ==
  ASSUME ShapeInv, TypeOK', NEW r \in Runs, TaskEnds(r)
  PROVE  ShapeInv'
<1> USE DEF ShapeInv
<1> DEFINE w == task[r].host
           s == run[r].schedule
<1>1. task[r].phase \in {"closing", "crashing"} /\ task[r].phase \notin Over
  BY DEF TaskEnds, Over
<1>2. w \in Replicas /\ s \in Schedules
  BY <1>1 DEF RowInv, Live, Over
<1>3. /\ task'[r].phase \in {"ended", "raised"}
      /\ \A q \in Runs : /\ task'[q].host = task[q].host
                         /\ q # r => task'[q] = task[q]
      /\ inflight'[w][s] = NoRun
      /\ \A v \in Replicas, z \in Schedules : v # w \/ z # s => inflight'[v][z] = inflight[v][z]
      /\ UNCHANGED <<run, lock, pc, awaited>>
  BY <1>2, TaskEndsFacts DEF tables, loopVars
<1>4. RowInv'
  BY <1>1, <1>3 DEF RowInv, Live, Over
<1>5. LockInv' /\ OneRunningPerSchedule'
  BY <1>3 DEF LockInv, OneRunningPerSchedule, RunningFor
<1>6. inflight[w][s] = r \/ (awaited[w] = r /\ inflight[w][s] = NoRun)
  BY <1>1, <1>2, RunsAssumption DEF TasksAreTracked, Hosted, Live, AwaitInv
<1>7. MapInv'
  <2>1. ASSUME NEW v \in Replicas, NEW z \in Schedules, inflight'[v][z] # NoRun
        PROVE  /\ task'[inflight'[v][z]].phase \notin Over /\ task'[inflight'[v][z]].host = v
               /\ run'[inflight'[v][z]].schedule = z
    <3> DEFINE q == inflight[v][z]
    <3>1. (v # w \/ z # s) /\ inflight'[v][z] = q /\ q \in Runs /\ q # NoRun
      BY <2>1, <1>3 DEF TypeOK
    <3>2. Live(q) /\ task[q].host = v /\ run[q].schedule = z
      BY <3>1 DEF MapInv
    <3> QED
      BY <3>1, <3>2, <1>3 DEF Live
  <2>2. ASSUME NEW v \in Replicas, NEW z \in Schedules, lock'[z] = v
        PROVE  inflight'[v][z] = NoRun
    BY <2>2, <1>3 DEF MapInv
  <2> QED
    BY <2>1, <2>2 DEF MapInv, Live
<1>8. AwaitInv'
  <2> SUFFICES ASSUME NEW v \in Replicas, awaited'[v] # NoRun
               PROVE  /\ pc'[v] \in {"scanned", "halting"}
                      /\ task'[awaited'[v]].host = v
                      /\ run'[awaited'[v]].schedule \in Schedules
                      /\ inflight'[v][run'[awaited'[v]].schedule] = NoRun
    BY DEF AwaitInv
  <2>1. awaited'[v] = awaited[v] /\ awaited[v] \in Runs
    BY <1>3 DEF TypeOK
  <2>2. /\ pc[v] \in {"scanned", "halting"} /\ task[awaited[v]].host = v
        /\ run[awaited[v]].schedule \in Schedules
        /\ inflight[v][run[awaited[v]].schedule] = NoRun
    BY <2>1 DEF AwaitInv
  <2> QED
    BY <1>3, <2>1, <2>2
<1>9. TasksAreTracked'
  <2> SUFFICES ASSUME NEW v \in Replicas, NEW q \in Runs, task'[q].host = v, Live(q)'
               PROVE  inflight'[v][run'[q].schedule] = q \/ awaited'[v] = q
    BY DEF TasksAreTracked, Hosted
  <2>1. q # r
    BY <1>3 DEF Live, Over
  <2>2. inflight[v][run[q].schedule] = q \/ awaited[v] = q
    BY <2>1, <1>3 DEF TasksAreTracked, Hosted, Live
  <2>3. run[q].schedule \in Schedules
    BY <2>1, <1>3 DEF RowInv, Live, Over
  <2> QED
    BY <1>3, <1>6, <2>1, <2>2, <2>3, RunsAssumption
<1> QED
  BY <1>4, <1>5, <1>7, <1>8, <1>9

\* The end of a process takes its tasks, its maps and its locks together.
LEMMA ShapeForget ==
  ASSUME ShapeInv, TypeOK', NEW w \in Replicas, Forget(w), UNCHANGED run,
         Release(w) \/ (UNCHANGED lock /\ pc[w] = "halting")
  PROVE  ShapeInv'
<1> USE DEF ShapeInv
<1>1. /\ \A z \in Schedules : lock'[z] # NoReplica => lock'[z] = lock[z]
      /\ \A z \in Schedules : lock'[z] # w
  <2>1. CASE Release(w)
    BY <2>1, ReleaseFacts, NamesAssumption
  <2>2. CASE UNCHANGED lock /\ pc[w] = "halting"
    BY <2>2 DEF TypeOK
  <2> QED
    BY <2>1, <2>2
<1>2. \A q \in Runs : Live(q)' => task[q].host # w /\ task'[q] = task[q]
  BY ForgetFacts DEF Live
<1>3. RowInv'
  <2> SUFFICES ASSUME NEW q \in Runs
               PROVE  /\ run[q].status = "none" =>
                           /\ task'[q].phase = "none" /\ task'[q].host = NoReplica
                           /\ run[q].schedule = NoSchedule
                      /\ run[q].status # "none" => run[q].schedule \in Schedules
                      /\ Live(q)' => task'[q].host \in Replicas
                      /\ task'[q].phase \in {"building", "connecting", "streaming", "rejecting",
                                            "succeeding", "failing"} =>
                           run[q].status \in {"running", "reaped"}
                      /\ task'[q].phase = "cancelling" =>
                           run[q].status \in {"running", "reaped", "succeeded"}
    BY DEF RowInv
  <2>1. CASE task[q].host # w
    BY <2>1, ForgetFacts DEF RowInv, Live
  <2>2. CASE task[q].host = w
    BY <2>2, ForgetFacts DEF RowInv, Live, Over
  <2> QED
    BY <2>1, <2>2
<1>4. LockInv' /\ OneRunningPerSchedule'
  BY <1>1 DEF LockInv, OneRunningPerSchedule, RunningFor
<1>5. MapInv'
  <2>1. ASSUME NEW v \in Replicas, NEW z \in Schedules, inflight'[v][z] # NoRun
        PROVE  /\ task'[inflight'[v][z]].phase \notin Over /\ task'[inflight'[v][z]].host = v
               /\ run'[inflight'[v][z]].schedule = z
    <3> DEFINE q == inflight[v][z]
    <3>1. v # w /\ inflight'[v][z] = q /\ q \in Runs /\ q # NoRun
      BY <2>1, ForgetFacts DEF TypeOK
    <3>2. Live(q) /\ task[q].host = v /\ run[q].schedule = z
      BY <3>1 DEF MapInv
    <3>3. task'[q] = task[q]
      BY <3>1, <3>2, ForgetFacts
    <3> QED
      BY <3>1, <3>2, <3>3 DEF Live
  <2>2. ASSUME NEW v \in Replicas, NEW z \in Schedules, lock'[z] = v
        PROVE  inflight'[v][z] = NoRun
    <3>1. v # w /\ lock[z] = v
      BY <2>2, <1>1, NamesAssumption
    <3> QED
      BY <3>1, ForgetFacts DEF MapInv
  <2> QED
    BY <2>1, <2>2 DEF MapInv, Live
<1>6. AwaitInv'
  <2> SUFFICES ASSUME NEW v \in Replicas, awaited'[v] # NoRun
               PROVE  /\ pc'[v] \in {"scanned", "halting"}
                      /\ task'[awaited'[v]].host = v
                      /\ run'[awaited'[v]].schedule \in Schedules
                      /\ inflight'[v][run'[awaited'[v]].schedule] = NoRun
    BY DEF AwaitInv
  <2>1. v # w /\ awaited'[v] = awaited[v] /\ awaited[v] \in Runs
    BY ForgetFacts DEF TypeOK
  <2>2. task'[awaited[v]] = task[awaited[v]]
    BY <2>1, ForgetFacts DEF AwaitInv
  <2> QED
    BY <2>1, <2>2, ForgetFacts DEF AwaitInv
<1>7. TasksAreTracked'
  <2> SUFFICES ASSUME NEW v \in Replicas, NEW q \in Runs, task'[q].host = v, Live(q)'
               PROVE  inflight'[v][run'[q].schedule] = q \/ awaited'[v] = q
    BY DEF TasksAreTracked, Hosted
  <2>1. task[q].host = v /\ v # w /\ Live(q)
    BY <1>2 DEF Live
  <2>2. inflight[v][run[q].schedule] = q \/ awaited[v] = q
    BY <2>1 DEF TasksAreTracked, Hosted
  <2> QED
    BY <2>1, <2>2, ForgetFacts
<1> QED
  BY <1>3, <1>4, <1>5, <1>6, <1>7

\* Every step keeps rows, tasks and maps in shape.
LEMMA ShapeStep == ShapeInv /\ [Next]_vars => ShapeInv'
<1> SUFFICES ASSUME ShapeInv, [Next]_vars PROVE ShapeInv'
  OBVIOUS
<1> USE DEF tables, loopVars, mapVars
<1>1. TypeOK /\ TypeOK'
  BY TypeStep DEF ShapeInv
<1>2. ASSUME NEW s \in Schedules, NEW active \in BOOLEAN, Edit(s, active) PROVE ShapeInv'
  BY <1>1, <1>2, ShapeAside DEF Edit
<1>3. ASSUME NEW w \in Replicas, Scan(w) PROVE ShapeInv'
  BY <1>1, <1>3, ShapeAside DEF Scan, Resting, TypeOK, AwaitInv, ShapeInv
<1>4. ASSUME NEW w \in Replicas, RetireMarkers(w) PROVE ShapeInv'
  BY <1>1, <1>4, ShapeAside DEF RetireMarkers, TypeOK
<1>5. ASSUME NEW w \in Replicas, Exit(w) PROVE ShapeInv'
  BY <1>1, <1>5, ShapeForget DEF Exit
<1>6. ASSUME NEW w \in Replicas, StopReturns(w) PROVE ShapeInv'
  <2>1. ~Live(awaited[w])
    BY <1>6 DEF StopReturns, Live, Over
  <2>2. \A v \in Replicas : v # w => awaited'[v] = awaited[v]
    BY <1>1, <1>6 DEF StopReturns, TypeOK
  <2>3. awaited'[w] = NoRun
    BY <1>1, <1>6 DEF StopReturns, TypeOK
  <2> QED
    BY <1>1, <1>6, <2>1, <2>2, <2>3, ShapeAside DEF StopReturns
<1>7. ASSUME NEW w \in Replicas, StopRaises(w) PROVE ShapeInv'
  <2>1. ~Live(awaited[w])
    BY <1>7 DEF StopRaises, Live, Over
  <2>2. \A v \in Replicas : v # w => awaited'[v] = awaited[v] /\ pc'[v] = pc[v]
    BY <1>1, <1>7, LeaveTickType DEF StopRaises, TypeOK
  <2>3. awaited'[w] = NoRun
    BY <1>1, <1>7 DEF StopRaises, TypeOK
  <2> QED
    BY <1>1, <1>7, <2>1, <2>2, <2>3, ShapeAside DEF StopRaises
<1>8. ASSUME NEW w \in Replicas, NEW s \in Schedules, PassOver(w, s) PROVE ShapeInv'
  BY <1>1, <1>8, ShapeAside DEF PassOver
<1>9. ASSUME NEW w \in Replicas, StartRaises(w) PROVE ShapeInv'
  <2>1. /\ \A z \in Schedules : lock'[z] # NoReplica => lock'[z] = lock[z]
        /\ \A v \in Replicas, z \in Schedules : lock'[z] = v => lock[z] = v
    BY <1>1, <1>9, ReleaseFacts DEF StartRaises
  <2>2. UNCHANGED <<run, task, inflight, awaited>>
    BY <1>9 DEF StartRaises
  <2>3. LockInv' /\ MapInv'
    BY <1>1, <2>1, <2>2 DEF ShapeInv, LockInv, MapInv, RunningFor, Live
  <2>4. AwaitInv'
    <3>1. awaited[w] = NoRun /\ \A v \in Replicas \ {w} : pc'[v] = pc[v]
      BY <1>1, <1>9, LeaveTickType DEF StartRaises, ShapeInv, AwaitInv
    <3> QED
      BY <2>2, <3>1 DEF ShapeInv, AwaitInv
  <2>5. RowInv' /\ OneRunningPerSchedule' /\ TasksAreTracked'
    BY <2>2 DEF ShapeInv, RowInv, OneRunningPerSchedule, TasksAreTracked, Hosted, Live
  <2> QED
    BY <1>1, <2>3, <2>4, <2>5 DEF ShapeInv
<1>10. ASSUME NEW w \in Replicas, Halt(w) PROVE ShapeInv'
  BY <1>1, <1>10, ShapeAside DEF Halt, Resting, TypeOK, AwaitInv, ShapeInv
<1>11. ASSUME NEW w \in Replicas, Crash(w) PROVE ShapeInv'
  BY <1>1, <1>11, ShapeForget DEF Crash
<1>12. ASSUME NEW w \in Replicas, Restart(w) PROVE ShapeInv'
  <2>1. awaited[w] = NoRun /\ \A v \in Replicas \ {w} : pc'[v] = pc[v]
    <3>1. awaited[w] = NoRun
      BY <1>12 DEF Restart, AwaitInv, ShapeInv
    <3>2. \A v \in Replicas \ {w} : pc'[v] = pc[v]
      BY <1>1, <1>12 DEF Restart, TypeOK
    <3> QED
      BY <3>1, <3>2
  <2>2. UNCHANGED <<run, task, inflight, lock, awaited>>
    BY <1>12 DEF Restart
  <2> QED
    BY <1>1, <2>1, <2>2, ShapeAside
<1>13. ASSUME NEW w \in Replicas, Stall(w) \/ Resume(w) PROVE ShapeInv'
  <2>1. UNCHANGED <<run, lock, task, pc, awaited, inflight>>
    BY <1>13 DEF Stall, Resume
  <2> QED
    BY <1>1, <2>1, ShapeAside
<1>14. CASE UNCHANGED vars
  BY <1>1, <1>14, ShapeAside DEF vars
<1> QED
  BY <1>1, <1>2, <1>3, <1>4, <1>5, <1>6, <1>7, <1>8, <1>9, <1>10, <1>11, <1>12, <1>13, <1>14,
     ShapeStartCommit, ShapeStartLock, ShapeStopSchedule, ShapeStream, ShapeRecorded,
     ShapeReap, ShapeTaskEnds DEF Next, Loop, TaskStep

\* Rows, tasks and maps are in shape in every reachable state.
THEOREM Shape == Spec => []ShapeInv
<1>1. QED
  BY ShapeInit, ShapeStep, PTL DEF Spec

\* However many processes scan, a schedule has at most one running row.
THEOREM OneRunning == Spec => []OneRunningPerSchedule
<1>1. ShapeInv => OneRunningPerSchedule
  BY DEF ShapeInv
<1> QED
  BY <1>1, Shape, PTL

\* A process never loses sight of a task it hosts.
THEOREM Tracked == Spec => []TasksAreTracked
<1>1. ShapeInv => TasksAreTracked
  BY DEF ShapeInv
<1> QED
  BY <1>1, Shape, PTL

-----------------------------------------------------------------------------
(***************************************************************************)
(* Verdicts                                                                *)
(***************************************************************************)
\* The status changes VerdictStands allows a run in one step.
VerdictChange(r) ==
  run[r].status # run'[r].status =>
    \/ run[r].status \in {"none", "running", "reaped"}
    \/ run[r].status = "succeeded" /\ run'[r].status = "cancelled"

\* The insert, a cancel, the record and the reaper change a status, each only
\* of a row that waits for it.
LEMMA VerdictStep == ShapeInv /\ [Next]_vars => \A r \in Runs : VerdictChange(r)
<1> SUFFICES ASSUME ShapeInv, [Next]_vars, NEW r \in Runs PROVE VerdictChange(r)
  OBVIOUS
<1>1. TypeOK /\ RowInv /\ MapInv
  BY DEF ShapeInv
<1>2. run' = run => VerdictChange(r)
  BY DEF VerdictChange
<1>3. ASSUME NEW w \in Replicas, NEW s \in Schedules, NEW q \in Runs, StartCommit(w, s, q)
      PROVE  VerdictChange(r)
  BY <1>1, <1>3, StartCommitFacts DEF VerdictChange
<1>4. ASSUME NEW w \in Replicas, NEW s \in Schedules, NEW landed \in BOOLEAN,
             StopSchedule(w, s, landed)
      PROVE  VerdictChange(r)
  <2> DEFINE q == inflight[w][s]
  <2>1. /\ q \in Runs
        /\ r # q => run'[r] = run[r]
        /\ run'[q].status # run[q].status => task[q].phase = "succeeding"
    BY <1>1, <1>4, StopScheduleFacts
  <2> HIDE DEF q
  <2>2. task[q].phase = "succeeding" => run[q].status \in {"running", "reaped"}
    BY <1>1, <2>1 DEF RowInv
  <2> QED
    BY <2>1, <2>2 DEF VerdictChange
<1>5. ASSUME NEW q \in Runs, Recorded(q) PROVE VerdictChange(r)
  <2>1. /\ task[q].phase \in Recording
        /\ task[q].phase = "cancelling" => Verdict(task[q].phase) = "cancelled"
        /\ Verdict(task[q].phase) \in Statuses
    BY <1>5, VerdictFacts DEF Recorded, Statuses
  <2>2. run'[q].status = Verdict(task[q].phase) /\ (r # q => run'[r] = run[r])
    BY <1>1, <1>5, <2>1, SetStatusFacts DEF Recorded
  <2>3. /\ task[q].phase # "cancelling" => run[q].status \in {"running", "reaped"}
        /\ task[q].phase = "cancelling" => run[q].status \in {"running", "reaped", "succeeded"}
    BY <1>1, <2>1 DEF RowInv, Recording
  <2> QED
    BY <2>1, <2>2, <2>3 DEF VerdictChange
<1>6. ASSUME NEW q \in Runs, Reap(q) PROVE VerdictChange(r)
  BY <1>1, <1>6, SetStatusFacts DEF Reap, Statuses, VerdictChange
<1>7. ASSUME NEW q \in Runs, TaskEnds(q) \/ StreamStep(q) PROVE VerdictChange(r)
  BY <1>1, <1>2, <1>7, StreamStepFacts DEF TaskEnds, tables
<1>8. ASSUME NEW w \in Replicas,
             \/ Scan(w) \/ RetireMarkers(w) \/ Exit(w) \/ StopReturns(w) \/ StopRaises(w)
             \/ StartRaises(w) \/ Halt(w) \/ Crash(w) \/ Restart(w) \/ Stall(w) \/ Resume(w)
      PROVE  VerdictChange(r)
  BY <1>2, <1>8 DEF Scan, RetireMarkers, Exit, StopReturns, StopRaises, StartRaises, Halt, Crash,
     Restart, Stall, Resume, tables
<1>9. ASSUME NEW w \in Replicas, NEW s \in Schedules, PassOver(w, s) \/ StartLock(w, s)
      PROVE  VerdictChange(r)
  BY <1>2, <1>9 DEF PassOver, StartLock, tables
<1>10. ASSUME NEW s \in Schedules, NEW active \in BOOLEAN, Edit(s, active) PROVE VerdictChange(r)
  BY <1>2, <1>10 DEF Edit
<1>11. CASE UNCHANGED vars
  BY <1>2, <1>11 DEF vars, tables
<1> QED
  BY <1>3, <1>4, <1>5, <1>6, <1>7, <1>8, <1>9, <1>10, <1>11 DEF Next, Loop, TaskStep

\* A verdict stands.
THEOREM VerdictsStand == Spec => VerdictStands
<1>1. ShapeInv /\ [Next]_vars =>
        [\A r \in Runs : run[r].status # run'[r].status =>
           \/ run[r].status \in {"none", "running", "reaped"}
           \/ run[r].status = "succeeded" /\ run'[r].status = "cancelled"]_vars
  BY VerdictStep DEF VerdictChange
<1> QED
  BY <1>1, Shape, PTL DEF Spec, VerdictStands

-----------------------------------------------------------------------------
(***************************************************************************)
(* A process starts a schedule again only after an edit.  What a process    *)
(* knows of a schedule is read at different moments: the versions its       *)
(* tasks closed over, the version its scan found, the one                   *)
(* _terminated_at_update keeps, and the schedule itself.  Ordered says how  *)
(* these may lie to each other.                                             *)
(***************************************************************************)

-----------------------------------------------------------------------------
(***************************************************************************)
(* The invariant, for one process and one schedule                         *)
(***************************************************************************)
\* A run was started from a version the schedule has had, and it was active.
Origin(w, s) ==
  \A r \in Started(w, s) :
    /\ task[r].version \in Versions /\ task[r].version <= schedule[s].version
    /\ task[r].version = schedule[s].version => schedule[s].active

\* No two runs were started from one version.
Apart(w, s) ==
  \A r, q \in Started(w, s) : r # q => task[r].version # task[q].version

\* The run that is live was started last.
Latest(w, s) ==
  \A r, q \in Started(w, s) : r # q /\ Live(r) => task[q].version < task[r].version

\* What the scan found is not older than any run, and was active.
ScanOrder(w, s) ==
  seen[w][s] # NoVersion =>
    /\ seen[w][s] <= schedule[s].version
    /\ seen[w][s] = schedule[s].version => schedule[s].active
    /\ \A r \in Started(w, s) : task[r].version <= seen[w][s]

\* A run that is over is the one the marker names, or its version is gone:
\* neither the schedule nor the scan under way can show it again.
Spent(w, s) ==
  \A r \in Started(w, s) :
    \/ Live(r) \/ marker[w][s] = task[r].version
    \/ /\ task[r].version < schedule[s].version
       /\ seen[w][s] # NoVersion => task[r].version < seen[w][s]

\* A schedule the scan did not find has been edited since its last start.
Found(w, s) ==
  pc[w] = "scanned" /\ seen[w][s] = NoVersion =>
    \A r \in Started(w, s) : task[r].version < schedule[s].version

\* What is about to be inserted is newer than all there was.
Chosen(w, s) ==
  lock[s] = w =>
    /\ seen[w][s] # NoVersion
    /\ \A r \in Started(w, s) : task[r].version < seen[w][s]

Ordered(w, s) ==
  /\ Origin(w, s) /\ Apart(w, s) /\ Latest(w, s) /\ ScanOrder(w, s)
  /\ Spent(w, s) /\ Found(w, s) /\ Chosen(w, s)

OrderInv == \A w \in Replicas, s \in Schedules : Ordered(w, s)

IInv == ShapeInv /\ OrderInv

-----------------------------------------------------------------------------
(***************************************************************************)
(* Steps that leave a process and a schedule alone                         *)
(***************************************************************************)
\* The runs v started for z are the same ones, and the same ones are live.
SameRuns(v, z) ==
  \A q \in Runs :
    /\ (task'[q].host = v /\ run'[q].schedule = z) <=> (task[q].host = v /\ run[q].schedule = z)
    /\ task[q].host = v /\ run[q].schedule = z =>
         task'[q].version = task[q].version /\ (task'[q].phase \in Over <=> task[q].phase \in Over)

\* What v knows of z is the same, or its tick is over with z.
SameView(v, z) ==
  /\ marker'[v][z] = marker[v][z] /\ schedule'[z] = schedule[z]
  /\ pc'[v] = "scanned" => pc[v] = "scanned"
  /\ lock'[z] = v => lock[z] = v
  /\ \/ seen'[v][z] = seen[v][z]
     \/ seen'[v][z] = NoVersion /\ pc'[v] # "scanned" /\ lock'[z] # v

\* Versions are numbers.
LEMMA VersionFacts ==
  ASSUME TypeOK
  PROVE  /\ \A r \in Runs : task[r].version \in Int
         /\ \A s \in Schedules : schedule[s].version \in Int /\ schedule[s].version \in Versions
         /\ \A w \in Replicas, s \in Schedules :
              seen[w][s] \in Int /\ seen[w][s] \in Versions \cup {NoVersion}
  BY BoundsAssumption DEF TypeOK, Versions, NoVersion

\* Such a step keeps the order.
LEMMA OrderedAside ==
  ASSUME NEW v \in Replicas, NEW z \in Schedules, Ordered(v, z), SameRuns(v, z), SameView(v, z)
  PROVE  Ordered(v, z)'
<1> USE DEF Ordered, SameRuns, SameView, Started, Live
<1>1. Origin(v, z)'
  BY DEF Origin
<1>2. Apart(v, z)'
  BY DEF Apart
<1>3. Latest(v, z)'
  BY DEF Latest
<1>4. ScanOrder(v, z)'
  BY DEF ScanOrder
<1>5. Spent(v, z)'
  BY DEF Spent
<1>6. Found(v, z)'
  BY DEF Found
<1>7. Chosen(v, z)'
  BY DEF Chosen
<1> QED
  BY <1>1, <1>2, <1>3, <1>4, <1>5, <1>6, <1>7

\* No two tasks of a process and a schedule are live at a time.
LEMMA OneLive ==
  ASSUME ShapeInv, NEW w \in Replicas, NEW s \in Schedules,
         NEW r \in Started(w, s), NEW q \in Started(w, s), Live(r), Live(q)
  PROVE  r = q
<1>1. (inflight[w][s] = r \/ awaited[w] = r) /\ (inflight[w][s] = q \/ awaited[w] = q)
  BY DEF ShapeInv, TasksAreTracked, Hosted, Started
<1>2. awaited[w] # NoRun /\ run[awaited[w]].schedule = s => inflight[w][s] = NoRun
  BY DEF ShapeInv, AwaitInv
<1> QED
  BY <1>1, <1>2, RunsAssumption DEF Started

\* A process at rest in its tick, without an entry for s, has no live task of s.
LEMMA NoneLive ==
  ASSUME ShapeInv, NEW w \in Replicas, NEW s \in Schedules,
         pc[w] \in {"idle", "inserting"}, inflight[w][s] = NoRun, NEW r \in Started(w, s)
  PROVE  ~Live(r)
<1>1. awaited[w] = NoRun
  BY DEF ShapeInv, AwaitInv
<1> QED
  BY <1>1, RunsAssumption DEF ShapeInv, TasksAreTracked, Hosted, Started

-----------------------------------------------------------------------------
(***************************************************************************)
(* The steps                                                               *)
(***************************************************************************)
\* Nothing has been started yet.
LEMMA OrderInit == Init => OrderInv
  BY NamesAssumption
     DEF Init, OrderInv, Ordered, Origin, Apart, Latest, ScanOrder, Spent, Found, Chosen, Started

\* Two pairs of a process and a schedule are apart, or one step concerns both.
LEMMA OrderByPair ==
  ASSUME OrderInv,
         \A v \in Replicas, z \in Schedules :
           Ordered(v, z) => Ordered(v, z)' \/ (SameRuns(v, z) /\ SameView(v, z))
  PROVE  OrderInv'
  BY OrderedAside DEF OrderInv

\* An edit makes every version there was an old one.
LEMMA OrderEdit ==
  ASSUME IInv, NEW s \in Schedules, NEW active \in BOOLEAN, Edit(s, active)
  PROVE  OrderInv'
<1> USE DEF IInv, ShapeInv
<1>1. /\ schedule'[s].version = schedule[s].version + 1 /\ schedule[s].version \in Int
      /\ \A z \in Schedules : z # s => schedule'[z] = schedule[z]
      /\ UNCHANGED <<run, lock, task, pc, seen, marker>>
  BY VersionFacts DEF Edit, tables, loopVars, mapVars, TypeOK
<1>2. \A v \in Replicas, z \in Schedules : SameRuns(v, z)
  BY <1>1 DEF SameRuns
<1>3. ASSUME NEW v \in Replicas, NEW z \in Schedules, z # s PROVE SameView(v, z)
  BY <1>1, <1>3 DEF SameView
<1>4. ASSUME NEW v \in Replicas, Ordered(v, s) PROVE Ordered(v, s)'
  <2> USE <1>1, <1>4, VersionFacts DEF Ordered, Started, Live
  <2>1. Origin(v, s)'
    BY DEF Origin
  <2>2. Apart(v, s)' /\ Latest(v, s)' /\ Chosen(v, s)'
    BY DEF Apart, Latest, Chosen
  <2>3. ScanOrder(v, s)'
    BY DEF ScanOrder, NoVersion
  <2>4. Spent(v, s)'
    BY DEF Spent, Origin
  <2>5. Found(v, s)'
    BY DEF Found, Origin
  <2> QED
    BY <2>1, <2>2, <2>3, <2>4, <2>5
<1> QED
  BY <1>2, <1>3, <1>4, OrderByPair

\* A scan reads the schedules as they are.
LEMMA OrderScan ==
  ASSUME IInv, NEW w \in Replicas, Scan(w)
  PROVE  OrderInv'
<1> USE DEF IInv, ShapeInv
<1>1. /\ pc[w] = "idle" /\ pc'[w] = "scanned" /\ \A v \in Replicas : v # w => pc'[v] = pc[v]
      /\ \A z \in Schedules :
           seen'[w][z] = IF schedule[z].active THEN schedule[z].version ELSE NoVersion
      /\ \A v \in Replicas : v # w => seen'[v] = seen[v]
      /\ UNCHANGED <<schedule, run, lock, task, marker>>
  BY DEF Scan, Resting, tables, mapVars, TypeOK
<1>2. \A v \in Replicas, z \in Schedules : SameRuns(v, z)
  BY <1>1 DEF SameRuns
<1>3. ASSUME NEW v \in Replicas, NEW z \in Schedules, v # w PROVE SameView(v, z)
  BY <1>1, <1>3 DEF SameView
<1>4. ASSUME NEW z \in Schedules, Ordered(w, z) PROVE Ordered(w, z)'
  <2> USE <1>1, <1>4, VersionFacts DEF Ordered, Started, Live
  <2>1. Origin(w, z)' /\ Apart(w, z)' /\ Latest(w, z)'
    BY DEF Origin, Apart, Latest
  <2>2. ScanOrder(w, z)'
    BY DEF ScanOrder, Origin
  <2>3. Spent(w, z)'
    BY DEF Spent
  <2>4. Found(w, z)'
    BY BoundsAssumption DEF Found, Origin, Versions, NoVersion
  <2>5. lock[z] # w
    BY DEF TypeOK
  <2> QED
    BY <2>1, <2>2, <2>3, <2>4, <2>5 DEF Chosen
<1> QED
  BY <1>2, <1>3, <1>4, OrderByPair

\* The markers that go are of schedules edited since their last start.
LEMMA OrderRetire ==
  ASSUME IInv, NEW w \in Replicas, RetireMarkers(w)
  PROVE  OrderInv'
<1> USE DEF IInv, ShapeInv
<1>1. /\ pc[w] = "scanned" /\ pc'[w] = "idle" /\ \A v \in Replicas : v # w => pc'[v] = pc[v]
      /\ \A z \in Schedules : z \in Todo(w) => marker'[w][z] = marker[w][z]
      /\ \A v \in Replicas : v # w => marker'[v] = marker[v]
      /\ UNCHANGED <<schedule, run, lock, task, seen>>
  BY DEF RetireMarkers, tables, TypeOK
<1>2. \A v \in Replicas, z \in Schedules : SameRuns(v, z)
  BY <1>1 DEF SameRuns
<1>3. ASSUME NEW v \in Replicas, NEW z \in Schedules, v # w \/ z \in Todo(w) PROVE SameView(v, z)
  BY <1>1, <1>3 DEF SameView
<1>4. ASSUME NEW z \in Schedules, z \notin Todo(w), Ordered(w, z) PROVE Ordered(w, z)'
  <2> USE <1>1, <1>4 DEF Ordered, Started, Live
  <2>1. seen[w][z] = NoVersion
    BY DEF Todo
  <2>2. Origin(w, z)' /\ Apart(w, z)' /\ Latest(w, z)' /\ ScanOrder(w, z)' /\ Chosen(w, z)'
    BY DEF Origin, Apart, Latest, ScanOrder, Chosen
  <2>3. Spent(w, z)' /\ Found(w, z)'
    BY <2>1 DEF Spent, Found
  <2> QED
    BY <2>2, <2>3
<1> QED
  BY <1>2, <1>3, <1>4, OrderByPair

\* A schedule that is passed over or chosen has no live task here, and the
\* marker that goes is not of the version the scan found.
LEMMA OrderLook ==
  ASSUME IInv, NEW w \in Replicas, NEW s \in Schedules, PassOver(w, s) \/ StartLock(w, s)
  PROVE  OrderInv'
<1> USE DEF IInv, ShapeInv
<1>1. /\ pc[w] = "idle" /\ seen[w][s] # NoVersion
      /\ pc'[w] \in {"idle", "inserting"} /\ \A v \in Replicas : v # w => pc'[v] = pc[v]
      /\ \A v \in Replicas, z \in Schedules : v # w \/ z # s =>
           marker'[v][z] = marker[v][z] /\ seen'[v][z] = seen[v][z]
      /\ \A z \in Schedules : z # s => lock'[z] = lock[z]
      /\ \A v \in Replicas : v # w /\ lock'[s] = v => lock[s] = v
      /\ UNCHANGED <<schedule, run, task>>
  <2>1. CASE PassOver(w, s)
    BY <2>1 DEF PassOver, Todo, tables, TypeOK
  <2>2. CASE StartLock(w, s)
    BY <2>2 DEF StartLock, Todo, tables, TypeOK
  <2> QED
    BY <2>1, <2>2
<1>2. \A v \in Replicas, z \in Schedules : SameRuns(v, z)
  BY <1>1 DEF SameRuns
<1>3. ASSUME NEW v \in Replicas, NEW z \in Schedules, v # w \/ z # s PROVE SameView(v, z)
  BY <1>1, <1>3 DEF SameView
<1>4. \/ HeldBack(w, s) /\ marker'[w][s] = marker[w][s] /\ seen'[w][s] = NoVersion /\ lock' = lock
      \/ ~HeldBack(w, s) /\ marker'[w][s] = NoVersion
         /\ \/ seen'[w][s] = NoVersion /\ lock' = lock
            \/ seen'[w][s] = seen[w][s]
  BY DEF PassOver, StartLock, TypeOK
<1>5. lock[s] # w
  BY <1>1 DEF TypeOK
<1>6. CASE HeldBack(w, s)
  <2>1. SameView(w, s)
    BY <1>1, <1>4, <1>5, <1>6 DEF SameView
  <2> QED
    BY <1>2, <1>3, <2>1, OrderByPair
<1>7. CASE ~HeldBack(w, s)
  <2>1. ASSUME Ordered(w, s) PROVE Ordered(w, s)'
    <3> USE DEF Ordered
    <3>1. \A r \in Started(w, s) : task[r].version < seen[w][s]
      <4> SUFFICES ASSUME NEW r \in Started(w, s) PROVE task[r].version < seen[w][s]
        OBVIOUS
      <4>1. ~Live(r)
        BY <1>1, <1>7, NoneLive DEF HeldBack
      <4>2. marker[w][s] # seen[w][s]
        BY <1>7 DEF HeldBack
      <4>3. task[r].version <= seen[w][s] /\ task[r].version \in Int /\ seen[w][s] \in Int
        BY <1>1, <2>1, VersionFacts DEF ScanOrder, Started
      <4>4. marker[w][s] = task[r].version \/ task[r].version < seen[w][s]
        BY <1>1, <2>1, <4>1 DEF Spent
      <4> QED
        BY <4>2, <4>3, <4>4
    <3>2. \A r \in Started(w, s) : task[r].version < schedule[s].version
      <4>1. seen[w][s] <= schedule[s].version /\ seen[w][s] \in Int /\ schedule[s].version \in Int
        BY <1>1, <2>1, VersionFacts DEF ScanOrder
      <4> QED
        BY <3>1, <4>1, VersionFacts DEF Started
    <3>3. Origin(w, s)' /\ Apart(w, s)' /\ Latest(w, s)'
      BY <1>1, <2>1 DEF Origin, Apart, Latest, Started, Live
    <3>4. ScanOrder(w, s)' /\ Found(w, s)'
      BY <1>1, <1>4, <1>7, <2>1 DEF ScanOrder, Found, Started
    <3>5. Spent(w, s)'
      BY <1>1, <1>4, <1>7, <3>1, <3>2 DEF Spent, Started
    <3>6. Chosen(w, s)'
      BY <1>1, <1>4, <1>5, <1>7, <3>1 DEF Chosen, Started
    <3> QED
      BY <3>3, <3>4, <3>5, <3>6
  <2> QED
    BY <1>2, <1>3, <2>1, OrderByPair
<1> QED
  BY <1>6, <1>7

\* A run is inserted from a version newer than all of its process.
LEMMA OrderCommit ==
  ASSUME IInv, NEW w \in Replicas, NEW s \in Schedules, NEW r \in Runs, StartCommit(w, s, r)
  PROVE  OrderInv'
<1> USE DEF IInv, ShapeInv
<1>1. /\ task[r].phase = "none" /\ task[r].host = NoReplica /\ run[r].schedule = NoSchedule
      /\ pc[w] = "inserting" /\ lock[s] = w
  BY StartCommitFacts DEF RowInv
<1>2. inflight[w][s] = NoRun
  BY <1>1 DEF MapInv
<1>3. /\ run'[r].schedule = s
      /\ task'[r].phase = "building" /\ task'[r].host = w /\ task'[r].version = seen[w][s]
      /\ \A q \in Runs : q # r => run'[q] = run[q] /\ task'[q] = task[q]
      /\ seen'[w][s] = NoVersion
      /\ \A v \in Replicas, z \in Schedules : v # w \/ z # s => seen'[v][z] = seen[v][z]
      /\ pc'[w] = "idle" /\ \A v \in Replicas : v # w => pc'[v] = pc[v]
      /\ UNCHANGED <<schedule, marker>>
  BY StartCommitFacts
<1>4. \A v \in Replicas, z \in Schedules : lock'[z] = v => lock[z] = v /\ v # w
  BY ReleaseFacts, StartCommitFacts
<1>5. ASSUME NEW v \in Replicas, NEW z \in Schedules, v # w \/ z # s
      PROVE  SameRuns(v, z) /\ SameView(v, z)
  <2>1. SameRuns(v, z)
    BY <1>1, <1>3, <1>5, NamesAssumption DEF SameRuns
  <2>2. SameView(v, z)
    BY <1>3, <1>4, <1>5 DEF SameView
  <2> QED
    BY <2>1, <2>2
<1>6. ASSUME Ordered(w, s) PROVE Ordered(w, s)'
  <2> USE <1>6 DEF Ordered
  <2>1. \A q \in Runs : q \in Started(w, s)' <=> q = r \/ q \in Started(w, s)
    BY <1>3 DEF Started
  <2>2. r \notin Started(w, s)
    BY <1>1, NamesAssumption DEF Started
  <2>3. /\ seen[w][s] # NoVersion /\ seen[w][s] \in Versions /\ seen[w][s] \in Int
        /\ seen[w][s] <= schedule[s].version /\ schedule[s].version \in Int
        /\ seen[w][s] = schedule[s].version => schedule[s].active
    BY <1>1, VersionFacts DEF Chosen, ScanOrder
  <2>4. \A q \in Started(w, s) : /\ q \in Runs /\ q # r /\ task'[q] = task[q] /\ ~Live(q)
                                 /\ task[q].version \in Int /\ task[q].version < seen[w][s]
    BY <1>1, <1>2, <1>3, <2>2, NoneLive, VersionFacts DEF Chosen, Started
  <2>5. Origin(w, s)'
    BY <1>3, <2>1, <2>3, <2>4 DEF Origin, Started
  <2>6. Apart(w, s)'
    BY <1>3, <2>1, <2>3, <2>4 DEF Apart, Started
  <2>7. Latest(w, s)'
    BY <1>3, <2>1, <2>3, <2>4 DEF Latest, Started, Live
  <2>8. ScanOrder(w, s)' /\ Found(w, s)' /\ Chosen(w, s)'
    BY <1>3, <1>4 DEF ScanOrder, Found, Chosen
  <2>9. Spent(w, s)'
    <3>1. Live(r)'
      BY <1>3 DEF Live, Over
    <3> QED
      BY <1>3, <2>1, <2>3, <2>4, <3>1 DEF Spent, Started
  <2> QED
    BY <2>5, <2>6, <2>7, <2>8, <2>9
<1> QED
  BY <1>5, <1>6, OrderByPair

\* The task that ends is the one started last: its marker replaces one that
\* names an older version.
LEMMA OrderTaskEnds ==
  ASSUME IInv, NEW r \in Runs, TaskEnds(r)
  PROVE  OrderInv'
<1> USE DEF IInv, ShapeInv
<1>1. task[r].phase \in {"closing", "crashing"} /\ Live(r)
  BY DEF TaskEnds, Live, Over
<1>2. task[r].host \in Replicas /\ run[r].schedule \in Schedules
  BY <1>1 DEF RowInv, Live, Over
<1> PICK w \in Replicas : w = task[r].host
  BY <1>2
<1> PICK s \in Schedules : s = run[r].schedule
  BY <1>2
<1>3. /\ task'[r].phase \in {"ended", "raised"}
      /\ \A q \in Runs : /\ task'[q].host = task[q].host
                         /\ task'[q].version = task[q].version
                         /\ q # r => task'[q] = task[q]
      /\ marker'[w][s] = task[r].version
      /\ \A v \in Replicas, z \in Schedules : v # w \/ z # s => marker'[v][z] = marker[v][z]
      /\ UNCHANGED <<schedule, run, lock, pc, seen>>
  BY <1>2, TaskEndsFacts DEF tables, loopVars
<1>4. ASSUME NEW v \in Replicas, NEW z \in Schedules, v # w \/ z # s
      PROVE  SameRuns(v, z) /\ SameView(v, z)
  BY <1>3, <1>4 DEF SameRuns, SameView
<1>5. ASSUME Ordered(w, s) PROVE Ordered(w, s)'
  <2> USE <1>5 DEF Ordered
  <2>1. r \in Started(w, s) /\ \A q \in Runs : q \in Started(w, s)' <=> q \in Started(w, s)
    BY <1>3 DEF Started
  <2>2. \A q \in Started(w, s) : /\ q \in Runs /\ task'[q].version = task[q].version
                                 /\ q # r => task'[q] = task[q]
    BY <1>3 DEF Started
  <2>3. ASSUME NEW q \in Started(w, s), q # r
        PROVE  /\ task[q].version < schedule[s].version
               /\ seen[w][s] # NoVersion => task[q].version < seen[w][s]
    <3>1. task[q].version < task[r].version
      BY <1>1, <2>1, <2>3 DEF Latest
    <3>2. task[r].version <= schedule[s].version
          /\ (seen[w][s] # NoVersion => task[r].version <= seen[w][s])
      BY <2>1 DEF Origin, ScanOrder
    <3> QED
      BY <1>2, <2>1, <2>2, <3>1, <3>2, VersionFacts
  <2>4. Origin(w, s)' /\ Apart(w, s)' /\ ScanOrder(w, s)' /\ Found(w, s)' /\ Chosen(w, s)'
    <3>1. \A q \in Started(w, s)' : q \in Started(w, s) /\ task'[q].version = task[q].version
      <4>1. ASSUME NEW q \in Started(w, s)' PROVE q \in Runs
        BY DEF Started
      <4> QED
        BY <2>1, <2>2, <4>1
    <3>2. schedule' = schedule /\ lock' = lock /\ pc' = pc /\ seen' = seen
      BY <1>3
    <3>3. Origin(w, s)' /\ Apart(w, s)'
      BY <3>1, <3>2 DEF Origin, Apart
    <3>4. ScanOrder(w, s)'
      BY <3>1, <3>2 DEF ScanOrder
    <3>5. Found(w, s)' /\ Chosen(w, s)'
      BY <3>1, <3>2 DEF Found, Chosen
    <3> QED
      BY <3>3, <3>4, <3>5
  <2>5. Latest(w, s)'
    <3>1. ~Live(r)'
      BY <1>3 DEF Live, Over
    <3> QED
      BY <2>1, <2>2, <3>1 DEF Latest, Started, Live
  <2>6. Spent(w, s)'
    BY <1>3, <2>1, <2>2, <2>3 DEF Spent, Started
  <2> QED
    BY <2>4, <2>5, <2>6
<1> QED
  BY <1>4, <1>5, OrderByPair

\* A process that ends takes its runs and what it knew with it.
LEMMA OrderForget ==
  ASSUME IInv, NEW w \in Replicas, Forget(w), UNCHANGED <<schedule, run>>,
         Release(w) \/ (UNCHANGED lock /\ pc[w] = "halting")
  PROVE  OrderInv'
<1> USE DEF IInv, ShapeInv
<1>1. \A v \in Replicas, z \in Schedules : lock'[z] = v => lock[z] = v /\ v # w
  <2>1. CASE Release(w)
    BY <2>1, ReleaseFacts
  <2>2. CASE UNCHANGED lock /\ pc[w] = "halting"
    BY <2>2 DEF TypeOK
  <2> QED
    BY <2>1, <2>2
<1>2. ASSUME NEW v \in Replicas, NEW z \in Schedules, v # w PROVE SameRuns(v, z) /\ SameView(v, z)
  <2>1. SameRuns(v, z)
    BY <1>2, ForgetFacts, NamesAssumption DEF SameRuns
  <2>2. SameView(v, z)
    BY <1>1, <1>2, ForgetFacts DEF SameView
  <2> QED
    BY <2>1, <2>2
<1>3. ASSUME NEW z \in Schedules PROVE Ordered(w, z)'
  <2>1. Started(w, z)' = {}
    BY ForgetFacts, NamesAssumption DEF Started
  <2>2. seen'[w][z] = NoVersion /\ lock'[z] # w
    BY <1>1, ForgetFacts
  <2> QED
    BY <2>1, <2>2 DEF Ordered, Origin, Apart, Latest, ScanOrder, Spent, Found, Chosen
<1> QED
  BY <1>2, <1>3, OrderByPair

\* Phase changes of live tasks, their records and the reaper touch no version.
LEMMA OrderTask ==
  ASSUME IInv, NEW r \in Runs, StreamStep(r) \/ Recorded(r) \/ Reap(r)
  PROVE  OrderInv'
<1> USE DEF IInv, ShapeInv
<1>1. /\ UNCHANGED <<schedule, lock, pc, seen, marker>>
      /\ \A q \in Runs : /\ task'[q].host = task[q].host /\ task'[q].version = task[q].version
                         /\ run'[q].schedule = run[q].schedule
                         /\ task'[q].phase \in Over <=> task[q].phase \in Over
  <2>1. CASE StreamStep(r)
    <3>1. PICK to \in {"connecting", "rejecting", "streaming", "succeeding", "failing", "crashing"} :
            SetPhase(r, to)
      BY <2>1, StreamStepFacts
    <3>2. to \in Phases /\ to \notin Over
      BY DEF Phases, Recording, Over
    <3>3. task[r].phase \notin Over /\ UNCHANGED <<schedule, run, lock, pc, seen, marker>>
      BY <2>1, StreamStepFacts DEF tables, loopVars, mapVars
    <3> QED
      BY <3>1, <3>2, <3>3, SetPhaseFacts
  <2>2. CASE Recorded(r)
    <3>1. "closing" \in Phases /\ "closing" \notin Over /\ Verdict(task[r].phase) \in Statuses
          /\ task[r].phase \notin Over
      BY <2>2, VerdictFacts DEF Recorded, Phases, Statuses, Recording, Over
    <3> QED
      BY <2>2, <3>1, SetPhaseFacts, SetStatusFacts DEF Recorded, loopVars, mapVars
  <2>3. CASE Reap(r)
    <3>1. "reaped" \in Statuses
      BY DEF Statuses
    <3> QED
      BY <2>3, <3>1, SetStatusFacts DEF Reap, loopVars, mapVars
  <2> QED
    BY <2>1, <2>2, <2>3
<1>2. \A v \in Replicas, z \in Schedules : SameRuns(v, z) /\ SameView(v, z)
  BY <1>1 DEF SameRuns, SameView
<1> QED
  BY <1>2, OrderByPair

\* A stop cancels a task that is live, and it stays live for now.
LEMMA OrderStop ==
  ASSUME IInv, NEW w \in Replicas, NEW s \in Schedules, NEW landed \in BOOLEAN,
         StopSchedule(w, s, landed)
  PROVE  OrderInv'
<1> USE DEF IInv, ShapeInv
<1> DEFINE r == inflight[w][s]
<1>1. /\ r \in Runs /\ task'[r].phase \in {"cancelling", "crashing", "closing"}
      /\ \A q \in Runs : /\ task'[q].host = task[q].host
                         /\ task'[q].version = task[q].version
                         /\ run'[q].schedule = run[q].schedule
                         /\ q # r => task'[q] = task[q]
      /\ UNCHANGED <<schedule, lock, pc, seen, marker>>
  BY StopScheduleFacts
<1>2. Live(r)
  BY DEF MapInv, StopSchedule, MayStop
<1> HIDE DEF r
<1>3. \A v \in Replicas, z \in Schedules : SameRuns(v, z) /\ SameView(v, z)
  BY <1>1, <1>2 DEF SameRuns, SameView, Live, Over
<1> QED
  BY <1>3, OrderByPair

\* Where the loop of a process goes on, its tick may be over, and nothing else.
LEMMA OrderLoop ==
  ASSUME IInv, NEW w \in Replicas,
         \/ StopReturns(w) \/ StopRaises(w) \/ StartRaises(w)
         \/ Halt(w) \/ Restart(w) \/ Stall(w) \/ Resume(w)
  PROVE  OrderInv'
<1> USE DEF IInv, ShapeInv, tables, loopVars, mapVars
<1>1. UNCHANGED <<schedule, run, task, marker>>
  BY DEF StopReturns, StopRaises, StartRaises, Halt, Restart, Stall, Resume
<1>2. /\ \A v \in Replicas : pc'[v] = "scanned" => pc[v] = "scanned"
      /\ \A v \in Replicas, z \in Schedules : lock'[z] = v => lock[z] = v
      /\ \A v \in Replicas, z \in Schedules :
           \/ seen'[v][z] = seen[v][z]
           \/ seen'[v][z] = NoVersion /\ pc'[v] # "scanned" /\ lock'[z] # v
  <2>1. CASE StopReturns(w) \/ Stall(w) \/ Resume(w)
    BY <2>1 DEF StopReturns, Stall, Resume
  <2>2. CASE Halt(w) \/ Restart(w)
    BY <2>2 DEF Halt, Restart, TypeOK
  <2>3. CASE StopRaises(w)
    <3>1. CASE pc[w] = "scanned"
      <4>1. LeaveTick(w) /\ UNCHANGED lock
        BY <2>3, <3>1 DEF StopRaises
      <4>2. \A z \in Schedules : lock[z] # w
        BY <3>1 DEF TypeOK
      <4> QED
        BY <4>1, <4>2 DEF LeaveTick, TypeOK
    <3>2. CASE pc[w] # "scanned"
      BY <2>3, <3>2 DEF StopRaises
    <3> QED
      BY <3>1, <3>2
  <2>4. CASE StartRaises(w)
    <3>1. LeaveTick(w) /\ Release(w)
      BY <2>4 DEF StartRaises
    <3>2. \A v \in Replicas, z \in Schedules : lock'[z] = v => lock[z] = v /\ v # w
      BY <3>1, ReleaseFacts
    <3> QED
      BY <3>1, <3>2 DEF LeaveTick, TypeOK
  <2> QED
    BY <2>1, <2>2, <2>3, <2>4
<1>3. \A v \in Replicas, z \in Schedules : SameRuns(v, z) /\ SameView(v, z)
  BY <1>1, <1>2 DEF SameRuns, SameView
<1> QED
  BY <1>3, OrderByPair

\* Every step keeps the order.
LEMMA OrderStep == IInv /\ [Next]_vars => OrderInv'
<1> SUFFICES ASSUME IInv, [Next]_vars PROVE OrderInv'
  OBVIOUS
<1>1. ASSUME NEW w \in Replicas, Exit(w) PROVE OrderInv'
  BY <1>1, OrderForget DEF Exit, tables
<1>2. ASSUME NEW w \in Replicas, Crash(w) PROVE OrderInv'
  BY <1>2, OrderForget DEF Crash, tables
<1>3. CASE UNCHANGED vars
  <2>1. \A v \in Replicas, z \in Schedules : SameRuns(v, z) /\ SameView(v, z)
    BY <1>3 DEF vars, tables, loopVars, mapVars, SameRuns, SameView
  <2> QED
    BY <2>1, OrderByPair DEF IInv
<1> QED
  BY <1>1, <1>2, <1>3, OrderEdit, OrderScan, OrderRetire, OrderLook, OrderCommit, OrderTaskEnds,
     OrderTask, OrderStop, OrderLoop DEF Next, Loop, TaskStep

-----------------------------------------------------------------------------
(***************************************************************************)
(* The theorem                                                             *)
(***************************************************************************)
\* Versions, scans and markers are ordered as they were read in every
\* reachable state.
THEOREM Order == Spec => []IInv
<1>1. Init => IInv
  BY ShapeInit, OrderInit DEF IInv
<1>2. IInv /\ [Next]_vars => IInv'
  BY ShapeStep, OrderStep DEF IInv
<1> QED
  BY <1>1, <1>2, PTL DEF Spec

\* A process starts a schedule again only after somebody edited it
\* (_terminated_at_update), for any number of processes, schedules, edits,
\* crashes, stalls and failing transactions.
THEOREM Respawn == Spec => []RespawnNeedsEdit
<1>1. IInv => RespawnNeedsEdit
  <2> SUFFICES ASSUME IInv, NEW r \in Runs, NEW q \in Runs,
                      r # q, run[r].schedule = run[q].schedule,
                      task[r].host = task[q].host, task[r].host # NoReplica
               PROVE  task[r].version # task[q].version
    BY DEF RespawnNeedsEdit
  <2>1. task[r].host \in Replicas /\ run[r].schedule \in Schedules
    BY DEF IInv, ShapeInv, TypeOK, RowInv
  <2> QED
    BY <2>1 DEF IInv, OrderInv, Ordered, Apart, Started
<1> QED
  BY <1>1, Order, PTL
=============================================================================
