---------------------------- MODULE StreamWorker ----------------------------
(***************************************************************************)
(* The stream worker: processes that host one asyncio task per active      *)
(* stream schedule.  Each process scans the schedules, stops the tasks     *)
(* whose schedule is gone and starts missing ones; the run row of a task   *)
(* is inserted as running and is moved to a verdict by the task itself.    *)
(*                                                                         *)
(* A process is single-threaded: a step is what it does between two        *)
(* awaits, or one database transaction.  When a heartbeat is late enough   *)
(* for the reaper is RunQueue's subject: here the reaper may fail a run    *)
(* exactly when no heartbeat task is beating for it.                       *)
(***************************************************************************)
EXTENDS Integers, FiniteSets

CONSTANTS
  Schedules,   \* stream schedules
  Runs,        \* run ids, bounds the starts
  Replicas,    \* stream worker processes
  NoRun, NoReplica, NoSchedule,
  MaxEdits,    \* bound on edits of a schedule
  MaxFaults    \* bound on crashes, stalls and failing transactions

ASSUME RunsAssumption == Runs \subseteq Nat /\ NoRun \notin Runs
ASSUME NamesAssumption == NoReplica \notin Replicas /\ NoSchedule \notin Schedules
ASSUME BoundsAssumption == MaxEdits \in Nat /\ MaxFaults \in Nat

VARIABLES
  schedule,  \* the schedules table: is_active, and updated_at as a version
  lock,      \* the replica whose open transaction has the schedule locked
  run,       \* the runs table: status and schedule_id
  task,      \* the task of each run: its phase, its process, the updated_at it closed over
  pc,        \* where each process is in run() and _tick()
  seen,      \* updated_at of the active schedules the current tick has yet to deal with
  inflight,  \* _inflight: schedule -> run
  awaited,   \* the cancelled run _stop_schedule waits for
  marker,    \* _terminated_at_update
  stalled,   \* the process is not being scheduled
  faults     \* faults so far

tables == <<schedule, run>>
loopVars == <<pc, seen, awaited>>
mapVars == <<inflight, marker>>
vars == <<tables, lock, task, loopVars, mapVars, stalled, faults>>

-----------------------------------------------------------------------------
NoVersion == -1
Versions == 0..MaxEdits
Statuses == {"none", "running", "succeeded", "failed", "cancelled", "reaped"}
    \* "none": no such row; "reaped": failed by the reaper (ZombieReaped)
Recording == {"rejecting", "succeeding", "failing", "cancelling"}
Over == {"none", "ended", "raised"}
Phases == {"building", "connecting", "streaming", "closing", "crashing"} \cup Recording \cup Over
PcValues == {"idle", "scanned", "inserting", "halting", "down"}

TypeOK ==
  /\ schedule \in [Schedules -> [active : BOOLEAN, version : Versions]]
  /\ lock \in [Schedules -> Replicas \cup {NoReplica}]
  /\ run \in [Runs -> [status : Statuses, schedule : Schedules \cup {NoSchedule}]]
  /\ task \in [Runs -> [phase : Phases, host : Replicas \cup {NoReplica},
                        version : Versions \cup {NoVersion}]]
  /\ pc \in [Replicas -> PcValues]
  /\ seen \in [Replicas -> [Schedules -> Versions \cup {NoVersion}]]
  /\ inflight \in [Replicas -> [Schedules -> Runs \cup {NoRun}]]
  /\ awaited \in [Replicas -> Runs \cup {NoRun}]
  /\ marker \in [Replicas -> [Schedules -> Versions \cup {NoVersion}]]
  /\ stalled \in [Replicas -> BOOLEAN]
  /\ faults \in 0..MaxFaults
  /\ \A w \in Replicas : pc[w] = "inserting" <=> \E s \in Schedules : lock[s] = w

-----------------------------------------------------------------------------
Awake(w) == pc[w] # "down" /\ ~stalled[w]
Live(r) == task[r].phase \notin Over
Hosted(w) == {r \in Runs : task[r].host = w /\ Live(r)}
RunningFor(s) == {r \in Runs : run[r].status = "running" /\ run[r].schedule = s}
Todo(w) == {s \in Schedules : seen[w][s] # NoVersion}

\* While pc is "scanned": the tasks whose schedule the scan did not find.
Gone(w) == {s \in Schedules \ Todo(w) : inflight[w][s] # NoRun}

\* Unused run ids, and whether one is left for one more start (the bound).
Unused == {r \in Runs : run[r].status = "none"}
CanStart == Cardinality(Unused) > Cardinality({s \in Schedules : lock[s] # NoReplica})

\* Mutant of Beating: the heartbeat task outlives the task it belongs to.
Beating_Forever(r) == task[r].host # NoReplica

\* A heartbeat task stamps the row: started after the build, stopped on the way out.
Beating(r) ==
  /\ task[r].phase \in {"connecting", "streaming", "succeeding", "failing", "cancelling"}
  /\ ~stalled[task[r].host]

\* What _record_terminal writes in each of the phases that call it.
Verdict(phase) == CASE phase = "succeeding" -> "succeeded"
                    [] phase = "cancelling" -> "cancelled"
                    [] phase \in {"failing", "rejecting"} -> "failed"

\* Mutant of CancelledPhase: a cancel that meets the clean-up is recorded too.
CancelledPhase_Always(phase) == "cancelling"

\* Where CancelledError takes a task.  Only around arun_stream and the record
\* of its success is it caught and recorded.
CancelledPhase(phase) ==
  CASE phase \in {"streaming", "succeeding"} -> "cancelling"
    [] phase = "crashing" -> "crashing"
    [] OTHER -> "closing"

SetPhase(r, phase) == task' = [task EXCEPT ![r].phase = phase]
Fault == faults < MaxFaults /\ faults' = faults + 1

\* Mutant of Release: the session is left open.
Release_Never(w) == lock' = lock

\* The transaction ends and with it the lock.
Release(w) == lock' = [s \in Schedules |-> IF lock[s] = w THEN NoReplica ELSE lock[s]]

\* The tick is over, at its end or by an exception.
LeaveTick(w) ==
  /\ pc' = [pc EXCEPT ![w] = "idle"]
  /\ seen' = [seen EXCEPT ![w] = [s \in Schedules |-> NoVersion]]

-----------------------------------------------------------------------------
Init ==
  /\ schedule = [s \in Schedules |-> [active |-> TRUE, version |-> 0]]
  /\ lock = [s \in Schedules |-> NoReplica]
  /\ run = [r \in Runs |-> [status |-> "none", schedule |-> NoSchedule]]
  /\ task = [r \in Runs |-> [phase |-> "none", host |-> NoReplica, version |-> NoVersion]]
  /\ pc = [w \in Replicas |-> "idle"]
  /\ seen = [w \in Replicas |-> [s \in Schedules |-> NoVersion]]
  /\ inflight = [w \in Replicas |-> [s \in Schedules |-> NoRun]]
  /\ awaited = [w \in Replicas |-> NoRun]
  /\ marker = [w \in Replicas |-> [s \in Schedules |-> NoVersion]]
  /\ stalled = [w \in Replicas |-> FALSE]
  /\ faults = 0

-----------------------------------------------------------------------------
(***************************************************************************)
(* The schedules API                                                       *)
(***************************************************************************)
\* An update or a toggle of the schedule; the UPDATE waits for the row lock.
Edit(s, active) ==
  /\ lock[s] = NoReplica
  /\ schedule[s].version < MaxEdits
  /\ schedule' = [schedule EXCEPT ![s] = [active |-> active, version |-> @.version + 1]]
  /\ UNCHANGED <<run, lock, task, loopVars, mapVars, stalled, faults>>

-----------------------------------------------------------------------------
(***************************************************************************)
(* The scanner loop: run, _tick, _start_schedule, _stop_schedule           *)
(***************************************************************************)
\* The last tick is over and the loop sleeps.
Resting(w) == pc[w] = "idle" /\ Todo(w) = {} /\ Awake(w)

\* _load_active_stream_schedules
Scan(w) ==
  /\ Resting(w)
  /\ seen' = [seen EXCEPT ![w] =
                [s \in Schedules |-> IF schedule[s].active THEN schedule[s].version ELSE NoVersion]]
  /\ pc' = [pc EXCEPT ![w] = "scanned"]
  /\ UNCHANGED <<tables, lock, task, awaited, mapVars, stalled, faults>>

\* _tick stops the schedules that are gone, a shutdown stops all, one by one.
MayStop(w, s) ==
  /\ Awake(w) /\ awaited[w] = NoRun /\ inflight[w][s] # NoRun
  /\ \/ pc[w] = "scanned" /\ s \in Gone(w)
     \/ pc[w] = "halting"

\* Mutants of StopSchedule: only a halting process stops tasks, and the
\* cancelled task is not waited for.
StopSchedule_AtHalt(w, s, landed) ==
  LET r == inflight[w][s] IN
  /\ MayStop(w, s) /\ pc[w] = "halting"
  /\ inflight' = [inflight EXCEPT ![w][s] = NoRun]
  /\ awaited' = [awaited EXCEPT ![w] = r]
  /\ SetPhase(r, CancelledPhase(task[r].phase))
  /\ UNCHANGED <<tables, lock, pc, seen, marker, stalled, faults>>
StopSchedule_NoWait(w, s, landed) ==
  LET r == inflight[w][s] IN
  /\ MayStop(w, s)
  /\ inflight' = [inflight EXCEPT ![w][s] = NoRun]
  /\ SetPhase(r, CancelledPhase(task[r].phase))
  /\ UNCHANGED <<tables, lock, pc, seen, awaited, marker, stalled, faults>>

\* _stop_schedule: pop, cancel, wait.  A cancel that interrupts the commit of
\* a success finds it landed or not.
StopSchedule(w, s, landed) ==
  LET r == inflight[w][s] IN
  /\ MayStop(w, s)
  /\ landed => task[r].phase = "succeeding"
  /\ inflight' = [inflight EXCEPT ![w][s] = NoRun]
  /\ awaited' = [awaited EXCEPT ![w] = r]
  /\ SetPhase(r, CancelledPhase(task[r].phase))
  /\ run' = IF landed THEN [run EXCEPT ![r].status = "succeeded"] ELSE run
  /\ UNCHANGED <<schedule, lock, pc, seen, marker, stalled, faults>>

\* The cancelled task is over; CancelledError is suppressed.
StopReturns(w) ==
  /\ Awake(w) /\ awaited[w] # NoRun
  /\ task[awaited[w]].phase = "ended"
  /\ awaited' = [awaited EXCEPT ![w] = NoRun]
  /\ UNCHANGED <<tables, lock, task, pc, seen, mapVars, stalled, faults>>

\* It ended with another exception: run() logs it and the tick is over; at a
\* shutdown asyncio.run goes on cancelling what is left.
StopRaises(w) ==
  /\ Awake(w) /\ awaited[w] # NoRun
  /\ task[awaited[w]].phase = "raised"
  /\ awaited' = [awaited EXCEPT ![w] = NoRun]
  /\ IF pc[w] = "scanned" THEN LeaveTick(w) ELSE UNCHANGED <<pc, seen>>
  /\ UNCHANGED <<tables, lock, task, mapVars, stalled, faults>>

\* Nothing is left to stop: forget the markers of schedules that are gone.
RetireMarkers(w) ==
  /\ pc[w] = "scanned" /\ Awake(w)
  /\ awaited[w] = NoRun /\ Gone(w) = {}
  /\ marker' = [marker EXCEPT ![w] =
                  [s \in Schedules |-> IF s \in Todo(w) THEN @[s] ELSE NoVersion]]
  /\ pc' = [pc EXCEPT ![w] = "idle"]
  /\ UNCHANGED <<tables, lock, task, seen, awaited, inflight, stalled, faults>>

\* The schedule has its task here, or its last one ended and nobody edited it.
HeldBack(w, s) == inflight[w][s] # NoRun \/ marker[w][s] = seen[w][s]

\* Nothing to start for s, or the row is locked or inactive by now, or a run
\* of the schedule is running somewhere.
PassOver(w, s) ==
  /\ pc[w] = "idle" /\ Awake(w) /\ s \in Todo(w)
  /\ \/ HeldBack(w, s) \/ ~CanStart
     \/ lock[s] # NoReplica \/ ~schedule[s].active
     \/ RunningFor(s) # {}
  /\ seen' = [seen EXCEPT ![w][s] = NoVersion]
  /\ marker' = IF HeldBack(w, s) THEN marker ELSE [marker EXCEPT ![w][s] = NoVersion]
  /\ UNCHANGED <<tables, lock, task, pc, awaited, inflight, stalled, faults>>

\* Mutant of StartLock: the lock alone, without the look at the running rows.
StartLock_NoRecheck(w, s) ==
  /\ pc[w] = "idle" /\ Awake(w) /\ s \in Todo(w)
  /\ ~HeldBack(w, s) /\ CanStart
  /\ lock[s] = NoReplica /\ schedule[s].active
  /\ lock' = [lock EXCEPT ![s] = w]
  /\ marker' = [marker EXCEPT ![w][s] = NoVersion]
  /\ pc' = [pc EXCEPT ![w] = "inserting"]
  /\ UNCHANGED <<tables, task, seen, awaited, inflight, stalled, faults>>

\* _start_schedule: lock the schedule, SKIP LOCKED, and find it active and
\* without a running row.
StartLock(w, s) ==
  /\ pc[w] = "idle" /\ Awake(w) /\ s \in Todo(w)
  /\ ~HeldBack(w, s) /\ CanStart
  /\ lock[s] = NoReplica /\ schedule[s].active
  /\ RunningFor(s) = {}
  /\ lock' = [lock EXCEPT ![s] = w]
  /\ marker' = [marker EXCEPT ![w][s] = NoVersion]
  /\ pc' = [pc EXCEPT ![w] = "inserting"]
  /\ UNCHANGED <<tables, task, seen, awaited, inflight, stalled, faults>>

\* ... insert the run as running, commit, spawn its task.  updated_at is the
\* one the scan read.
StartCommit(w, s, r) ==
  /\ pc[w] = "inserting" /\ Awake(w) /\ lock[s] = w
  /\ r \in Unused /\ \A q \in Unused : r <= q
  /\ run' = [run EXCEPT ![r] = [status |-> "running", schedule |-> s]]
  /\ task' = [task EXCEPT ![r] = [phase |-> "building", host |-> w, version |-> seen[w][s]]]
  /\ inflight' = [inflight EXCEPT ![w][s] = r]
  /\ seen' = [seen EXCEPT ![w][s] = NoVersion]
  /\ Release(w)
  /\ pc' = [pc EXCEPT ![w] = "idle"]
  /\ UNCHANGED <<schedule, awaited, marker, stalled, faults>>

\* The insert raises: rollback, the tick is over.
StartRaises(w) ==
  /\ pc[w] = "inserting" /\ Awake(w)
  /\ Fault
  /\ Release(w) /\ LeaveTick(w)
  /\ UNCHANGED <<tables, task, awaited, mapVars, stalled>>

\* stop(): after the current tick, _shutdown_inflight.
Halt(w) ==
  /\ Resting(w)
  /\ pc' = [pc EXCEPT ![w] = "halting"]
  /\ UNCHANGED <<tables, lock, task, seen, awaited, mapVars, stalled, faults>>

\* Every task has been stopped: the process returns, its maps are gone.
Forget(w) ==
  /\ pc' = [pc EXCEPT ![w] = "down"]
  /\ seen' = [seen EXCEPT ![w] = [s \in Schedules |-> NoVersion]]
  /\ inflight' = [inflight EXCEPT ![w] = [s \in Schedules |-> NoRun]]
  /\ awaited' = [awaited EXCEPT ![w] = NoRun]
  /\ marker' = [marker EXCEPT ![w] = [s \in Schedules |-> NoVersion]]
  /\ stalled' = [stalled EXCEPT ![w] = FALSE]
  /\ task' = [r \in Runs |->
                IF task[r].host # w THEN task[r]
                ELSE [task[r] EXCEPT !.host = NoReplica,
                                     !.phase = IF Live(r) THEN "ended" ELSE @]]

Exit(w) ==
  /\ pc[w] = "halting" /\ Awake(w)
  /\ awaited[w] = NoRun /\ \A s \in Schedules : inflight[w][s] = NoRun
  /\ Forget(w)
  /\ UNCHANGED <<tables, lock, faults>>

\* The process dies; its open transaction is rolled back.
Crash(w) ==
  /\ pc[w] # "down"
  /\ Fault
  /\ Forget(w) /\ Release(w)
  /\ UNCHANGED tables

Restart(w) ==
  /\ pc[w] = "down"
  /\ pc' = [pc EXCEPT ![w] = "idle"]
  /\ UNCHANGED <<tables, lock, task, seen, awaited, mapVars, stalled, faults>>

\* The process stops being scheduled, and goes on later.
Stall(w) ==
  /\ Awake(w)
  /\ Fault
  /\ stalled' = [stalled EXCEPT ![w] = TRUE]
  /\ UNCHANGED <<tables, lock, task, loopVars, mapVars>>

Resume(w) ==
  /\ stalled[w]
  /\ stalled' = [stalled EXCEPT ![w] = FALSE]
  /\ UNCHANGED <<tables, lock, task, loopVars, mapVars, faults>>

-----------------------------------------------------------------------------
(***************************************************************************)
(* A stream's task: _drive_stream, _build_or_fail, _record_terminal        *)
(***************************************************************************)
\* The task moves from one phase to another and touches nothing else.
Advance(r, from, to) ==
  /\ task[r].phase = from /\ Awake(task[r].host)
  /\ SetPhase(r, to)
  /\ UNCHANGED <<tables, lock, loopVars, mapVars, stalled>>

BuildOk(r) == Advance(r, "building", "connecting") /\ UNCHANGED faults
BuildRejected(r) == Advance(r, "building", "rejecting") /\ UNCHANGED faults
Connected(r) == Advance(r, "connecting", "streaming") /\ UNCHANGED faults
Exhausted(r) == Advance(r, "streaming", "succeeding") /\ UNCHANGED faults
StreamRaises(r) == Advance(r, "streaming", "failing") /\ UNCHANGED faults

\* A query of the build raises, or a connector does not connect: neither is
\* inside the try that records.
BuildRaises(r) == Advance(r, "building", "crashing") /\ Fault
ConnectRaises(r) == Advance(r, "connecting", "crashing") /\ UNCHANGED faults

\* The transaction of _record_terminal raises.  Recording a success stands
\* inside the try: the exception is recorded as a failure.
RecordRaises(r) ==
  /\ \/ Advance(r, "succeeding", "failing")
     \/ \E phase \in Recording \ {"succeeding"} : Advance(r, phase, "crashing")
  /\ Fault

\* _record_terminal: whatever the row says by now.
Recorded(r) ==
  /\ task[r].phase \in Recording /\ Awake(task[r].host)
  /\ run' = [run EXCEPT ![r].status = Verdict(task[r].phase)]
  /\ SetPhase(r, "closing")
  /\ UNCHANGED <<schedule, lock, loopVars, mapVars, stalled, faults>>

\* Mutant of TaskEnds: the done callback leaves no marker.
TaskEnds_NoMarker(r) ==
  LET w == task[r].host  s == run[r].schedule IN
  /\ task[r].phase \in {"closing", "crashing"} /\ Awake(w)
  /\ SetPhase(r, IF task[r].phase = "closing" THEN "ended" ELSE "raised")
  /\ inflight' = [inflight EXCEPT ![w][s] = NoRun]
  /\ UNCHANGED <<tables, lock, loopVars, marker, stalled, faults>>

\* Connectors closed, heartbeat stopped, recorder flushed; then _on_done.
TaskEnds(r) ==
  LET w == task[r].host  s == run[r].schedule IN
  /\ task[r].phase \in {"closing", "crashing"} /\ Awake(w)
  /\ SetPhase(r, IF task[r].phase = "closing" THEN "ended" ELSE "raised")
  /\ inflight' = [inflight EXCEPT ![w][s] = NoRun]
  /\ marker' = [marker EXCEPT ![w][s] = task[r].version]
  /\ UNCHANGED <<tables, lock, loopVars, stalled, faults>>

\* The reaper fails a running row nobody beats for.
Reap(r) ==
  /\ run[r].status = "running" /\ ~Beating(r)
  /\ run' = [run EXCEPT ![r].status = "reaped"]
  /\ UNCHANGED <<schedule, lock, task, loopVars, mapVars, stalled, faults>>

-----------------------------------------------------------------------------
Loop(w) ==
  \/ Scan(w) \/ RetireMarkers(w) \/ Exit(w)
  \/ StopReturns(w) \/ StopRaises(w)
  \/ \E s \in Schedules :
       \/ StopSchedule(w, s, FALSE) \/ PassOver(w, s) \/ StartLock(w, s)
       \/ \E r \in Runs : StartCommit(w, s, r)

\* Steps a task comes to by itself, and those the stream decides about.
TaskStep(r) == Recorded(r) \/ TaskEnds(r)
StreamStep(r) ==
  \/ BuildOk(r) \/ BuildRejected(r) \/ BuildRaises(r)
  \/ Connected(r) \/ ConnectRaises(r)
  \/ Exhausted(r) \/ StreamRaises(r) \/ RecordRaises(r)

Next ==
  \/ \E s \in Schedules, active \in BOOLEAN : Edit(s, active)
  \/ \E w \in Replicas :
       \/ Loop(w) \/ StartRaises(w)
       \/ \E s \in Schedules : StopSchedule(w, s, TRUE)
       \/ Halt(w) \/ Crash(w) \/ Restart(w) \/ Stall(w) \/ Resume(w)
  \/ \E r \in Runs : TaskStep(r) \/ StreamStep(r) \/ Reap(r)

Spec == Init /\ [][Next]_vars

\* A process that is up keeps looping, its tasks get their turn, stalls end
\* and the reaper scans.  Nothing is assumed of builds, connectors, streams,
\* edits, restarts or faults.
Fairness ==
  /\ \A w \in Replicas : WF_vars(Loop(w))
  /\ \A r \in Runs : WF_vars(TaskStep(r))
  /\ \A r \in Runs : WF_vars(Reap(r))
  /\ \A w \in Replicas : WF_vars(Resume(w))

FairSpec == Spec /\ Fairness

-----------------------------------------------------------------------------
(***************************************************************************)
(* Properties                                                              *)
(***************************************************************************)
\* However many processes scan at once, a schedule has at most one running
\* row: the lock, its SKIP LOCKED and the look at the running rows under it.
\* Two streams of one schedule are live only when one has lost its row.
OneRunningPerSchedule ==
  \A r, q \in Runs :
    run[r].status = "running" /\ run[q].status = "running" /\ r # q =>
      run[r].schedule # run[q].schedule

\* A process never loses sight of a task it hosts: it is in _inflight under
\* its schedule or being waited for, so that a stop reaches it.
TasksAreTracked ==
  \A w \in Replicas : \A r \in Hosted(w) :
    inflight[w][run[r].schedule] = r \/ awaited[w] = r

\* A process starts a schedule again only after somebody edited it: no run
\* row per tick for a pipeline that fails at once.
RespawnNeedsEdit ==
  \A r, q \in Runs :
    /\ r # q /\ run[r].schedule = run[q].schedule
    /\ task[r].host = task[q].host /\ task[r].host # NoReplica
    => task[r].version # task[q].version

\* A verdict stands.  Only the reaper's is replaced, by the task that went on
\* after all, and a success by the cancel that interrupted its commit.
VerdictStands ==
  [][\A r \in Runs : run[r].status # run'[r].status =>
       \/ run[r].status \in {"none", "running", "reaped"}
       \/ run[r].status = "succeeded" /\ run'[r].status = "cancelled"]_vars

\* A running row whose task is over does not stay running.
GhostIsReaped ==
  \A r \in Runs : (run[r].status = "running" /\ ~Live(r)) ~> run[r].status # "running"

\* A stream whose schedule is inactive is stopped, unless the schedule is
\* activated again in time; a task that never gets past its build is too.
InactiveIsStopped ==
  \A r \in Runs : LET On == run[r].schedule \in Schedules /\ schedule[run[r].schedule].active
                 IN (Live(r) /\ ~On) ~> (~Live(r) \/ On)

\* What run()'s docstring says and the code does not do: "On exit, every
\* in-flight stream is cancelled and awaited so its Run row reaches a terminal
\* state before the process returns."  A process that has stopped every task
\* and is about to return has left no running row behind.
ExitLeavesNoRunningRow ==
  \A w \in Replicas, r \in Runs :
    pc[w] = "halting" /\ task[r].host = w /\ task[r].phase = "ended" =>
      run[r].status # "running"
=============================================================================
