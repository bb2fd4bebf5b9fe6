------------------------------ MODULE RunQueue ------------------------------
(***************************************************************************)
(* The run queue of anyduct-server: the `runs` table is the queue, worker  *)
(* processes claim rows with FOR UPDATE SKIP LOCKED and execute them under *)
(* a heartbeat, a reaper fails rows whose heartbeat stopped, and the REST  *)
(* API enqueues, cancels and retries runs concurrently with all of that.   *)
(*                                                                         *)
(* A step is one database transaction or one part of it between two        *)
(* awaits.  Row locks are explicit where a transaction keeps one across    *)
(* steps: the claim, and the executor's session once a flush has emitted   *)
(* its UPDATE of the run row.                                              *)
(***************************************************************************)
EXTENDS Integers, FiniteSets

CONSTANTS
  Runs,        \* run ids, ordered as ORDER BY scheduled_at, created_at orders the rows
  Workers,     \* RunWorker processes
  Calls,       \* concurrent API requests that read a run before they write
  NoRun,       \* "no run"
  NoWorker,    \* "no worker"
  NodeLevel,   \* runs of pipelines the node-level graph executor runs
  EarlyFlush,  \* <<run, outcome>>: recording this outcome flushes the session
               \* while the heartbeat is still on (lineage, task node_runs)
  Triggering,  \* runs of pipelines that have downstream pipelines
  Interval,    \* heartbeat interval, in ticks
  ReapAfter,   \* heartbeat age at which the reaper fails a run, in ticks
  BatchLimit,  \* rows one reaper scan takes
  MaxFaults    \* bound on crashes, stalls and failing statements

ASSUME RunsAssumption == Runs \subseteq Nat /\ NoRun \notin Runs
ASSUME WorkersAssumption == NoWorker \notin Workers
ASSUME KindsAssumption == NodeLevel \subseteq Runs /\ Triggering \subseteq Runs
ASSUME EarlyFlushAssumption == EarlyFlush \subseteq Runs \X {"succeeded", "failed"}
ASSUME TimingAssumption ==
  /\ Interval \in Nat /\ ReapAfter \in Nat
  /\ 0 < Interval /\ Interval < ReapAfter
ASSUME BoundsAssumption == BatchLimit \in Nat \ {0} /\ MaxFaults \in Nat

VARIABLES
  run,         \* the runs table, one record per row
  lock,        \* lock[r]: the worker whose open transaction has row r locked
  pc,          \* pc[w]: where worker w is in its poll loop and executor
  held,        \* held[w]: the run worker w is claiming or executing
  outcome,     \* outcome[w]: what w's session will write to the row
  poisoned,    \* poisoned[w]: w's session can no longer commit
  hb,          \* hb[w]: w's heartbeat task
  timer,       \* timer[w]: ticks since the heartbeat task started to sleep
  cancelSeen,  \* cancelSeen[w]: the executor's cancel_event
  steady,      \* steady[w]: history: no beat missed since the first one landed
  stalled,     \* stalled[w]: the process is not being scheduled
  call,        \* call[c]: what API request c has read
  faults       \* faults so far

queueVars == <<run, lock>>
sessionVars == <<held, outcome, poisoned>>
beatVars  == <<hb, timer, cancelSeen, steady>>
vars == <<run, lock, pc, held, outcome, poisoned, hb, timer, cancelSeen,
          steady, stalled, call, faults>>

-----------------------------------------------------------------------------
(***************************************************************************)
(* Types                                                                   *)
(***************************************************************************)
Terminal == {"succeeded", "failed", "cancelled"}
Status == {"none", "pending", "running"} \cup Terminal   \* "none": no such row
Cancellable == {"pending", "running"}
Retryable_Running == {"running", "failed", "cancelled"}   \* mutant of Retryable
Retryable == {"failed", "cancelled"}

Row == [status : Status,
        worker : Workers \cup {NoWorker},
        cancel : BOOLEAN,                          \* cancel_requested_at is set
        error : {"none", "reaped", "pipeline"},    \* error_class
        age : 0..ReapAfter,                        \* now() - heartbeat_at, saturating
        retryOf : Runs \cup {NoRun},               \* result_json.retry_of
        downstream : Nat]                          \* times its downstream runs were enqueued

\* A row with its column defaults, and the absence of a row.
BlankRow(status, original) ==
  [status |-> status, worker |-> NoWorker, cancel |-> FALSE, error |-> "none",
   age |-> 0, retryOf |-> original, downstream |-> 0]
NoRow == BlankRow("none", NoRun)

PcValues == {"down", "idle", "claiming", "claimed", "building", "running",
             "recording", "flushed", "committing"}
Outcomes == {"none"} \cup Terminal
Beats == {"off", "sleeping", "blocked"}
CallOps == {"none", "cancel", "retry"}
NoCall == [op |-> "none", run |-> NoRun, seen |-> "none"]

TypeOK ==
  /\ run \in [Runs -> Row]
  /\ lock \in [Runs -> Workers \cup {NoWorker}]
  /\ pc \in [Workers -> PcValues]
  /\ held \in [Workers -> Runs \cup {NoRun}]
  /\ outcome \in [Workers -> Outcomes]
  /\ poisoned \in [Workers -> BOOLEAN]
  /\ hb \in [Workers -> Beats]
  /\ timer \in [Workers -> 0..Interval]
  /\ cancelSeen \in [Workers -> BOOLEAN]
  /\ steady \in [Workers -> BOOLEAN]
  /\ stalled \in [Workers -> BOOLEAN]
  /\ call \in [Calls -> [op : CallOps, run : Runs \cup {NoRun}, seen : Status]]
  /\ faults \in 0..MaxFaults
  /\ \A w \in Workers : pc[w] \in {"down", "idle"} <=> held[w] = NoRun

-----------------------------------------------------------------------------
(***************************************************************************)
(* Helpers                                                                 *)
(***************************************************************************)
\* The worker is between claim_pending_run's commit and the end of execute().
Executing(w) == pc[w] \in {"claimed", "building", "running", "recording",
                           "flushed", "committing"}

Unlocked(r) == lock[r] = NoWorker

\* Recording w's outcome flushes its session before the heartbeat is stopped.
FlushesEarly(w) == <<held[w], outcome[w]>> \in EarlyFlush /\ ~poisoned[w]

\* A fresh pending row, as Run(...) builds it.
PendingRow(original) == BlankRow("pending", original)

\* What a cancel request writes to a row whose status it read as seen.
CancelledRow(row, seen) ==
  [row EXCEPT !.cancel = TRUE, !.status = IF seen = "pending" THEN "cancelled" ELSE @]

\* What a claim by w writes.
ClaimedRow(row, w) == [row EXCEPT !.status = "running", !.worker = w, !.age = 0]

\* What a heartbeat writes, and what a tick does to a row that is waiting for one.
StampedRow(row) == [row EXCEPT !.age = 0]
AgedRow(row) == [row EXCEPT !.age = @ + 1]

\* What _record_success, _record_failure and _record_cancelled write; the same
\* transaction enqueues the downstream runs of a success.
Triggered(r, o) == IF o = "succeeded" /\ r \in Triggering THEN 1 ELSE 0
ErrorOf(row, o) == IF o = "failed" THEN "pipeline" ELSE row.error
RecordedRow(row, o, triggered) ==
  [row EXCEPT !.status = o, !.age = 0,
              !.error = ErrorOf(row, o),
              !.downstream = @ + triggered]

\* Mutant of ReapedRow: the zombie goes back to the queue.
ReapedRow_Requeued(row) == [row EXCEPT !.status = "pending"]

\* What the reaper writes to a stale row.
ReapedRow(row) == [row EXCEPT !.status = "failed", !.error = "reaped"]

\* Mutant of Claimable: a plain SELECT without FOR UPDATE.
Claimable_NoRowLock == {r \in Runs : run[r].status = "pending"}

\* The rows claim_pending_run's SELECT ... SKIP LOCKED can return.
Claimable == {r \in Runs : run[r].status = "pending" /\ Unlocked(r)}

\* Mutants of Stale: the threshold is one heartbeat interval, and rows with a
\* pending cancel request are left to their worker.
Stale_OneInterval == {r \in Runs : /\ run[r].status = "running"
                                   /\ run[r].age >= Interval
                                   /\ Unlocked(r)}
Stale_NoCancel == {r \in Runs : /\ run[r].status = "running" /\ ~run[r].cancel
                                /\ run[r].age = ReapAfter
                                /\ Unlocked(r)}

\* The rows reap_once's SELECT ... SKIP LOCKED can return.
Stale == {r \in Runs : /\ run[r].status = "running"
                       /\ run[r].age = ReapAfter
                       /\ Unlocked(r)}

\* Mutant of Forget: the worker object keeps its run.
Forget_KeepsRun(w) ==
  /\ outcome' = [outcome EXCEPT ![w] = "none"]
  /\ poisoned' = [poisoned EXCEPT ![w] = FALSE]
  /\ hb' = [hb EXCEPT ![w] = "off"]
  /\ timer' = [timer EXCEPT ![w] = 0]
  /\ cancelSeen' = [cancelSeen EXCEPT ![w] = FALSE]
  /\ UNCHANGED <<held, steady>>

\* The worker leaves execute() (or loses its session): nothing of it is left.
Forget(w) ==
  /\ held' = [held EXCEPT ![w] = NoRun]
  /\ outcome' = [outcome EXCEPT ![w] = "none"]
  /\ poisoned' = [poisoned EXCEPT ![w] = FALSE]
  /\ hb' = [hb EXCEPT ![w] = "off"]
  /\ timer' = [timer EXCEPT ![w] = 0]
  /\ cancelSeen' = [cancelSeen EXCEPT ![w] = FALSE]
  /\ steady' = [steady EXCEPT ![w] = FALSE]

\* The worker's open transaction ends and with it the row locks it holds.
Release(w) == lock' = [r \in Runs |-> IF lock[r] = w THEN NoWorker ELSE lock[r]]

Fault == faults < MaxFaults /\ faults' = faults + 1

-----------------------------------------------------------------------------
Init ==
  /\ run = [r \in Runs |-> NoRow]
  /\ lock = [r \in Runs |-> NoWorker]
  /\ pc = [w \in Workers |-> "idle"]
  /\ held = [w \in Workers |-> NoRun]
  /\ outcome = [w \in Workers |-> "none"]
  /\ poisoned = [w \in Workers |-> FALSE]
  /\ hb = [w \in Workers |-> "off"]
  /\ timer = [w \in Workers |-> 0]
  /\ cancelSeen = [w \in Workers |-> FALSE]
  /\ steady = [w \in Workers |-> FALSE]
  /\ stalled = [w \in Workers |-> FALSE]
  /\ call = [c \in Calls |-> NoCall]
  /\ faults = 0

-----------------------------------------------------------------------------
(***************************************************************************)
(* The API                                                                 *)
(***************************************************************************)
\* add_manual, the scheduler's and the sensors' enqueue: one INSERT.
Enqueue(r) ==
  /\ run[r].status = "none"
  /\ run' = [run EXCEPT ![r] = PendingRow(NoRun)]
  /\ UNCHANGED <<lock, pc, sessionVars, beatVars, stalled, call, faults>>

\* A cancel request reads its row and finds it cancellable.
BeginCancel(c, r) ==
  /\ call[c].op = "none"
  /\ run[r].status \in Cancellable
  /\ call' = [call EXCEPT ![c] = [op |-> "cancel", run |-> r, seen |-> run[r].status]]
  /\ UNCHANGED <<queueVars, pc, sessionVars, beatVars, stalled, faults>>

\* Mutant of CommitCancel: the write goes past a claim that is under way.
CommitCancel_NoWait(c) ==
  /\ call[c].op = "cancel"
  /\ run' = [run EXCEPT ![call[c].run] = CancelledRow(@, call[c].seen)]
  /\ call' = [call EXCEPT ![c] = NoCall]
  /\ UNCHANGED <<lock, pc, sessionVars, beatVars, stalled, faults>>

\* ... then updates it BY ID: cancel_requested_at, and status too when the
\* status it READ was pending.  The UPDATE waits for the row lock.
CommitCancel(c) ==
  /\ call[c].op = "cancel"
  /\ Unlocked(call[c].run)
  /\ run' = [run EXCEPT ![call[c].run] = CancelledRow(@, call[c].seen)]
  /\ call' = [call EXCEPT ![c] = NoCall]
  /\ UNCHANGED <<lock, pc, sessionVars, beatVars, stalled, faults>>

\* A retry request reads its original and finds it failed or cancelled.
BeginRetry(c, r) ==
  /\ call[c].op = "none"
  /\ run[r].status \in Retryable
  /\ call' = [call EXCEPT ![c] = [op |-> "retry", run |-> r, seen |-> run[r].status]]
  /\ UNCHANGED <<queueVars, pc, sessionVars, beatVars, stalled, faults>>

\* ... then inserts the clone as a new pending row n.
CommitRetry(c, n) ==
  /\ call[c].op = "retry"
  /\ run[n].status = "none"
  /\ run' = [run EXCEPT ![n] = PendingRow(call[c].run)]
  /\ call' = [call EXCEPT ![c] = NoCall]
  /\ UNCHANGED <<lock, pc, sessionVars, beatVars, stalled, faults>>

\* The client disconnects or the API process dies before the write.
AbortCall(c) ==
  /\ call[c].op # "none"
  /\ call' = [call EXCEPT ![c] = NoCall]
  /\ UNCHANGED <<queueVars, pc, sessionVars, beatVars, stalled, faults>>

-----------------------------------------------------------------------------
(***************************************************************************)
(* The worker: claim                                                       *)
(***************************************************************************)
\* SELECT the oldest pending row nobody has locked, FOR UPDATE.
ClaimLock(w, r) ==
  /\ pc[w] = "idle" /\ ~stalled[w]
  /\ r \in Claimable /\ \A q \in Claimable : r <= q
  /\ lock' = [lock EXCEPT ![r] = w]
  /\ pc' = [pc EXCEPT ![w] = "claiming"]
  /\ held' = [held EXCEPT ![w] = r]
  /\ UNCHANGED <<run, outcome, poisoned, beatVars, stalled, call, faults>>

\* UPDATE to running, stamp worker and heartbeat, commit.
ClaimCommit(w) ==
  /\ pc[w] = "claiming" /\ ~stalled[w]
  /\ run' = [run EXCEPT ![held[w]] = ClaimedRow(@, w)]
  /\ Release(w)
  /\ pc' = [pc EXCEPT ![w] = "claimed"]
  /\ UNCHANGED <<sessionVars, beatVars, stalled, call, faults>>

\* The claim's flush or commit raises: rollback, the row stays pending.
ClaimFails(w) ==
  /\ pc[w] = "claiming" /\ ~stalled[w]
  /\ Fault
  /\ Release(w)
  /\ pc' = [pc EXCEPT ![w] = "idle"]
  /\ held' = [held EXCEPT ![w] = NoRun]
  /\ UNCHANGED <<run, outcome, poisoned, beatVars, stalled, call>>

-----------------------------------------------------------------------------
(***************************************************************************)
(* The worker: RunExecutor.execute                                         *)
(***************************************************************************)
\* Load the row, pipeline and version; the status is not looked at again.
StartExecute(w) ==
  /\ pc[w] = "claimed" /\ ~stalled[w]
  /\ pc' = [pc EXCEPT ![w] = "building"]
  /\ UNCHANGED <<queueVars, sessionVars, beatVars, stalled, call, faults>>

\* Loading or _prepare raises something other than a build error: the
\* exception leaves execute(), RunWorker.run logs it and polls on.
ExecuteRaises(w) ==
  /\ pc[w] \in {"claimed", "building"} /\ ~stalled[w]
  /\ Fault
  /\ pc' = [pc EXCEPT ![w] = "idle"]
  /\ Forget(w)
  /\ UNCHANGED <<queueVars, stalled, call>>

\* _prepare raises _PipelineBuildError: record the failure and commit.
BuildFails(w) ==
  /\ pc[w] = "building" /\ ~stalled[w]
  /\ outcome' = [outcome EXCEPT ![w] = "failed"]
  /\ pc' = [pc EXCEPT ![w] = "committing"]
  /\ UNCHANGED <<queueVars, held, poisoned, beatVars, stalled, call, faults>>

\* The runner is built: start the heartbeat task, which sleeps first.
BuildOk(w) ==
  /\ pc[w] = "building" /\ ~stalled[w]
  /\ hb' = [hb EXCEPT ![w] = "sleeping"]
  /\ timer' = [timer EXCEPT ![w] = 0]
  /\ pc' = [pc EXCEPT ![w] = "running"]
  /\ UNCHANGED <<queueVars, sessionVars, cancelSeen, steady, stalled, call, faults>>

\* The pipeline returns or raises.  Only a node-level run looks at the
\* cancel event; when it is set and no node failed the run is cancelled,
\* whatever the nodes did.
PipelineDone(w, o) ==
  /\ pc[w] = "running" /\ ~stalled[w]
  /\ o \in IF held[w] \in NodeLevel /\ cancelSeen[w]
             THEN {"cancelled", "failed"}
             ELSE {"succeeded", "failed"}
  /\ outcome' = [outcome EXCEPT ![w] = o]
  /\ pc' = [pc EXCEPT ![w] = "recording"]
  /\ UNCHANGED <<queueVars, held, poisoned, beatVars, stalled, call, faults>>

\* Lineage or task node_runs are flushed in the session whose run object is
\* already dirty: the flush emits UPDATE runs and keeps the row lock.
FlushRow(w) ==
  /\ pc[w] = "recording" /\ ~stalled[w]
  /\ FlushesEarly(w)
  /\ Unlocked(held[w])
  /\ lock' = [lock EXCEPT ![held[w]] = w]
  /\ pc' = [pc EXCEPT ![w] = "flushed"]
  /\ UNCHANGED <<run, sessionVars, beatVars, stalled, call, faults>>

\* That flush (or a statement beside it) raises.  The exception is logged,
\* but the session's transaction is gone: nothing can be committed any more.
FlushFails(w) ==
  /\ pc[w] \in {"recording", "flushed"} /\ ~stalled[w]
  /\ FlushesEarly(w)
  /\ Fault
  /\ poisoned' = [poisoned EXCEPT ![w] = TRUE]
  /\ Release(w)
  /\ pc' = [pc EXCEPT ![w] = "recording"]
  /\ UNCHANGED <<run, held, outcome, beatVars, stalled, call>>

\* finally: heartbeat_stop.set(); await heartbeat_task.  A beat that waits
\* for the row lock does not see the event.
StopHeartbeat(w) ==
  /\ pc[w] \in {"recording", "flushed"} /\ ~stalled[w]
  /\ pc[w] = "recording" => ~FlushesEarly(w)
  /\ hb[w] = "sleeping"
  /\ hb' = [hb EXCEPT ![w] = "off"]
  /\ timer' = [timer EXCEPT ![w] = 0]
  /\ steady' = [steady EXCEPT ![w] = FALSE]
  /\ pc' = [pc EXCEPT ![w] = "committing"]
  /\ UNCHANGED <<queueVars, sessionVars, cancelSeen, stalled, call, faults>>

\* The final commit: status, error and the downstream runs in one
\* transaction, UPDATE ... WHERE id, whatever the row says by now.
CommitOutcome(w) ==
  LET r == held[w]
      o == outcome[w]
  IN
  /\ pc[w] = "committing" /\ ~stalled[w]
  /\ ~poisoned[w]
  /\ lock[r] \in {NoWorker, w}
  /\ run' = [run EXCEPT ![r] = RecordedRow(@, o, Triggered(r, o))]
  /\ Release(w)
  /\ Forget(w)
  /\ pc' = [pc EXCEPT ![w] = "idle"]
  /\ UNCHANGED <<stalled, call, faults>>

\* The session cannot commit (poisoned): the exception leaves execute().
CommitLost(w) ==
  /\ pc[w] = "committing" /\ ~stalled[w]
  /\ poisoned[w]
  /\ Release(w)
  /\ Forget(w)
  /\ pc' = [pc EXCEPT ![w] = "idle"]
  /\ UNCHANGED <<run, stalled, call, faults>>

\* The database refuses the final commit: rolled back, logged, poll on.
CommitFails(w) ==
  /\ pc[w] = "committing" /\ ~stalled[w] /\ ~poisoned[w]
  /\ Fault
  /\ Release(w)
  /\ Forget(w)
  /\ pc' = [pc EXCEPT ![w] = "idle"]
  /\ UNCHANGED <<run, stalled, call>>

-----------------------------------------------------------------------------
(***************************************************************************)
(* Heartbeat, reaper, time                                                 *)
(***************************************************************************)
\* The interval is over and the row is free: UPDATE heartbeat_at by id, read
\* cancel_requested_at, commit.
Heartbeat(w) ==
  /\ ~stalled[w]
  /\ \/ hb[w] = "sleeping" /\ timer[w] = Interval
     \/ hb[w] = "blocked"
  /\ Unlocked(held[w])
  /\ run' = [run EXCEPT ![held[w]] = StampedRow(@)]
  /\ cancelSeen' = [cancelSeen EXCEPT ![w] = @ \/ run[held[w]].cancel]
  /\ hb' = [hb EXCEPT ![w] = "sleeping"]
  /\ timer' = [timer EXCEPT ![w] = 0]
  /\ steady' = [steady EXCEPT ![w] = TRUE]
  /\ UNCHANGED <<lock, pc, sessionVars, stalled, call, faults>>

\* The interval is over and the row is locked: the UPDATE waits, without a
\* timeout.
HeartbeatBlocks(w) ==
  /\ ~stalled[w]
  /\ hb[w] = "sleeping" /\ timer[w] = Interval
  /\ ~Unlocked(held[w])
  /\ hb' = [hb EXCEPT ![w] = "blocked"]
  /\ UNCHANGED <<queueVars, pc, sessionVars, timer, cancelSeen, steady, stalled, call, faults>>

\* Mutant of HeartbeatFails: the exception ends the loop.
HeartbeatFails_EndsLoop(w) ==
  /\ ~stalled[w]
  /\ hb[w] = "sleeping" /\ timer[w] = Interval
  /\ Fault
  /\ hb' = [hb EXCEPT ![w] = "off"]
  /\ timer' = [timer EXCEPT ![w] = 0]
  /\ steady' = [steady EXCEPT ![w] = FALSE]
  /\ UNCHANGED <<queueVars, pc, sessionVars, cancelSeen, stalled, call>>

\* The beat raises: logged and swallowed, the loop sleeps again.
HeartbeatFails(w) ==
  /\ ~stalled[w]
  /\ hb[w] = "sleeping" /\ timer[w] = Interval
  /\ Fault
  /\ timer' = [timer EXCEPT ![w] = 0]
  /\ steady' = [steady EXCEPT ![w] = FALSE]
  /\ UNCHANGED <<queueVars, pc, sessionVars, hb, cancelSeen, stalled, call>>

\* reap_once: fail up to BatchLimit stale rows nobody has locked.
Reap(Z) ==
  /\ Z # {} /\ Z \subseteq Stale
  /\ Cardinality(Z) <= BatchLimit
  /\ Cardinality(Z) < BatchLimit => Z = Stale
  /\ run' = [r \in Runs |-> IF r \in Z THEN ReapedRow(run[r]) ELSE run[r]]
  /\ UNCHANGED <<lock, pc, sessionVars, beatVars, stalled, call, faults>>

\* A sleeping heartbeat task that is scheduled promptly and due.
Due(w) == hb[w] = "sleeping" /\ timer[w] = Interval /\ ~stalled[w]

\* Time passes.  A healthy event loop runs a due beat before the next tick;
\* a stalled process lets any number of ticks go by.
Tick ==
  /\ \A w \in Workers : ~Due(w)
  /\ run' = [r \in Runs |-> IF run[r].status = "running" /\ run[r].age < ReapAfter
                              THEN AgedRow(run[r]) ELSE run[r]]
  /\ timer' = [w \in Workers |-> IF hb[w] = "sleeping" /\ timer[w] < Interval
                                   THEN timer[w] + 1 ELSE timer[w]]
  /\ UNCHANGED <<lock, pc, sessionVars, hb, cancelSeen, steady, stalled, call, faults>>

-----------------------------------------------------------------------------
(***************************************************************************)
(* Process faults                                                          *)
(***************************************************************************)
\* The process dies; the database rolls its open transaction back.
Crash(w) ==
  /\ pc[w] # "down"
  /\ Fault
  /\ pc' = [pc EXCEPT ![w] = "down"]
  /\ stalled' = [stalled EXCEPT ![w] = FALSE]
  /\ Release(w)
  /\ Forget(w)
  /\ UNCHANGED <<run, call>>

\* A new process with the same worker id starts polling.
Restart(w) ==
  /\ pc[w] = "down"
  /\ pc' = [pc EXCEPT ![w] = "idle"]
  /\ UNCHANGED <<queueVars, sessionVars, beatVars, stalled, call, faults>>

\* The process stops being scheduled (frozen VM, starved loop, partition) ...
Stall(w) ==
  /\ pc[w] # "down" /\ ~stalled[w]
  /\ Fault
  /\ stalled' = [stalled EXCEPT ![w] = TRUE]
  /\ steady' = [steady EXCEPT ![w] = FALSE]
  /\ UNCHANGED <<queueVars, pc, sessionVars, hb, timer, cancelSeen, call>>

\* ... and continues where it was.
Resume(w) ==
  /\ stalled[w]
  /\ stalled' = [stalled EXCEPT ![w] = FALSE]
  /\ UNCHANGED <<queueVars, pc, sessionVars, beatVars, call, faults>>

-----------------------------------------------------------------------------
ApiStep ==
  \/ \E r \in Runs : Enqueue(r)
  \/ \E c \in Calls, r \in Runs : BeginCancel(c, r) \/ BeginRetry(c, r) \/ CommitRetry(c, r)
  \/ \E c \in Calls : CommitCancel(c) \/ AbortCall(c)

ClaimStep(w) == (\E r \in Runs : ClaimLock(w, r)) \/ ClaimCommit(w) \/ ClaimFails(w)

RunStep(w) ==
  \/ StartExecute(w) \/ ExecuteRaises(w) \/ BuildFails(w) \/ BuildOk(w)
  \/ \E o \in Terminal : PipelineDone(w, o)

\* What the executor still does once the pipeline has returned.
RecordStep(w) == FlushRow(w) \/ StopHeartbeat(w) \/ CommitOutcome(w) \/ CommitLost(w)
RecordFault(w) == FlushFails(w) \/ CommitFails(w)

Beat(w) == Heartbeat(w) \/ HeartbeatBlocks(w)
ReapStep == \E Z \in SUBSET Runs : Reap(Z)
ProcessFault(w) == Crash(w) \/ Restart(w) \/ Stall(w) \/ Resume(w)

WorkerStep(w) ==
  \/ ClaimStep(w) \/ RunStep(w) \/ RecordStep(w) \/ RecordFault(w)
  \/ Beat(w) \/ HeartbeatFails(w) \/ ProcessFault(w)

Next == ApiStep \/ (\E w \in Workers : WorkerStep(w)) \/ ReapStep \/ Tick

Spec == Init /\ [][Next]_vars

\* Time passes, the reaper scans, and a live process runs its event loop: due
\* beats land and a finished run's bookkeeping goes on.  No fairness of the
\* API, of claims, of the pipelines (they may run for ever) or of faults.
Fairness ==
  /\ WF_vars(Tick)
  /\ WF_vars(ReapStep)
  /\ \A w \in Workers : WF_vars(Beat(w)) /\ WF_vars(RecordStep(w))

FairSpec == Spec /\ Fairness

-----------------------------------------------------------------------------
(***************************************************************************)
(* Safety                                                                  *)
(***************************************************************************)
\* Two workers are never inside execute() for the same run: FOR UPDATE SKIP
\* LOCKED and the status change share the claim's transaction.
OneExecutorPerRun ==
  \A w1, w2 \in Workers :
    Executing(w1) /\ Executing(w2) /\ held[w1] = held[w2] => w1 = w2

\* A run is handed to a worker at most once in its life, and a run that left
\* the queue never returns to it: the reaper fails zombies, retries are new
\* rows, and every other write leaves worker_id alone.
ClaimedAtMostOnce ==
  [][\A r \in Runs :
       /\ run[r].worker # NoWorker => run'[r].worker = run[r].worker
       /\ run[r].status \notin {"none", "pending"} => run'[r].status \notin {"none", "pending"}]_vars

\* The downstream runs are enqueued exactly once, and by the very commit that
\* makes the run succeeded.  Only a cancel request that read the run while it
\* was pending can rewrite the status afterwards.
DownstreamIffSucceeded ==
  \A r \in Triggering :
    /\ run[r].downstream <= 1
    /\ run[r].status = "succeeded" => run[r].downstream = 1
    /\ run[r].downstream = 1 => \/ run[r].status = "succeeded"
                                \/ run[r].status = "cancelled" /\ run[r].cancel

\* A cancel that lands on a row no worker has claimed is final: the row is
\* never claimed, not even by a worker whose claim was in flight.
CancelBeforeClaimIsFinal ==
  [][\A r \in Runs :
       run[r].status = "cancelled" /\ run[r].worker = NoWorker =>
         /\ run'[r].status = "cancelled"
         /\ \A w \in Workers : held'[w] # r]_vars

\* A run whose heartbeat task has not missed a beat is not reaped, however
\* long it takes.
HonestRunNotReaped ==
  \A w \in Workers : steady[w] /\ hb[w] = "sleeping" => held[w] \notin Stale

\* The original of a retry has ended, and stays ended.
RetryOfEnded ==
  \A r \in Runs : run[r].retryOf # NoRun => run[run[r].retryOf].status \in Terminal

-----------------------------------------------------------------------------
(***************************************************************************)
(* Liveness                                                                *)
(***************************************************************************)
\* A running row whose worker is gone does not stay running.
OrphanIsReaped ==
  \A r \in Runs :
    (run[r].status = "running" /\ \A w \in Workers : held[w] # r)
      ~> run[r].status # "running"

\* Once the pipeline of r has returned, its row leaves running.
LeavesRunning(r) ==
  (\E w \in Workers : held[w] = r /\ pc[w] \in {"recording", "flushed", "committing"})
    ~> run[r].status # "running"

\* A finished run whose recording flushes nothing early leaves running, by the
\* executor's commit or, when that fails or its process is gone, by the reaper.
QuietRunLeavesRunning ==
  \A r \in {q \in Runs : \A o \in Terminal : <<q, o>> \notin EarlyFlush} : LeavesRunning(r)

\* A cancel request stamped on a node-level run reaches its executor within
\* the beats of a process that keeps running, failed beats notwithstanding.
CancelReachesExecutor ==
  \A w \in Workers, r \in Runs :
    (pc[w] = "running" /\ held[w] = r /\ run[r].cancel)
      ~> (cancelSeen[w] \/ pc[w] # "running" \/ stalled[w])

-----------------------------------------------------------------------------
(***************************************************************************)
(* What the documentation says and the code does not do                    *)
(***************************************************************************)
\* request_cancel's docstring: a claim between the read and the write of a
\* cancel is harmless, "the worker wins, status goes to running".
WorkerWinsCancelRace ==
  [][\A r \in Runs :
       run[r].status = "running" /\ run'[r].status = "cancelled" =>
         \E w \in Workers : held[w] = r /\ outcome[w] = "cancelled"]_vars

\* execute()'s docstring: "on completion (success or failure), the row is
\* updated with status", for every run.
FinishedRunLeavesRunning == \A r \in Runs : LeavesRunning(r)

\* execute()'s comment: "a catalog hiccup must not flip a successful run to
\* failed".  A run whose pipeline succeeded and whose catalog write failed
\* still becomes succeeded.
CatalogHiccupHarmless ==
  \A r \in Runs :
    (\E w \in Workers : held[w] = r /\ poisoned[w] /\ outcome[w] = "succeeded")
      ~> run[r].status = "succeeded"

-----------------------------------------------------------------------------
(***************************************************************************)
(* The abstract specification this one implements                          *)
(***************************************************************************)
PhaseOf(status) ==
  CASE status = "none" -> "absent"
    [] status = "pending" -> "queued"
    [] status = "running" -> "started"
    [] OTHER -> "ended"

Lifecycle == INSTANCE RunLifecycle WITH
               phase <- [r \in Runs |-> PhaseOf(run[r].status)],
               starter <- [r \in Runs |-> run[r].worker]

ImplementsLifecycle == Lifecycle!LifecycleSpec
=============================================================================
