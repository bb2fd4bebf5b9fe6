--------------------------- MODULE RunQueueProofs ---------------------------
(***************************************************************************)
(* Theorems about RunQueue, for every set of runs, workers and requests,   *)
(* every timing and every number of faults.                                *)
(***************************************************************************)
EXTENDS RunQueue, TLAPS

-----------------------------------------------------------------------------
(***************************************************************************)
(* The rows the actions write: their type, and the fields the invariants   *)
(* read.                                                                   *)
(***************************************************************************)
\* What membership in Row says of each field the invariants read.
LEMMA RowFields ==
  ASSUME NEW row \in Row
  PROVE  /\ row.status \in Status /\ row.worker \in Workers \cup {NoWorker}
         /\ row.cancel \in BOOLEAN /\ row.age \in 0..ReapAfter
         /\ row.retryOf \in Runs \cup {NoRun} /\ row.downstream \in Nat
BY DEF Row

\* The absent row is a row, with no status, worker, retry or downstream.
LEMMA NoRowFacts ==
  /\ NoRow \in Row /\ NoRow.status = "none" /\ NoRow.worker = NoWorker
  /\ NoRow.downstream = 0 /\ NoRow.age = 0 /\ NoRow.retryOf = NoRun
BY TimingAssumption DEF Row, NoRow, BlankRow, Status

\* Run(...) builds a well-typed pending row that nobody has claimed.
LEMMA PendingRowFacts ==
  ASSUME NEW o \in Runs \cup {NoRun}
  PROVE  /\ PendingRow(o) \in Row /\ PendingRow(o).status = "pending"
         /\ PendingRow(o).worker = NoWorker /\ PendingRow(o).downstream = 0
         /\ PendingRow(o).age = 0 /\ PendingRow(o).retryOf = o
BY TimingAssumption DEF Row, BlankRow, PendingRow, Status

\* request_cancel's write keeps the row's type, worker and retry link.
LEMMA CancelledRowFacts ==
  ASSUME NEW row \in Row, NEW s
  PROVE  /\ CancelledRow(row, s) \in Row
         /\ CancelledRow(row, s).cancel = TRUE
         /\ CancelledRow(row, s).status = IF s = "pending" THEN "cancelled" ELSE row.status
         /\ CancelledRow(row, s).worker = row.worker /\ CancelledRow(row, s).age = row.age
         /\ CancelledRow(row, s).downstream = row.downstream
         /\ CancelledRow(row, s).retryOf = row.retryOf
BY DEF Row, CancelledRow, Status, Terminal

\* claim_pending_run's write makes the row running with a fresh heartbeat.
LEMMA ClaimedRowFacts ==
  ASSUME NEW row \in Row, NEW w \in Workers
  PROVE  /\ ClaimedRow(row, w) \in Row
         /\ ClaimedRow(row, w).status = "running" /\ ClaimedRow(row, w).worker = w
         /\ ClaimedRow(row, w).age = 0
         /\ ClaimedRow(row, w).downstream = row.downstream
         /\ ClaimedRow(row, w).retryOf = row.retryOf
<1>1. /\ ClaimedRow(row, w).status = "running" /\ ClaimedRow(row, w).worker = w
      /\ ClaimedRow(row, w).age = 0
      /\ ClaimedRow(row, w).downstream = row.downstream
      /\ ClaimedRow(row, w).retryOf = row.retryOf
  BY DEF Row, ClaimedRow
<1>2. ClaimedRow(row, w) \in Row
  <2> DEFINE r1 == [row EXCEPT !.status = "running"]
             r2 == [r1 EXCEPT !.worker = w]
             r3 == [r2 EXCEPT !.age = 0]
  <2>1. r1 \in Row
    BY DEF Row, Status
  <2> HIDE DEF r1
  <2>2. r2 \in Row
    BY <2>1 DEF Row
  <2> HIDE DEF r2
  <2>3. r3 \in Row
    BY <2>2, TimingAssumption DEF Row
  <2> QED
    BY <2>3 DEF ClaimedRow, r1, r2
<1> QED
  BY <1>1, <1>2

\* A heartbeat writes the heartbeat's age and nothing else.
LEMMA StampedRowFacts ==
  ASSUME NEW row \in Row
  PROVE  /\ StampedRow(row) \in Row /\ StampedRow(row).age = 0
         /\ StampedRow(row).status = row.status /\ StampedRow(row).worker = row.worker
         /\ StampedRow(row).cancel = row.cancel
         /\ StampedRow(row).downstream = row.downstream
         /\ StampedRow(row).retryOf = row.retryOf
BY TimingAssumption DEF Row, StampedRow

\* A tick ages a waiting row by one, within the saturation bound.
LEMMA AgedRowFacts ==
  ASSUME NEW row \in Row, row.age < ReapAfter
  PROVE  /\ AgedRow(row) \in Row /\ AgedRow(row).age = row.age + 1
         /\ AgedRow(row).status = row.status /\ AgedRow(row).worker = row.worker
         /\ AgedRow(row).cancel = row.cancel
         /\ AgedRow(row).downstream = row.downstream
         /\ AgedRow(row).retryOf = row.retryOf
BY TimingAssumption DEF Row, AgedRow

\* The executor's final write ends the row and counts its downstream runs.
LEMMA RecordedRowFacts ==
  ASSUME NEW row \in Row, NEW o \in Status, NEW n \in Nat
  PROVE  /\ RecordedRow(row, o, n) \in Row
         /\ RecordedRow(row, o, n).status = o
         /\ RecordedRow(row, o, n).worker = row.worker
         /\ RecordedRow(row, o, n).cancel = row.cancel
         /\ RecordedRow(row, o, n).age = 0
         /\ RecordedRow(row, o, n).downstream = row.downstream + n
         /\ RecordedRow(row, o, n).retryOf = row.retryOf
<1>1. ErrorOf(row, o) \in {"none", "reaped", "pipeline"}
  BY DEF ErrorOf, Row
<1>2. /\ RecordedRow(row, o, n).status = o
      /\ RecordedRow(row, o, n).worker = row.worker
      /\ RecordedRow(row, o, n).cancel = row.cancel
      /\ RecordedRow(row, o, n).age = 0
      /\ RecordedRow(row, o, n).downstream = row.downstream + n
      /\ RecordedRow(row, o, n).retryOf = row.retryOf
  BY DEF Row, RecordedRow
<1>3. row.downstream + n \in Nat
  BY DEF Row
<1>4. RecordedRow(row, o, n) \in Row
  <2> DEFINE r1 == [row EXCEPT !.status = o]
             r2 == [r1 EXCEPT !.age = 0]
             r3 == [r2 EXCEPT !.error = ErrorOf(row, o)]
             r4 == [r3 EXCEPT !.downstream = row.downstream + n]
  <2>1. r1 \in Row
    BY DEF Row
  <2> HIDE DEF r1
  <2>2. r2 \in Row
    BY <2>1, TimingAssumption DEF Row
  <2> HIDE DEF r2
  <2>3. r3 \in Row
    BY <1>1, <2>2 DEF Row
  <2> HIDE DEF r3
  <2>4. r4 \in Row
    BY <1>3, <2>3 DEF Row
  <2> QED
    BY <2>4 DEF RecordedRow, r1, r2, r3
<1> QED
  BY <1>2, <1>4

\* reap_once's write fails the row and keeps its worker.
LEMMA ReapedRowFacts ==
  ASSUME NEW row \in Row
  PROVE  /\ ReapedRow(row) \in Row /\ ReapedRow(row).status = "failed"
         /\ ReapedRow(row).worker = row.worker /\ ReapedRow(row).cancel = row.cancel
         /\ ReapedRow(row).age = row.age
         /\ ReapedRow(row).downstream = row.downstream
         /\ ReapedRow(row).retryOf = row.retryOf
BY DEF Row, ReapedRow, Status, Terminal

-----------------------------------------------------------------------------
(***************************************************************************)
(* Type correctness                                                        *)
(***************************************************************************)
\* The initial state is well typed.
LEMMA TypeInit == Init => TypeOK
BY NoRowFacts, TimingAssumption, BoundsAssumption
   DEF Init, TypeOK, NoCall, PcValues, Outcomes, Beats, CallOps, Status

\* The API's steps preserve the types.
LEMMA TypeApi == TypeOK /\ ApiStep => TypeOK'
<1> SUFFICES ASSUME TypeOK, ApiStep PROVE TypeOK'
  OBVIOUS
<1> USE DEF TypeOK, queueVars, sessionVars, beatVars
<1>1. ASSUME NEW r \in Runs, Enqueue(r) PROVE TypeOK'
  BY <1>1, PendingRowFacts DEF Enqueue
<1>2. ASSUME NEW c \in Calls, NEW r \in Runs, BeginCancel(c, r) PROVE TypeOK'
  BY <1>2 DEF BeginCancel, CallOps, Status, Cancellable
<1>3. ASSUME NEW c \in Calls, NEW r \in Runs, BeginRetry(c, r) PROVE TypeOK'
  BY <1>3 DEF BeginRetry, CallOps, Status, Retryable, Terminal
<1>4. ASSUME NEW c \in Calls, NEW r \in Runs, CommitRetry(c, r) PROVE TypeOK'
  BY <1>4, PendingRowFacts DEF CommitRetry, NoCall, CallOps, Status
<1>5. ASSUME NEW c \in Calls, CommitCancel(c) PROVE TypeOK'
  <2> DEFINE r == call[c].run
             new == CancelledRow(run[r], call[c].seen)
  <2>1. r \in Runs => new \in Row
    BY CancelledRowFacts
  <2>2. run' = [run EXCEPT ![r] = new] /\ call' = [call EXCEPT ![c] = NoCall]
    BY <1>5 DEF CommitCancel
  <2> HIDE DEF r, new
  <2>3. run' \in [Runs -> Row]
    BY <2>1, <2>2
  <2>4. call' \in [Calls -> [op : CallOps, run : Runs \cup {NoRun}, seen : Status]]
    <3>1. NoCall \in [op : CallOps, run : Runs \cup {NoRun}, seen : Status]
      BY DEF NoCall, CallOps, Status
    <3> QED
      BY <2>2, <3>1
  <2> QED
    BY <1>5, <2>3, <2>4 DEF CommitCancel
<1>6. ASSUME NEW c \in Calls, AbortCall(c) PROVE TypeOK'
  BY <1>6 DEF AbortCall, NoCall, CallOps, Status
<1> QED
  BY <1>1, <1>2, <1>3, <1>4, <1>5, <1>6 DEF ApiStep

\* What a worker leaves behind when it forgets its run is well typed.
LEMMA ForgetType ==
  ASSUME TypeOK, NEW w \in Workers, Forget(w), pc' = [pc EXCEPT ![w] = "idle"] \/ pc' = [pc EXCEPT ![w] = "down"]
  PROVE  /\ pc' \in [Workers -> PcValues]
         /\ held' \in [Workers -> Runs \cup {NoRun}]
         /\ outcome' \in [Workers -> Outcomes]
         /\ poisoned' \in [Workers -> BOOLEAN]
         /\ hb' \in [Workers -> Beats]
         /\ timer' \in [Workers -> 0..Interval]
         /\ cancelSeen' \in [Workers -> BOOLEAN]
         /\ steady' \in [Workers -> BOOLEAN]
         /\ \A v \in Workers : pc'[v] \in {"down", "idle"} <=> held'[v] = NoRun
BY TimingAssumption DEF TypeOK, Forget, PcValues, Outcomes, Beats

\* Releasing a worker's row locks keeps the lock table well typed.
LEMMA ReleaseType ==
  ASSUME TypeOK, NEW w \in Workers, Release(w)
  PROVE  lock' \in [Runs -> Workers \cup {NoWorker}]
BY DEF TypeOK, Release

\* The fault counter stays within its bound.
LEMMA FaultType ==
  ASSUME TypeOK, Fault
  PROVE  faults' \in 0..MaxFaults
BY BoundsAssumption DEF TypeOK, Fault

\* Every step of a worker preserves the types.
LEMMA TypeWorker ==
  ASSUME TypeOK, NEW w \in Workers, WorkerStep(w)
  PROVE  TypeOK'
<1> USE DEF TypeOK, queueVars, sessionVars, beatVars
<1>1. ASSUME NEW r \in Runs, ClaimLock(w, r) PROVE TypeOK'
  BY <1>1, RunsAssumption DEF ClaimLock, PcValues
<1>2. CASE ClaimCommit(w)
  <2>1. held[w] \in Runs
    BY <1>2 DEF ClaimCommit
  <2> QED BY <2>1, <1>2, ClaimedRowFacts, ReleaseType DEF ClaimCommit, PcValues
<1>3. CASE ClaimFails(w)
  BY <1>3, ReleaseType, FaultType DEF ClaimFails, PcValues
<1>4. CASE StartExecute(w)
  BY <1>4 DEF StartExecute, PcValues
<1>5. CASE ExecuteRaises(w)
  BY <1>5, ForgetType, FaultType DEF ExecuteRaises
<1>6. CASE BuildFails(w)
  BY <1>6 DEF BuildFails, PcValues, Outcomes, Terminal
<1>7. CASE BuildOk(w)
  BY <1>7, TimingAssumption DEF BuildOk, PcValues, Beats
<1>8. ASSUME NEW o \in Terminal, PipelineDone(w, o) PROVE TypeOK'
  BY <1>8 DEF PipelineDone, PcValues, Outcomes
<1>9. CASE FlushRow(w)
  BY <1>9 DEF FlushRow, PcValues
<1>10. CASE FlushFails(w)
  BY <1>10, ReleaseType, FaultType DEF FlushFails, PcValues
<1>11. CASE StopHeartbeat(w)
  BY <1>11, TimingAssumption DEF StopHeartbeat, PcValues, Beats
<1>12. CASE CommitOutcome(w)
  <2> DEFINE r == held[w]
             o == outcome[w]
  <2>1. r \in Runs
    BY <1>12 DEF CommitOutcome
  <2>2. run[r] \in Row /\ o \in Status /\ Triggered(r, o) \in Nat
    BY <2>1 DEF Outcomes, Status, Triggered
  <2>3. RecordedRow(run[r], o, Triggered(r, o)) \in Row
    BY <2>2, RecordedRowFacts
  <2>4. run' \in [Runs -> Row]
    BY <1>12, <2>1, <2>3 DEF CommitOutcome
  <2> QED
    BY <1>12, <2>4, ForgetType, ReleaseType DEF CommitOutcome
<1>13. CASE CommitLost(w)
  BY <1>13, ForgetType, ReleaseType DEF CommitLost
<1>14. CASE CommitFails(w)
  BY <1>14, ForgetType, ReleaseType, FaultType DEF CommitFails
<1>15. CASE Heartbeat(w)
  <2>1. run' \in [Runs -> Row]
    BY <1>15, StampedRowFacts DEF Heartbeat
  <2>2. cancelSeen' \in [Workers -> BOOLEAN]
    <3>1. DEFINE seen == cancelSeen[w] \/ run[held[w]].cancel
    <3>2. seen \in BOOLEAN
      OBVIOUS
    <3>3. cancelSeen' = [cancelSeen EXCEPT ![w] = seen]
      BY <1>15 DEF Heartbeat
    <3> HIDE DEF seen
    <3> QED BY <3>2, <3>3
  <2> QED
    BY <1>15, <2>1, <2>2, TimingAssumption DEF Heartbeat, Beats
<1>16. CASE HeartbeatBlocks(w)
  BY <1>16 DEF HeartbeatBlocks, Beats
<1>17. CASE HeartbeatFails(w)
  BY <1>17, FaultType, TimingAssumption DEF HeartbeatFails
<1>18. CASE Crash(w)
  BY <1>18, ForgetType, ReleaseType, FaultType DEF Crash
<1>19. CASE Restart(w)
  BY <1>19 DEF Restart, PcValues
<1>20. CASE Stall(w)
  BY <1>20, FaultType DEF Stall
<1>21. CASE Resume(w)
  BY <1>21 DEF Resume
<1> QED
  BY <1>1, <1>2, <1>3, <1>4, <1>5, <1>6, <1>7, <1>8, <1>9, <1>10, <1>11, <1>12, <1>13,
     <1>14, <1>15, <1>16, <1>17, <1>18, <1>19, <1>20, <1>21
     DEF WorkerStep, ClaimStep, RunStep, RecordStep, RecordFault, Beat, ProcessFault

\* A reaper scan preserves the types.
LEMMA TypeReap == TypeOK /\ ReapStep => TypeOK'
<1> SUFFICES ASSUME TypeOK, NEW Z \in SUBSET Runs, Reap(Z) PROVE TypeOK'
  BY DEF ReapStep
<1>1. run' \in [Runs -> Row]
  BY ReapedRowFacts DEF Reap, TypeOK
<1> QED
  BY <1>1 DEF Reap, TypeOK, sessionVars, beatVars

\* The passing of time preserves the types.
LEMMA TypeTick == TypeOK /\ Tick => TypeOK'
<1> SUFFICES ASSUME TypeOK, Tick PROVE TypeOK'
  OBVIOUS
<1>1. run' \in [Runs -> Row]
  BY AgedRowFacts DEF Tick, TypeOK
<1>2. timer' \in [Workers -> 0..Interval]
  BY TimingAssumption DEF Tick, TypeOK
<1> QED
  BY <1>1, <1>2 DEF Tick, TypeOK, sessionVars

\* Every step of the system preserves the types.
LEMMA TypeStep == TypeOK /\ [Next]_vars => TypeOK'
<1> SUFFICES ASSUME TypeOK, [Next]_vars PROVE TypeOK'
  OBVIOUS
<1>1. CASE UNCHANGED vars
  BY <1>1 DEF TypeOK, vars
<1> QED
  BY <1>1, TypeApi, TypeWorker, TypeReap, TypeTick DEF Next

\* The table, the locks, the workers and the requests stay within their types.
THEOREM TypeCorrect == Spec => []TypeOK
  BY TypeInit, TypeStep, PTL DEF Spec

-----------------------------------------------------------------------------
(***************************************************************************)
(* The inductive invariant                                                 *)
(***************************************************************************)
Waiting == {"none", "pending"}
Recording == {"recording", "flushed", "committing"}

\* A row lock belongs to the open transaction of the worker holding the run,
\* and a claim in flight keeps its row pending.
LockInv ==
  /\ \A r \in Runs, w \in Workers :
       lock[r] = w => held[w] = r /\ pc[w] \in {"claiming", "flushed", "committing"}
  /\ \A w \in Workers :
       pc[w] = "claiming" => lock[held[w]] = w /\ run[held[w]].status = "pending"

\* An unstarted row has no worker, and nothing is enqueued before the commit
\* that ends the run.
RowInv ==
  \A r \in Runs :
    /\ run[r].status \in Waiting => run[r].worker = NoWorker
    /\ run[r].status \in Waiting \cup {"running"} => run[r].downstream = 0

\* The row of a run in execution names its executor, whatever else has been
\* written to it meanwhile.
ExecInv ==
  \A w \in Workers :
    /\ Executing(w) => /\ run[held[w]].worker = w
                       /\ run[held[w]].status \notin Waiting
                       /\ run[held[w]].downstream = 0
    /\ pc[w] \in Recording => outcome[w] \in Terminal

\* A request in flight has read a row that exists; a retry's has ended.
CallInv ==
  \A c \in Calls :
    call[c].op # "none" =>
      /\ call[c].run \in Runs
      /\ run[call[c].run].status # "none"
      /\ call[c].op = "retry" => run[call[c].run].status \in Terminal

\* A steady heartbeat is on and keeps the row no older than its own sleep.
BeatInv ==
  \A w \in Workers :
    /\ hb[w] # "off" => pc[w] \in {"running", "recording", "flushed"}
    /\ steady[w] => hb[w] # "off" /\ ~stalled[w]
    /\ steady[w] /\ hb[w] = "sleeping" => run[held[w]].age <= timer[w]

IInv ==
  /\ TypeOK /\ LockInv /\ RowInv /\ ExecInv /\ CallInv /\ BeatInv
  /\ DownstreamIffSucceeded /\ RetryOfEnded

\* The inductive invariant holds initially.
LEMMA InvInit == Init => IInv
<1> SUFFICES ASSUME Init PROVE IInv
  OBVIOUS
<1>1. TypeOK
  BY TypeInit
<1> QED
  BY <1>1, NoRowFacts, WorkersAssumption, KindsAssumption
     DEF Init, IInv, LockInv, RowInv, ExecInv, CallInv, BeatInv, DownstreamIffSucceeded,
         RetryOfEnded, Waiting, Recording, Executing, NoCall

\* The API's steps preserve the inductive invariant.
LEMMA InvApi ==
  ASSUME IInv, ApiStep
  PROVE  IInv'
<1> USE DEF IInv, queueVars, sessionVars, beatVars
<1>0. TypeOK'
  BY TypeApi
<1>1. ASSUME NEW r \in Runs, Enqueue(r) PROVE IInv'
  <2>1. run' = [run EXCEPT ![r] = PendingRow(NoRun)] /\ run[r].status = "none"
    BY <1>1 DEF Enqueue
  <2>2. LockInv'
    BY <1>1, <2>1 DEF LockInv, Enqueue, TypeOK
  <2>3. RowInv'
    BY <2>1, PendingRowFacts DEF RowInv, TypeOK
  <2>4. ExecInv'
    BY <1>1, <2>1 DEF ExecInv, Enqueue, TypeOK, Executing, Waiting, Recording
  <2>5. CallInv'
    BY <1>1, <2>1, PendingRowFacts DEF CallInv, Enqueue, TypeOK, Terminal
  <2>6. BeatInv'
    BY <1>1, <2>1, PendingRowFacts DEF BeatInv, Enqueue, TypeOK
  <2>7. DownstreamIffSucceeded'
    BY <2>1, PendingRowFacts, KindsAssumption DEF DownstreamIffSucceeded, TypeOK
  <2>8. RetryOfEnded'
    BY <2>1, PendingRowFacts DEF RetryOfEnded, TypeOK, Terminal
  <2> QED
    BY <1>0, <2>2, <2>3, <2>4, <2>5, <2>6, <2>7, <2>8
<1>2. ASSUME NEW c \in Calls, NEW r \in Runs, CommitRetry(c, r) PROVE IInv'
  <2> DEFINE o == call[c].run
  <2>1. /\ run' = [run EXCEPT ![r] = PendingRow(o)] /\ run[r].status = "none"
        /\ o \in Runs /\ run[o].status \in Terminal
    BY <1>2 DEF CommitRetry, CallInv
  <2>2. LockInv'
    BY <1>2, <2>1 DEF LockInv, CommitRetry, TypeOK
  <2>3. RowInv'
    BY <2>1, PendingRowFacts DEF RowInv, TypeOK
  <2>4. ExecInv'
    BY <1>2, <2>1 DEF ExecInv, CommitRetry, TypeOK, Executing, Waiting, Recording
  <2>5. CallInv'
    BY <1>2, <2>1, PendingRowFacts DEF CallInv, CommitRetry, NoCall, TypeOK, Terminal
  <2>6. BeatInv'
    BY <1>2, <2>1, PendingRowFacts DEF BeatInv, CommitRetry, TypeOK
  <2>7. DownstreamIffSucceeded'
    BY <2>1, PendingRowFacts, KindsAssumption DEF DownstreamIffSucceeded, TypeOK
  <2>8. RetryOfEnded'
    BY <2>1, PendingRowFacts DEF RetryOfEnded, TypeOK, Terminal
  <2> QED
    BY <1>0, <2>2, <2>3, <2>4, <2>5, <2>6, <2>7, <2>8
<1>3. ASSUME NEW c \in Calls, CommitCancel(c) PROVE IInv'
  <2> DEFINE r == call[c].run
             new == CancelledRow(run[r], call[c].seen)
  <2>1. /\ run' = [run EXCEPT ![r] = new] /\ lock[r] = NoWorker
        /\ r \in Runs /\ run[r].status # "none" /\ run[r] \in Row
    BY <1>3 DEF CommitCancel, CallInv, Unlocked, TypeOK
  <2>2. /\ new.cancel = TRUE /\ new.status \in {run[r].status, "cancelled"}
        /\ new.worker = run[r].worker /\ new.age = run[r].age
        /\ new.downstream = run[r].downstream /\ new.retryOf = run[r].retryOf
    <3> DEFINE row == run[r]
               s == call[c].seen
    <3> HIDE DEF row, s
    <3>1. row \in Row
      BY <2>1 DEF row
    <3>2. /\ CancelledRow(row, s).cancel = TRUE
          /\ CancelledRow(row, s).status \in {row.status, "cancelled"}
          /\ CancelledRow(row, s).worker = row.worker /\ CancelledRow(row, s).age = row.age
          /\ CancelledRow(row, s).downstream = row.downstream
          /\ CancelledRow(row, s).retryOf = row.retryOf
      BY <3>1, CancelledRowFacts
    <3> QED
      BY <3>2 DEF row, s
  <2> HIDE DEF new
  <2>3. LockInv'
    <3>1. /\ UNCHANGED <<lock, held, pc>>
          /\ \A q \in Runs : q # r => run'[q] = run[q]
      BY <1>3, <2>1 DEF CommitCancel, TypeOK, sessionVars
    <3>2. ASSUME NEW w \in Workers, pc[w] = "claiming" PROVE held[w] # r /\ held[w] \in Runs
      <4>1. held[w] \in Runs
        BY <3>2 DEF TypeOK
      <4> QED
        BY <2>1, <3>2, <4>1, WorkersAssumption DEF LockInv
    <3> QED
      BY <3>1, <3>2 DEF LockInv
  <2>4. RowInv'
    BY <2>1, <2>2 DEF RowInv, TypeOK, Waiting
  <2>5. ExecInv'
    BY <1>3, <2>1, <2>2 DEF ExecInv, CommitCancel, TypeOK, Executing, Waiting, Recording
  <2>6. CallInv'
    BY <1>3, <2>1, <2>2 DEF CallInv, CommitCancel, NoCall, TypeOK, Terminal
  <2>7. BeatInv'
    BY <1>3, <2>1, <2>2 DEF BeatInv, CommitCancel, TypeOK
  <2>8. DownstreamIffSucceeded'
    BY <2>1, <2>2, KindsAssumption DEF DownstreamIffSucceeded, TypeOK
  <2>9. RetryOfEnded'
    BY <2>1, <2>2 DEF RetryOfEnded, TypeOK, Terminal
  <2> QED
    BY <1>0, <2>3, <2>4, <2>5, <2>6, <2>7, <2>8, <2>9
<1>4. ASSUME NEW c \in Calls,
             (\E r \in Runs : BeginCancel(c, r) \/ BeginRetry(c, r)) \/ AbortCall(c)
      PROVE  IInv'
  <2>1. UNCHANGED <<run, lock, pc, held, outcome, hb, timer, steady, stalled>>
    BY <1>4 DEF BeginCancel, BeginRetry, AbortCall
  <2>2. CallInv'
    BY <1>4 DEF CallInv, TypeOK, BeginCancel, BeginRetry, AbortCall, NoCall, Cancellable,
                Retryable, Terminal
  <2>3. LockInv' /\ RowInv' /\ ExecInv' /\ BeatInv'
    BY <2>1 DEF LockInv, RowInv, ExecInv, BeatInv, Executing
  <2>4. DownstreamIffSucceeded' /\ RetryOfEnded'
    BY <2>1 DEF DownstreamIffSucceeded, RetryOfEnded
  <2> QED
    BY <1>0, <2>2, <2>3, <2>4
<1> QED
  BY <1>1, <1>2, <1>3, <1>4 DEF ApiStep

\* Steps that leave the table and the requests alone preserve what speaks of
\* nothing else.
LEMMA InvSameRows ==
  ASSUME IInv, UNCHANGED <<run, call>>
  PROVE  RowInv' /\ CallInv' /\ DownstreamIffSucceeded' /\ RetryOfEnded'
BY DEF IInv, RowInv, CallInv, DownstreamIffSucceeded, RetryOfEnded

\* A worker that ends its transaction and forgets its run.
LEMMA InvForget ==
  ASSUME IInv, NEW w \in Workers, UNCHANGED <<run, call>>, Release(w), Forget(w),
         pc' = [pc EXCEPT ![w] = "idle"] \/ pc' = [pc EXCEPT ![w] = "down"],
         stalled' = stalled \/ stalled' = [stalled EXCEPT ![w] = FALSE],
         TypeOK'
  PROVE  IInv'
<1> USE DEF IInv
<1>1. LockInv'
  BY WorkersAssumption DEF LockInv, Release, Forget, TypeOK
<1>2. ExecInv'
  BY DEF ExecInv, Forget, TypeOK, Executing, Recording
<1>3. BeatInv'
  BY DEF BeatInv, Forget, TypeOK
<1> QED
  BY <1>1, <1>2, <1>3, InvSameRows

\* Every step of a worker preserves the invariant.
LEMMA InvWorker ==
  ASSUME IInv, NEW w \in Workers, WorkerStep(w)
  PROVE  IInv'
<1> USE DEF IInv, queueVars, sessionVars, beatVars
<1>0. TypeOK'
  BY TypeWorker
<1>1. ASSUME NEW r \in Runs, ClaimLock(w, r) PROVE IInv'
  <2>1. LockInv'
    BY <1>1, WorkersAssumption DEF LockInv, ClaimLock, Claimable, Unlocked, TypeOK
  <2>2. ExecInv' /\ BeatInv'
    BY <1>1 DEF ExecInv, BeatInv, ClaimLock, TypeOK, Executing, Recording
  <2> QED
    BY <1>0, <1>1, <2>1, <2>2, InvSameRows DEF ClaimLock
<1>2. CASE ClaimCommit(w)
  <2> DEFINE r == held[w]
             new == ClaimedRow(run[r], w)
  <2>1. /\ r \in Runs /\ run[r] \in Row /\ run[r].status = "pending" /\ lock[r] = w
        /\ run' = [run EXCEPT ![r] = new]
    BY <1>2 DEF ClaimCommit, LockInv, TypeOK
  <2>2. /\ new.status = "running" /\ new.worker = w /\ new.age = 0
        /\ new.downstream = 0 /\ new.retryOf = run[r].retryOf
    BY <2>1, ClaimedRowFacts DEF RowInv, Waiting
  <2> HIDE DEF new
  <2>3. LockInv'
    BY <1>2, <2>1, WorkersAssumption DEF LockInv, ClaimCommit, Release, TypeOK
  <2>4. RowInv'
    BY <2>1, <2>2 DEF RowInv, TypeOK, Waiting
  <2>5. ExecInv'
    BY <1>2, <2>1, <2>2 DEF ExecInv, ClaimCommit, TypeOK, Executing, Waiting, Recording
  <2>6. CallInv'
    BY <1>2, <2>1, <2>2 DEF CallInv, ClaimCommit, TypeOK, Terminal
  <2>7. BeatInv'
    BY <1>2, <2>1, <2>2 DEF BeatInv, ClaimCommit, TypeOK
  <2>8. DownstreamIffSucceeded'
    BY <2>1, <2>2, KindsAssumption DEF DownstreamIffSucceeded, TypeOK
  <2>9. RetryOfEnded'
    BY <2>1, <2>2 DEF RetryOfEnded, TypeOK, Terminal
  <2> QED
    BY <1>0, <2>3, <2>4, <2>5, <2>6, <2>7, <2>8, <2>9
<1>3. CASE ClaimFails(w)
  <2>1. LockInv'
    BY <1>3, WorkersAssumption DEF LockInv, ClaimFails, Release, TypeOK
  <2>2. ExecInv' /\ BeatInv'
    BY <1>3 DEF ExecInv, BeatInv, ClaimFails, TypeOK, Executing, Recording
  <2> QED
    BY <1>0, <1>3, <2>1, <2>2, InvSameRows DEF ClaimFails
<1>4. CASE StartExecute(w) \/ BuildFails(w) \/ BuildOk(w)
  <2>1. LockInv'
    BY <1>4 DEF LockInv, StartExecute, BuildFails, BuildOk, TypeOK
  <2>2. ExecInv'
    BY <1>4 DEF ExecInv, StartExecute, BuildFails, BuildOk, TypeOK, Executing, Recording, Terminal
  <2>3. BeatInv'
    BY <1>4 DEF BeatInv, StartExecute, BuildFails, BuildOk, TypeOK
  <2> QED
    BY <1>0, <1>4, <2>1, <2>2, <2>3, InvSameRows DEF StartExecute, BuildFails, BuildOk
<1>5. ASSUME NEW o \in Terminal, PipelineDone(w, o) PROVE IInv'
  <2>1. LockInv' /\ BeatInv'
    BY <1>5 DEF LockInv, BeatInv, PipelineDone, TypeOK
  <2>2. ExecInv'
    BY <1>5 DEF ExecInv, PipelineDone, TypeOK, Executing, Recording
  <2> QED
    BY <1>0, <1>5, <2>1, <2>2, InvSameRows DEF PipelineDone
<1>6. CASE FlushRow(w)
  <2>1. LockInv'
    BY <1>6, WorkersAssumption DEF LockInv, FlushRow, Unlocked, TypeOK
  <2>2. ExecInv' /\ BeatInv'
    BY <1>6 DEF ExecInv, BeatInv, FlushRow, TypeOK, Executing, Recording
  <2> QED
    BY <1>0, <1>6, <2>1, <2>2, InvSameRows DEF FlushRow
<1>7. CASE FlushFails(w)
  <2>1. LockInv'
    BY <1>7, WorkersAssumption DEF LockInv, FlushFails, Release, TypeOK
  <2>2. ExecInv' /\ BeatInv'
    BY <1>7 DEF ExecInv, BeatInv, FlushFails, TypeOK, Executing, Recording
  <2> QED
    BY <1>0, <1>7, <2>1, <2>2, InvSameRows DEF FlushFails
<1>8. CASE StopHeartbeat(w)
  <2>1. LockInv'
    BY <1>8 DEF LockInv, StopHeartbeat, TypeOK
  <2>2. ExecInv' /\ BeatInv'
    BY <1>8 DEF ExecInv, BeatInv, StopHeartbeat, TypeOK, Executing, Recording
  <2> QED
    BY <1>0, <1>8, <2>1, <2>2, InvSameRows DEF StopHeartbeat
<1>9. CASE CommitOutcome(w)
  <2> DEFINE r == held[w]
             o == outcome[w]
             new == RecordedRow(run[r], o, Triggered(r, o))
  <2>1. /\ r \in Runs /\ run[r] \in Row /\ o \in Terminal
        /\ run[r].worker = w /\ run[r].status \notin Waiting /\ run[r].downstream = 0
        /\ run' = [run EXCEPT ![r] = new]
    BY <1>9 DEF CommitOutcome, ExecInv, Executing, Recording, TypeOK
  <2>2. /\ new.status = o /\ new.worker = w /\ new.age = 0
        /\ new.downstream = Triggered(r, o) /\ new.retryOf = run[r].retryOf
    <3>1. Triggered(r, o) \in Nat /\ o \in Status
      BY <2>1 DEF Triggered, Status
    <3> QED BY <2>1, <3>1, RecordedRowFacts
  <2> HIDE DEF new
  <2>3. LockInv'
    BY <1>9, <2>1, WorkersAssumption DEF LockInv, CommitOutcome, Release, Forget, TypeOK, Waiting
  <2>4. RowInv'
    BY <2>1, <2>2 DEF RowInv, TypeOK, Waiting, Terminal
  <2>5. \A v \in Workers : v # w /\ Executing(v) => held[v] # r
    BY <2>1 DEF ExecInv
  <2>6. ExecInv'
    BY <1>9, <2>1, <2>5 DEF ExecInv, CommitOutcome, Forget, TypeOK, Executing, Recording
  <2>7. CallInv'
    BY <1>9, <2>1, <2>2 DEF CallInv, CommitOutcome, TypeOK, Terminal
  <2>8. BeatInv'
    BY <1>9, <2>1, <2>2 DEF BeatInv, CommitOutcome, Forget, TypeOK
  <2>9. DownstreamIffSucceeded'
    BY <2>1, <2>2, KindsAssumption DEF DownstreamIffSucceeded, Triggered, TypeOK
  <2>10. RetryOfEnded'
    BY <2>1, <2>2 DEF RetryOfEnded, TypeOK
  <2> QED
    BY <1>0, <2>3, <2>4, <2>6, <2>7, <2>8, <2>9, <2>10
<1>10. CASE ExecuteRaises(w)
  <2>1. Release(w)
    BY <1>10, WorkersAssumption DEF ExecuteRaises, Release, LockInv, TypeOK
  <2> QED
    BY <1>0, <1>10, <2>1, InvForget DEF ExecuteRaises
<1>11. CASE CommitLost(w) \/ CommitFails(w) \/ Crash(w)
  BY <1>0, <1>11, InvForget DEF CommitLost, CommitFails, Crash
<1>12. CASE Heartbeat(w)
  <2> DEFINE r == held[w]
             new == StampedRow(run[r])
  <2>1. r \in Runs /\ run[r] \in Row /\ run' = [run EXCEPT ![r] = new]
    BY <1>12 DEF Heartbeat, BeatInv, TypeOK
  <2>2. /\ new.status = run[r].status /\ new.worker = run[r].worker /\ new.age = 0
        /\ new.cancel = run[r].cancel
        /\ new.downstream = run[r].downstream /\ new.retryOf = run[r].retryOf
    BY <2>1, StampedRowFacts
  <2> HIDE DEF new
  <2>3. LockInv'
    BY <1>12, <2>1, <2>2 DEF LockInv, Heartbeat, TypeOK
  <2>4. RowInv' /\ CallInv'
    BY <1>12, <2>1, <2>2 DEF RowInv, CallInv, Heartbeat, TypeOK
  <2>5. ExecInv'
    BY <1>12, <2>1, <2>2 DEF ExecInv, Heartbeat, TypeOK, Executing, Recording
  <2>6. BeatInv'
    BY <1>12, <2>1, <2>2, TimingAssumption DEF BeatInv, Heartbeat, TypeOK
  <2>7. DownstreamIffSucceeded'
    BY <2>1, <2>2, KindsAssumption DEF DownstreamIffSucceeded, TypeOK
  <2>8. RetryOfEnded'
    BY <2>1, <2>2 DEF RetryOfEnded, TypeOK
  <2> QED
    BY <1>0, <2>3, <2>4, <2>5, <2>6, <2>7, <2>8
<1>13. CASE HeartbeatBlocks(w) \/ HeartbeatFails(w) \/ Stall(w) \/ Resume(w)
  <2>1. LockInv' /\ ExecInv'
    BY <1>13 DEF LockInv, ExecInv, HeartbeatBlocks, HeartbeatFails, Stall, Resume, Executing
  <2>2. BeatInv'
    BY <1>13 DEF BeatInv, HeartbeatBlocks, HeartbeatFails, Stall, Resume, TypeOK
  <2> QED
    BY <1>0, <1>13, <2>1, <2>2, InvSameRows
       DEF HeartbeatBlocks, HeartbeatFails, Stall, Resume
<1>14. CASE Restart(w)
  <2>1. LockInv' /\ ExecInv' /\ BeatInv'
    BY <1>14 DEF LockInv, ExecInv, BeatInv, Restart, Executing, Recording, TypeOK
  <2> QED
    BY <1>0, <1>14, <2>1, InvSameRows DEF Restart
<1> QED
  BY <1>1, <1>2, <1>3, <1>4, <1>5, <1>6, <1>7, <1>8, <1>9, <1>10, <1>11, <1>12, <1>13, <1>14
     DEF WorkerStep, ClaimStep, RunStep, RecordStep, RecordFault, Beat, ProcessFault

\* A reaper scan preserves the inductive invariant.
LEMMA InvReap ==
  ASSUME IInv, ReapStep
  PROVE  IInv'
<1> PICK Z \in SUBSET Runs : Reap(Z)
  BY DEF ReapStep
<1> USE DEF IInv
<1>0. TypeOK'
  BY TypeReap
<1>1. \A r \in Runs :
        /\ run[r] \in Row
        /\ run'[r].worker = run[r].worker /\ run'[r].age = run[r].age
        /\ run'[r].cancel = run[r].cancel
        /\ run'[r].downstream = run[r].downstream /\ run'[r].retryOf = run[r].retryOf
        /\ \/ run'[r].status = run[r].status
           \/ run[r].status = "running" /\ run'[r].status = "failed"
  BY ReapedRowFacts DEF Reap, Stale, TypeOK
<1>2. UNCHANGED <<lock, pc, held, outcome, hb, timer, steady, stalled, call>>
  BY DEF Reap, sessionVars, beatVars
<1>3. LockInv'
  BY <1>1, <1>2 DEF LockInv, TypeOK
<1>4. RowInv'
  BY <1>1 DEF RowInv, Waiting
<1>5. ExecInv'
  BY <1>1, <1>2 DEF ExecInv, Executing, Waiting, TypeOK
<1>6. CallInv'
  BY <1>1, <1>2 DEF CallInv, Terminal
<1>7. BeatInv'
  BY <1>1, <1>2 DEF BeatInv, TypeOK
<1>8. DownstreamIffSucceeded'
  BY <1>1, KindsAssumption DEF DownstreamIffSucceeded
<1>9. RetryOfEnded'
  BY <1>1, RowFields DEF RetryOfEnded, Terminal
<1> QED
  BY <1>0, <1>3, <1>4, <1>5, <1>6, <1>7, <1>8, <1>9

\* The passing of time preserves the inductive invariant.
LEMMA InvTick ==
  ASSUME IInv, Tick
  PROVE  IInv'
<1> USE DEF IInv
<1>0. TypeOK'
  BY TypeTick
<1>1. \A r \in Runs :
        /\ run'[r].status = run[r].status /\ run'[r].worker = run[r].worker
        /\ run'[r].cancel = run[r].cancel
        /\ run'[r].downstream = run[r].downstream /\ run'[r].retryOf = run[r].retryOf
        /\ run'[r].age \in {run[r].age, run[r].age + 1}
  BY AgedRowFacts DEF Tick, TypeOK
<1>2. UNCHANGED <<lock, pc, held, outcome, hb, steady, stalled, call>>
  BY DEF Tick, sessionVars
<1>3. LockInv' /\ RowInv' /\ CallInv'
  BY <1>1, <1>2 DEF LockInv, RowInv, CallInv, TypeOK
<1>4. ExecInv'
  BY <1>1, <1>2 DEF ExecInv, Executing, TypeOK
<1>5. BeatInv'
  <2> SUFFICES ASSUME NEW w \in Workers, steady[w], hb[w] = "sleeping"
               PROVE  run'[held[w]].age <= timer'[w]
    BY <1>2 DEF BeatInv
  <2>1. held[w] \in Runs /\ ~stalled[w] /\ run[held[w]].age <= timer[w]
    BY DEF BeatInv, TypeOK
  <2>2. timer[w] < Interval
    BY <2>1, TimingAssumption DEF Tick, Due, TypeOK
  <2>3. timer'[w] = timer[w] + 1
    BY <2>2 DEF Tick
  <2>4. run[held[w]].age \in Int /\ timer[w] \in Int
    BY <2>1, RowFields, TimingAssumption DEF TypeOK
  <2> QED
    BY <1>1, <2>1, <2>3, <2>4
<1>6. DownstreamIffSucceeded' /\ RetryOfEnded'
  BY <1>1, KindsAssumption, RowFields DEF DownstreamIffSucceeded, RetryOfEnded, TypeOK
<1> QED
  BY <1>0, <1>3, <1>4, <1>5, <1>6

\* Every step of the system preserves the inductive invariant.
LEMMA InvStep == IInv /\ [Next]_vars => IInv'
<1> SUFFICES ASSUME IInv, [Next]_vars PROVE IInv'
  OBVIOUS
<1>1. CASE UNCHANGED vars
  <2>1. TypeOK'
    BY <1>1, TypeStep DEF IInv
  <2> QED
    BY <1>1, <2>1 DEF IInv, vars, LockInv, RowInv, ExecInv, CallInv, BeatInv,
                      DownstreamIffSucceeded, RetryOfEnded, Executing
<1> QED
  BY <1>1, InvApi, InvWorker, InvReap, InvTick DEF Next

\* The inductive invariant holds in every reachable state.
THEOREM Invariant == Spec => []IInv
  BY InvInit, InvStep, PTL DEF Spec

-----------------------------------------------------------------------------
(***************************************************************************)
(* Safety                                                                  *)
(***************************************************************************)
\* No two workers execute the same run: its row names one executor.
THEOREM OneExecutor == Spec => []OneExecutorPerRun
<1>1. IInv => OneExecutorPerRun
  BY DEF IInv, ExecInv, OneExecutorPerRun
<1> QED
  BY <1>1, Invariant, PTL

\* Downstream runs are enqueued once, with the success they belong to.
THEOREM DownstreamOnce == Spec => []DownstreamIffSucceeded
<1>1. IInv => DownstreamIffSucceeded
  BY DEF IInv
<1> QED
  BY <1>1, Invariant, PTL

\* The reaper cannot see a run with a steady heartbeat as stale: the timeout
\* exceeds the interval (TimingAssumption).
THEOREM HonestRunsSurvive == Spec => []HonestRunNotReaped
<1>1. IInv => HonestRunNotReaped
  <2> SUFFICES ASSUME IInv, NEW w \in Workers, steady[w], hb[w] = "sleeping",
                      held[w] \in Stale
               PROVE  FALSE
    BY DEF HonestRunNotReaped
  <2>1. run[held[w]].age <= timer[w] /\ timer[w] \in 0..Interval
    BY DEF IInv, BeatInv, TypeOK
  <2>2. run[held[w]].age = ReapAfter
    BY DEF Stale
  <2> QED
    BY <2>1, <2>2, TimingAssumption
<1> QED
  BY <1>1, Invariant, PTL

\* Only runs that have ended are retried, and they do not come back.
THEOREM RetriesAreOfEnded == Spec => []RetryOfEnded
<1>1. IInv => RetryOfEnded
  BY DEF IInv
<1> QED
  BY <1>1, Invariant, PTL

-----------------------------------------------------------------------------
(***************************************************************************)
(* What a step may do to a row                                             *)
(***************************************************************************)
Kept(r) == run'[r].status = run[r].status /\ run'[r].worker = run[r].worker
Queued(r) == run[r].status = "none" /\ run'[r].status = "pending" /\ run'[r].worker = NoWorker
Claimed(r, w) == run[r].status = "pending" /\ run'[r].status = "running" /\ run'[r].worker = w
Discarded(r) ==
  run[r].status = "pending" /\ run'[r].status = "cancelled" /\ run'[r].worker = run[r].worker
Ended(r) ==
  /\ run[r].status \notin Waiting /\ run'[r].status \in Terminal
  /\ run'[r].worker = run[r].worker
  /\ \/ run[r].status = "running"               \* by the reaper
     \/ run'[r].status = "cancelled"             \* by a cancel request
     \/ \E w \in Workers : held[w] = r          \* by its executor

\* One row is queued, claimed or discarded and the others are kept, or rows
\* that have been claimed are ended.
RowsMove ==
  \/ \E r \in Runs : /\ Queued(r) \/ Discarded(r) \/ \E w \in Workers : Claimed(r, w)
                     /\ \A q \in Runs \ {r} : Kept(q)
  \/ \A r \in Runs : Kept(r) \/ Ended(r)

\* How a step may move the rows: each is kept, claimed, discarded, queued or ended.
LEMMA MoveStep == IInv /\ [Next]_vars => RowsMove
<1> SUFFICES ASSUME IInv, [Next]_vars PROVE RowsMove
  OBVIOUS
<1> USE DEF IInv
<1>1. CASE UNCHANGED run
  BY <1>1 DEF RowsMove, Kept
<1>2. ASSUME NEW r \in Runs, NEW o \in Runs \cup {NoRun}, run[r].status = "none",
             run' = [run EXCEPT ![r] = PendingRow(o)]
      PROVE  RowsMove
  BY <1>2, PendingRowFacts DEF RowsMove, Kept, Queued, TypeOK
<1>3. ASSUME NEW c \in Calls, CommitCancel(c) PROVE RowsMove
  <2> DEFINE r == call[c].run
             new == CancelledRow(run[r], call[c].seen)
  <2>1. /\ run' = [run EXCEPT ![r] = new] /\ r \in Runs /\ run[r] \in Row
        /\ run[r].status # "none"
    BY <1>3 DEF CommitCancel, CallInv, TypeOK
  <2>2. new.status \in {run[r].status, "cancelled"} /\ new.worker = run[r].worker
    BY <2>1, CancelledRowFacts
  <2> HIDE DEF new
  <2> QED
    BY <2>1, <2>2 DEF RowsMove, Kept, Discarded, Ended, Waiting, Terminal, TypeOK
<1>4. ASSUME NEW w \in Workers, ClaimCommit(w) PROVE RowsMove
  <2> DEFINE r == held[w]
             new == ClaimedRow(run[r], w)
  <2>1. /\ run' = [run EXCEPT ![r] = new] /\ r \in Runs /\ run[r] \in Row
        /\ run[r].status = "pending"
    BY <1>4 DEF ClaimCommit, LockInv, TypeOK
  <2>2. new.status = "running" /\ new.worker = w
    BY <2>1, ClaimedRowFacts
  <2> HIDE DEF new
  <2> QED
    BY <2>1, <2>2 DEF RowsMove, Kept, Claimed, TypeOK
<1>5. ASSUME NEW w \in Workers, CommitOutcome(w) PROVE RowsMove
  <2> DEFINE r == held[w]
             o == outcome[w]
             new == RecordedRow(run[r], o, Triggered(r, o))
  <2>1. /\ run' = [run EXCEPT ![r] = new] /\ r \in Runs /\ run[r] \in Row
        /\ o \in Terminal /\ run[r].status \notin Waiting
    BY <1>5 DEF CommitOutcome, ExecInv, Executing, Recording, TypeOK
  <2>2. Triggered(r, o) \in Nat /\ o \in Status
    BY <2>1 DEF Triggered, Status
  <2>3. new.status = o /\ new.worker = run[r].worker
    BY <2>1, <2>2, RecordedRowFacts
  <2> HIDE DEF new
  <2> QED
    BY <2>1, <2>3 DEF RowsMove, Kept, Ended, TypeOK
<1>6. ASSUME NEW w \in Workers, Heartbeat(w) PROVE RowsMove
  <2>1. \A r \in Runs : Kept(r)
    BY <1>6, StampedRowFacts DEF Heartbeat, BeatInv, TypeOK, Kept
  <2> QED
    BY <2>1 DEF RowsMove
<1>7. CASE ReapStep
  <2> PICK Z \in SUBSET Runs : Reap(Z)
    BY <1>7 DEF ReapStep
  <2>1. \A r \in Runs : Kept(r) \/ Ended(r)
    BY ReapedRowFacts DEF Reap, Stale, TypeOK, Kept, Ended, Waiting, Terminal
  <2> QED
    BY <2>1 DEF RowsMove
<1>8. CASE Tick
  <2>1. \A r \in Runs : Kept(r)
    BY <1>8, AgedRowFacts DEF Tick, TypeOK, Kept
  <2> QED
    BY <2>1 DEF RowsMove
<1>9. CASE ApiStep
  <2>1. ASSUME NEW r \in Runs, Enqueue(r) PROVE RowsMove
    BY <2>1, <1>2 DEF Enqueue
  <2>2. ASSUME NEW c \in Calls, NEW r \in Runs, CommitRetry(c, r) PROVE RowsMove
    BY <2>2, <1>2 DEF CommitRetry, TypeOK
  <2>3. ASSUME NEW c \in Calls, NEW r \in Runs, BeginCancel(c, r) \/ BeginRetry(c, r)
        PROVE  RowsMove
    BY <2>3, <1>1 DEF BeginCancel, BeginRetry, queueVars
  <2>4. ASSUME NEW c \in Calls, AbortCall(c) PROVE RowsMove
    BY <2>4, <1>1 DEF AbortCall, queueVars
  <2> QED
    BY <1>3, <1>9, <2>1, <2>2, <2>3, <2>4 DEF ApiStep
<1>10. ASSUME NEW w \in Workers, WorkerStep(w) PROVE RowsMove
  <2>1. \/ UNCHANGED run
        \/ ClaimCommit(w) \/ CommitOutcome(w) \/ Heartbeat(w)
    BY <1>10 DEF WorkerStep, ClaimStep, RunStep, RecordStep, RecordFault, Beat, ProcessFault,
         ClaimLock, ClaimFails, StartExecute, ExecuteRaises, BuildFails, BuildOk, PipelineDone,
         FlushRow, FlushFails, StopHeartbeat, CommitLost, CommitFails, HeartbeatBlocks,
         HeartbeatFails, Crash, Restart, Stall, Resume, queueVars
  <2> QED
    BY <1>1, <1>4, <1>5, <1>6, <2>1
<1>11. CASE UNCHANGED vars
  BY <1>1, <1>11 DEF vars
<1> QED
  BY <1>7, <1>8, <1>9, <1>10, <1>11 DEF Next

\* A run is handed to at most one worker and never returns to the queue.
THEOREM AtMostOneClaim == Spec => ClaimedAtMostOnce
<1>1. IInv /\ [Next]_vars =>
        [\A r \in Runs :
           /\ run[r].worker # NoWorker => run'[r].worker = run[r].worker
           /\ run[r].status \notin {"none", "pending"} => run'[r].status \notin {"none", "pending"}]_vars
  <2> SUFFICES ASSUME IInv, RowsMove, NEW r \in Runs
               PROVE  /\ run[r].worker # NoWorker => run'[r].worker = run[r].worker
                      /\ run[r].status \notin Waiting => run'[r].status \notin Waiting
    BY MoveStep DEF Waiting
  <2>1. run[r].status \in Waiting => run[r].worker = NoWorker
    BY DEF IInv, RowInv
  <2> QED
    BY <2>1 DEF RowsMove, Kept, Queued, Claimed, Discarded, Ended, Waiting, Terminal
<1> QED
  BY <1>1, Invariant, PTL DEF Spec, ClaimedAtMostOnce

\* A cancel that lands before any claim is final: the row keeps its status and
\* no worker comes to hold the run.
THEOREM CancelBeforeClaim == Spec => CancelBeforeClaimIsFinal
<1>1. IInv /\ [Next]_vars =>
        [\A r \in Runs :
           run[r].status = "cancelled" /\ run[r].worker = NoWorker =>
             /\ run'[r].status = "cancelled"
             /\ \A w \in Workers : held'[w] # r]_vars
  <2> SUFFICES ASSUME IInv, [Next]_vars, NEW r \in Runs,
                      run[r].status = "cancelled", run[r].worker = NoWorker
               PROVE  /\ run'[r].status = "cancelled"
                      /\ \A w \in Workers : held'[w] # r
    OBVIOUS
  <2> USE DEF IInv
  <2>1. \A w \in Workers : held[w] # r
    <3> SUFFICES ASSUME NEW w \in Workers, held[w] = r PROVE FALSE
      OBVIOUS
    <3>1. pc[w] = "claiming" \/ Executing(w)
      BY RunsAssumption DEF TypeOK, PcValues, Executing
    <3> QED
      BY <3>1, WorkersAssumption DEF LockInv, ExecInv
  <2>2. \A w \in Workers : held'[w] # r
    <3> SUFFICES ASSUME NEW w \in Workers, held'[w] # held[w] PROVE held'[w] # r
      BY <2>1
    <3>1. \E v \in Workers : WorkerStep(v)
      BY DEF Next, vars, ApiStep, Enqueue, BeginCancel, BeginRetry, CommitCancel, CommitRetry,
             AbortCall, ReapStep, Reap, Tick, sessionVars
    <3> PICK v \in Workers : WorkerStep(v)
      BY <3>1
    <3>2. \/ \E q \in Runs : ClaimLock(v, q)
          \/ held' = [held EXCEPT ![v] = NoRun]
      BY DEF WorkerStep, ClaimStep, RunStep, RecordStep, RecordFault, Beat, ProcessFault,
         ClaimCommit, ClaimFails, StartExecute, ExecuteRaises, BuildFails, BuildOk, PipelineDone,
         FlushRow, FlushFails, StopHeartbeat, CommitOutcome, CommitLost, CommitFails, Heartbeat,
         HeartbeatBlocks, HeartbeatFails, Crash, Restart, Stall, Resume, Forget, sessionVars
    <3> QED
      BY <2>1, <3>2, RunsAssumption DEF ClaimLock, Claimable, TypeOK
  <2>3. run'[r].status = "cancelled"
    <3>1. RowsMove
      BY MoveStep
    <3>2. Kept(r) \/ Ended(r)
      BY <3>1 DEF RowsMove, Queued, Discarded, Claimed
    <3> QED
      BY <2>1, <3>2 DEF Kept, Ended
  <2> QED
    BY <2>2, <2>3
<1> QED
  BY <1>1, Invariant, PTL DEF Spec, CancelBeforeClaimIsFinal

-----------------------------------------------------------------------------
(***************************************************************************)
(* RunQueue implements RunLifecycle                                        *)
(***************************************************************************)
\* An initial state of the queue is one of the lifecycle.
LEMMA LifecycleStart == Init => Lifecycle!LifecycleInit
BY NoRowFacts DEF Init, Lifecycle!LifecycleInit, PhaseOf

\* Every step of the queue is a step of the lifecycle or a stutter.
LEMMA LifecycleStep == IInv /\ [Next]_vars => [Lifecycle!LifecycleNext]_(Lifecycle!lifecycleVars)
<1> SUFFICES ASSUME IInv, RowsMove
             PROVE  [Lifecycle!LifecycleNext]_(Lifecycle!lifecycleVars)
  BY MoveStep
<1> DEFINE phase == [r \in Runs |-> PhaseOf(run[r].status)]
           starter == [r \in Runs |-> run[r].worker]
<1> USE DEF IInv
<1>1. \A r \in Runs : run[r] \in Row
  BY DEF TypeOK
<1>2. ASSUME NEW r \in Runs, Queued(r), \A q \in Runs \ {r} : Kept(q)
      PROVE  Lifecycle!Queue(r)
  <2>1. run[r].worker = NoWorker
    BY <1>2 DEF RowInv, Queued, Waiting
  <2> QED
    BY <1>2, <2>1 DEF Lifecycle!Queue, Queued, Kept, PhaseOf
<1>3. ASSUME NEW r \in Runs, Discarded(r), \A q \in Runs \ {r} : Kept(q)
      PROVE  Lifecycle!Discard(r)
  BY <1>3 DEF Lifecycle!Discard, Discarded, Kept, PhaseOf
<1>4. ASSUME NEW r \in Runs, NEW w \in Workers, Claimed(r, w), \A q \in Runs \ {r} : Kept(q)
      PROVE  Lifecycle!Start(r, w)
  BY <1>4 DEF Lifecycle!Start, Claimed, Kept, PhaseOf
<1>5. ASSUME \A r \in Runs : Kept(r) \/ Ended(r)
      PROVE  [Lifecycle!LifecycleNext]_(Lifecycle!lifecycleVars)
  <2> DEFINE S == {r \in Runs : run[r].status = "running" /\ ~Kept(r)}
  <2>1. \A r \in S : phase[r] = "started"
    BY DEF PhaseOf
  <2>2. \A r \in Runs : PhaseOf(run'[r].status) = IF r \in S THEN "ended" ELSE phase[r]
    BY <1>1, <1>5, RowFields DEF Kept, Ended, PhaseOf, Status, Waiting, Terminal
  <2>3. \A r \in Runs : run'[r].worker = run[r].worker
    BY <1>5 DEF Kept, Ended
  <2>4. Lifecycle!End(S)
    BY <2>1, <2>2, <2>3 DEF Lifecycle!End
  <2> QED
    BY <2>4 DEF Lifecycle!LifecycleNext
<1> QED
  BY <1>2, <1>3, <1>4, <1>5 DEF RowsMove, Lifecycle!LifecycleNext

\* The queue, with its races, crashes and zombies, hands out every run at most
\* once and never takes one back: it implements RunLifecycle.
THEOREM Refinement == Spec => ImplementsLifecycle
  BY LifecycleStart, LifecycleStep, Invariant, PTL
     DEF Spec, ImplementsLifecycle, Lifecycle!LifecycleSpec
=============================================================================
