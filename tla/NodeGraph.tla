------------------------------ MODULE NodeGraph ------------------------------
(***************************************************************************)
(* Node-level execution of one graph run: the wave loop of                 *)
(* execute_graph_nodes_concurrent, the coroutine and thread of each node,  *)
(* the callbacks that commit node_runs rows while it goes on, the cancel   *)
(* event the heartbeat sets, and the verdict the executor draws from it.   *)
(*                                                                         *)
(* Nodes are numbered so that edges go up, which every acyclic graph       *)
(* allows.  Records, connectors and edge predicates are left out: a node   *)
(* is broken if executing it on its inputs raises.                         *)
(***************************************************************************)
EXTENDS Integers, FiniteSets

CONSTANTS
  Nodes,      \* node ids, topologically numbered
  MaxFaults   \* bound on callbacks and predicates that raise

ASSUME NodesAssumption == Nodes \subseteq Nat /\ IsFiniteSet(Nodes)
ASSUME FaultsAssumption == MaxFaults \in Nat

VARIABLES
  graph,      \* the edges <<from, to>>; fixed by the pipeline version
  broken,     \* the nodes whose execution raises; fixed
  phase,      \* where the wave loop is
  visit,      \* nodes its current pass over list(remaining) has yet to reach
  remaining,  \* nodes that were neither run nor skipped
  deps,       \* pending_deps: upstreams that have not completed a wave
  outcome,    \* per-node outcomes
  task,       \* each node's coroutine
  row,        \* node_runs.status
  rowDeps,    \* node_runs.pending_deps
  cancel,     \* cancel_event
  late,       \* history: waves started while cancel was set
  result,     \* the verdict execute() records on the run
  faults      \* faults so far

inputs == <<graph, broken>>
loopVars == <<phase, visit, remaining, deps>>
rowVars == <<row, rowDeps>>
vars == <<inputs, loopVars, outcome, task, rowVars, cancel, late, result, faults>>

-----------------------------------------------------------------------------
Graphs == SUBSET {e \in Nodes \X Nodes : e[1] < e[2]}
Phases == {"check", "sweep", "cancelling", "wave", "returned", "raised"}
NodeOutcomes == {"none", "succeeded", "failed", "skipped"}
TaskStates == {"idle", "starting", "thread", "reporting", "done"}
RowStatus == {"pending", "running", "succeeded", "failed", "cancelled"}
Results == {"none", "succeeded", "failed", "cancelled"}

TypeOK ==
  /\ graph \in Graphs
  /\ broken \in SUBSET Nodes
  /\ phase \in Phases
  /\ visit \in SUBSET remaining
  /\ remaining \in SUBSET Nodes
  /\ deps \in [Nodes -> Nat]
  /\ outcome \in [Nodes -> NodeOutcomes]
  /\ task \in [Nodes -> TaskStates]
  /\ row \in [Nodes -> RowStatus]
  /\ rowDeps \in [Nodes -> Nat]
  /\ cancel \in BOOLEAN
  /\ late \in Nat
  /\ result \in Results
  /\ faults \in 0..MaxFaults

-----------------------------------------------------------------------------
Up(n) == {u \in Nodes : <<u, n>> \in graph}
Down(n) == {d \in Nodes : <<n, d>> \in graph}

\* Failed or skipped: the descendants skip.
Blocked == {n \in Nodes : outcome[n] \in {"failed", "skipped"}}
HasBlockedUpstream(n) == Up(n) \cap Blocked # {}

\* Mutant of Ready: nodes whose upstreams are still to run are let through.
Ready_IgnoringCounter == remaining
Ready == {n \in remaining : deps[n] = 0}

\* The nodes the current gather was started with.
Wave == {n \in remaining : task[n] # "idle"}

\* The status on_node_finish writes for an outcome.
RowOf(o) == CASE o = "succeeded" -> "succeeded"
              [] o = "failed" -> "failed"
              [] o = "skipped" -> "cancelled"

\* Mutant of ReleasedRows: failed nodes release their downstreams too.
ReleasedRows_OnFailure(n) ==
  [d \in Nodes |-> IF d \in Down(n) /\ row[d] = "pending" THEN rowDeps[d] - 1 ELSE rowDeps[d]]

\* set_succeeded decrements pending_deps of the pending rows that depend on n.
ReleasedRows(n) ==
  [d \in Nodes |-> IF outcome[n] = "succeeded" /\ d \in Down(n) /\ row[d] = "pending"
                     THEN rowDeps[d] - 1 ELSE rowDeps[d]]

\* What execute() makes of the outcomes it was returned.
Verdict ==
  IF \E n \in Nodes : outcome[n] = "failed" THEN "failed"
  ELSE IF cancel THEN "cancelled" ELSE "succeeded"

Fault == faults < MaxFaults /\ faults' = faults + 1

\* A coroutine of the current wave raises: gather passes the exception on at
\* once and leaves the other coroutines running.
GatherRaises == phase' = IF phase = "wave" THEN "raised" ELSE phase

-----------------------------------------------------------------------------
\* One pending node_run per node is committed before the loop starts.
Init ==
  /\ graph \in Graphs
  /\ broken \in SUBSET Nodes
  /\ phase = "check"
  /\ visit = {}
  /\ remaining = Nodes
  /\ deps = [n \in Nodes |-> Cardinality(Up(n))]
  /\ outcome = [n \in Nodes |-> "none"]
  /\ task = [n \in Nodes |-> "idle"]
  /\ row = [n \in Nodes |-> "pending"]
  /\ rowDeps = [n \in Nodes |-> Cardinality(Up(n))]
  /\ cancel = FALSE
  /\ late = 0
  /\ result = "none"
  /\ faults = 0

-----------------------------------------------------------------------------
(***************************************************************************)
(* The wave loop                                                           *)
(***************************************************************************)
\* Mutants of Boundary: the cancel event is not looked at, and a cancelled
\* run marks every node.
Boundary_IgnoresCancel ==
  /\ phase = "check"
  /\ phase' = IF remaining = {} THEN "returned" ELSE "sweep"
  /\ visit' = remaining
  /\ UNCHANGED <<inputs, remaining, deps, outcome, task, rowVars, cancel, late, result, faults>>
Boundary_MarksAll ==
  /\ phase = "check"
  /\ phase' = IF remaining = {} THEN "returned" ELSE IF cancel THEN "cancelling" ELSE "sweep"
  /\ visit' = IF cancel THEN Nodes ELSE remaining
  /\ UNCHANGED <<inputs, remaining, deps, outcome, task, rowVars, cancel, late, result, faults>>

\* while remaining: the wave boundary, where the cancel event is looked at.
Boundary ==
  /\ phase = "check"
  /\ phase' = IF remaining = {} THEN "returned" ELSE IF cancel THEN "cancelling" ELSE "sweep"
  /\ visit' = remaining
  /\ UNCHANGED <<inputs, remaining, deps, outcome, task, rowVars, cancel, late, result, faults>>

\* The pass gives n the outcome skipped and drops it from remaining.
MarkSkipped(n) ==
  /\ outcome' = [outcome EXCEPT ![n] = "skipped"]
  /\ remaining' = remaining \ {n}
  /\ visit' = visit \ {n}

\* Mutant of SweepSkips: on_node_finish is not called.
SweepSkips_Silent(n) ==
  /\ phase = "sweep" /\ n \in visit
  /\ HasBlockedUpstream(n)
  /\ MarkSkipped(n)
  /\ UNCHANGED <<inputs, phase, deps, task, rowVars, cancel, late, result, faults>>

\* The skip pass reaches n, in the order of list(remaining): any order.
SweepSkips(n) ==
  /\ phase = "sweep" /\ n \in visit
  /\ HasBlockedUpstream(n)
  /\ MarkSkipped(n)
  /\ row' = [row EXCEPT ![n] = RowOf("skipped")]
  /\ UNCHANGED <<inputs, phase, deps, task, rowDeps, cancel, late, result, faults>>

SweepPasses(n) ==
  /\ phase = "sweep" /\ n \in visit
  /\ ~HasBlockedUpstream(n)
  /\ visit' = visit \ {n}
  /\ UNCHANGED <<inputs, phase, remaining, deps, outcome, task, rowVars, cancel, late, result, faults>>

\* _mark_remaining_skipped after a cancel.
CancelSkips(n) ==
  /\ phase = "cancelling" /\ n \in visit
  /\ MarkSkipped(n)
  /\ row' = [row EXCEPT ![n] = RowOf("skipped")]
  /\ UNCHANGED <<inputs, phase, deps, task, rowDeps, cancel, late, result, faults>>

\* The callback of a skipped node raises: the exception leaves the loop.
SkipRaises(n) ==
  /\ \/ phase = "sweep" /\ HasBlockedUpstream(n)
     \/ phase = "cancelling"
  /\ n \in visit
  /\ Fault
  /\ MarkSkipped(n)
  /\ phase' = "raised"
  /\ UNCHANGED <<inputs, deps, task, rowVars, cancel, late, result>>

\* The pass is over: gather the ready nodes.
StartWave ==
  /\ phase = "sweep" /\ visit = {}
  /\ Ready # {}
  /\ task' = [n \in Nodes |-> IF n \in Ready THEN "starting" ELSE task[n]]
  /\ phase' = "wave"
  /\ late' = IF cancel THEN late + 1 ELSE late
  /\ UNCHANGED <<inputs, visit, remaining, deps, outcome, rowVars, cancel, result, faults>>

\* break: nothing is ready, or every remaining node was marked.
LeaveLoop ==
  /\ visit = {}
  /\ \/ phase = "cancelling"
     \/ phase = "sweep" /\ Ready = {}
  /\ phase' = "returned"
  /\ UNCHANGED <<inputs, visit, remaining, deps, outcome, task, rowVars, cancel, late, result, faults>>

\* Mutant of EndWave: the counters of the downstream nodes are left alone.
EndWave_NoRelease ==
  /\ phase = "wave"
  /\ \A n \in Wave : task[n] = "done"
  /\ remaining' = remaining \ Wave
  /\ phase' = "check"
  /\ UNCHANGED <<inputs, visit, deps, outcome, task, rowVars, cancel, late, result, faults>>

\* gather returns when every coroutine has: the wave releases its downstreams.
EndWave ==
  /\ phase = "wave"
  /\ \A n \in Wave : task[n] = "done"
  /\ remaining' = remaining \ Wave
  /\ deps' = [d \in Nodes |-> deps[d] - Cardinality(Up(d) \cap Wave)]
  /\ phase' = "check"
  /\ UNCHANGED <<inputs, visit, outcome, task, rowVars, cancel, late, result, faults>>

-----------------------------------------------------------------------------
(***************************************************************************)
(* A node: _run_one.  Its coroutine outlives the loop when gather raises.  *)
(***************************************************************************)
\* on_node_start commits running; the node goes to its thread.
NodeStarts(n) ==
  /\ task[n] = "starting"
  /\ task' = [task EXCEPT ![n] = "thread"]
  /\ row' = [row EXCEPT ![n] = "running"]
  /\ UNCHANGED <<inputs, loopVars, outcome, rowDeps, cancel, late, result, faults>>

\* on_node_start raises.
StartRaises(n) ==
  /\ task[n] = "starting"
  /\ Fault
  /\ task' = [task EXCEPT ![n] = "done"]
  /\ GatherRaises
  /\ UNCHANGED <<inputs, visit, remaining, deps, outcome, rowVars, cancel, late, result>>

\* An edge predicate raises: it is evaluated outside the try.
PredicateRaises(n) ==
  /\ task[n] = "starting"
  /\ Fault
  /\ task' = [task EXCEPT ![n] = "done"]
  /\ row' = [row EXCEPT ![n] = "running"]
  /\ GatherRaises
  /\ UNCHANGED <<inputs, visit, remaining, deps, outcome, rowDeps, cancel, late, result>>

\* Mutant of NodeFinishes: the exception of a broken node is lost.
NodeFinishes_SwallowsError(n) ==
  /\ task[n] = "thread"
  /\ task' = [task EXCEPT ![n] = "reporting"]
  /\ outcome' = [outcome EXCEPT ![n] = "succeeded"]
  /\ UNCHANGED <<inputs, loopVars, rowVars, cancel, late, result, faults>>

\* The thread returns or raises; the outcome is recorded.
NodeFinishes(n) ==
  /\ task[n] = "thread"
  /\ task' = [task EXCEPT ![n] = "reporting"]
  /\ outcome' = [outcome EXCEPT ![n] = IF n \in broken THEN "failed" ELSE "succeeded"]
  /\ UNCHANGED <<inputs, loopVars, rowVars, cancel, late, result, faults>>

\* on_node_finish commits the outcome.
NodeReports(n) ==
  /\ task[n] = "reporting"
  /\ task' = [task EXCEPT ![n] = "done"]
  /\ row' = [row EXCEPT ![n] = RowOf(outcome[n])]
  /\ rowDeps' = ReleasedRows(n)
  /\ UNCHANGED <<inputs, loopVars, outcome, cancel, late, result, faults>>

\* on_node_finish raises.
ReportRaises(n) ==
  /\ task[n] = "reporting"
  /\ Fault
  /\ task' = [task EXCEPT ![n] = "done"]
  /\ GatherRaises
  /\ UNCHANGED <<inputs, visit, remaining, deps, outcome, rowVars, cancel, late, result>>

-----------------------------------------------------------------------------
(***************************************************************************)
(* The executor around the loop                                            *)
(***************************************************************************)
\* The heartbeat task reads cancel_requested_at and sets the event.
HeartbeatSeesCancel ==
  /\ ~cancel /\ result = "none"
  /\ cancel' = TRUE
  /\ UNCHANGED <<inputs, loopVars, outcome, task, rowVars, late, result, faults>>

\* Mutant of Conclude: an exception of the loop is not caught.
Conclude_Uncaught ==
  /\ phase = "returned" /\ result = "none"
  /\ result' = Verdict
  /\ UNCHANGED <<inputs, loopVars, outcome, task, rowVars, cancel, late, faults>>

\* execute() draws its verdict; an exception is a failure.
Conclude ==
  /\ phase \in {"returned", "raised"} /\ result = "none"
  /\ result' = IF phase = "raised" THEN "failed" ELSE Verdict
  /\ UNCHANGED <<inputs, loopVars, outcome, task, rowVars, cancel, late, faults>>

-----------------------------------------------------------------------------
LoopStep ==
  \/ Boundary \/ StartWave \/ LeaveLoop \/ EndWave \/ Conclude
  \/ \E n \in Nodes : SweepSkips(n) \/ SweepPasses(n) \/ CancelSkips(n)

NodeStep(n) == NodeStarts(n) \/ NodeFinishes(n) \/ NodeReports(n)
NodeFault(n) == SkipRaises(n) \/ StartRaises(n) \/ PredicateRaises(n) \/ ReportRaises(n)

\* Everything has stopped: the run has its verdict and no coroutine is left.
Finished ==
  /\ result # "none" /\ \A n \in Nodes : task[n] \in {"idle", "done"}
  /\ UNCHANGED vars

Next ==
  \/ LoopStep \/ HeartbeatSeesCancel \/ Finished
  \/ \E n \in Nodes : NodeStep(n) \/ NodeFault(n)

Spec == Init /\ [][Next]_vars

\* The event loop runs what is runnable and a node's thread comes to an end.
FairSpec == Spec /\ WF_vars(LoopStep) /\ \A n \in Nodes : WF_vars(NodeStep(n))

-----------------------------------------------------------------------------
(***************************************************************************)
(* Properties                                                              *)
(***************************************************************************)
\* What execute_graph_nodes, the sequential engine, makes of each node.
Sequential[n \in Nodes] ==
  IF \E u \in Up(n) : Sequential[u] # "succeeded" THEN "skipped"
  ELSE IF n \in broken THEN "failed" ELSE "succeeded"

\* A node is started only after all its upstreams have succeeded, though what
\* starts it is a counter of completed ones and a pass that may visit a node
\* before the upstream that is about to be skipped.
RunsAfterUpstreams ==
  \A n \in Nodes : task[n] # "idle" => \A u \in Up(n) : outcome[u] = "succeeded"

\* Whatever the interleaving, a node's outcome is the one the sequential
\* engine gives it; only a cancel may skip nodes it would have run.
AgreesWithSequential ==
  \A n \in Nodes : outcome[n] # "none" =>
    outcome[n] = Sequential[n] \/ (cancel /\ outcome[n] = "skipped")

\* A run is recorded as succeeded only if every node has, and as failed
\* without any fault around it only if the sequential engine would fail too.
VerdictIsHonest ==
  /\ result = "succeeded" => \A n \in Nodes : outcome[n] = "succeeded"
  /\ result = "failed" /\ faults = 0 => \E n \in Nodes : Sequential[n] = "failed"
  /\ result = "cancelled" => cancel

\* A node_run only moves forward, also when its coroutine outlives the loop.
RowsAdvance ==
  [][\A n \in Nodes :
       \/ row'[n] = row[n]
       \/ row[n] = "pending" /\ row'[n] \in {"running", "cancelled"}
       \/ row[n] = "running" /\ row'[n] \in {"succeeded", "failed"}]_vars

\* pending_deps of a pending row counts the upstream rows that have not
\* succeeded, so that 0 means ready to whoever claims node_runs.
RowsCountUpstreams ==
  \A n \in Nodes : row[n] = "pending" =>
    rowDeps[n] = Cardinality({u \in Up(n) : row[u] # "succeeded"})

\* A cancel lands at the next wave boundary: at most the wave whose boundary
\* had been passed still starts.
CancelLandsAtBoundary == late <= 1

\* The rows of a run that ended with nothing raising say what happened.
RowsTellOutcomes ==
  result # "none" /\ faults = 0 =>
    \A n \in Nodes : row[n] = IF outcome[n] = "none" THEN "pending" ELSE RowOf(outcome[n])

\* The loop ends and no coroutine is left behind.
RunConcludes ==
  <>(result # "none" /\ \A n \in Nodes : task[n] \in {"idle", "done"})

\* What the docstring says and the code does not do: "a node whose upstream
\* failed/skipped is itself skipped".  When the loop returns every node has an
\* outcome.
EveryNodeHasOutcome ==
  phase = "returned" => \A n \in Nodes : outcome[n] # "none"
=============================================================================
