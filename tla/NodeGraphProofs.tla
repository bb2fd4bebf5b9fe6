--------------------------- MODULE NodeGraphProofs ---------------------------
(***************************************************************************)
(* Theorems about NodeGraph, for every acyclic graph, every set of broken   *)
(* nodes and every number of faults.                                       *)
(***************************************************************************)
EXTENDS NodeGraph, FiniteSetTheorems, WellFoundedInduction, TLAPS

-----------------------------------------------------------------------------
(***************************************************************************)
(* Sets of nodes and how many they are                                     *)
(***************************************************************************)
\* The upstreams of a node are finitely many nodes with smaller numbers.
LEMMA UpFacts ==
  ASSUME NEW n \in Nodes, graph \in Graphs
  PROVE  /\ Up(n) \in SUBSET Nodes /\ IsFiniteSet(Up(n))
         /\ \A u \in Up(n) : u \in Nat /\ u < n
<1>1. Up(n) \in SUBSET Nodes
  BY DEF Up
<1>2. IsFiniteSet(Up(n))
  BY <1>1, FS_Subset, NodesAssumption
<1>3. \A u \in Up(n) : u \in Nat /\ u < n
  BY NodesAssumption DEF Up, Graphs
<1> QED
  BY <1>1, <1>2, <1>3

\* The least-number principle.
LEMMA LeastMember ==
  ASSUME NEW T \in SUBSET Nat, T # {}
  PROVE  \E m \in T : \A k \in T : m <= k
<1>1. PICK m \in T : \A k \in T : <<k, m>> \notin OpToRel(<, Nat)
  BY WFMin, NatLessThanWellFounded, Zenon
<1>2. ASSUME NEW k \in T PROVE m <= k
  <2>1. k \in Nat /\ m \in Nat
    OBVIOUS
  <2>2. ~(k < m)
    BY <1>1, <2>1 DEF OpToRel
  <2> QED
    BY <2>1, <2>2
<1> QED
  BY <1>2

\* What is left of a finite set without some of its members, and how much.
LEMMA CardinalityWithout ==
  ASSUME NEW S, IsFiniteSet(S), NEW T
  PROVE  /\ IsFiniteSet(S \ T) /\ Cardinality(S \ T) \in Nat /\ Cardinality(S \cap T) \in Nat
         /\ Cardinality(S \ T) = Cardinality(S) - Cardinality(S \cap T)
<1> DEFINE A == S \ T
           B == S \cap T
<1>1. IsFiniteSet(A) /\ IsFiniteSet(B)
  BY FS_Subset
<1>2. A \cup B = S /\ A \cap B = {}
  OBVIOUS
<1> HIDE DEF A, B
<1>3. /\ Cardinality(A) \in Nat /\ Cardinality(B) \in Nat /\ Cardinality(S) \in Nat
  BY <1>1, FS_CardinalityType
<1>4. Cardinality(A \cup B) = Cardinality(A) + Cardinality(B) - Cardinality(A \cap B)
  BY <1>1, FS_Union
<1>5. Cardinality(A \cap B) = 0
  BY <1>2, FS_EmptySet
<1>6. Cardinality(S) = Cardinality(A) + Cardinality(B)
  BY <1>2, <1>3, <1>4, <1>5
<1>7. Cardinality(A) = Cardinality(S) - Cardinality(B)
  BY <1>3, <1>6
<1> QED
  BY <1>1, <1>3, <1>7 DEF A, B

-----------------------------------------------------------------------------
(***************************************************************************)
(* The sequential engine: Sequential is defined by recursion along the     *)
(* edges, and satisfies its equation because edges go up and nodes end.    *)
(***************************************************************************)
\* A finite set of numbers has a bound.
LEMMA FiniteHasBound ==
  ASSUME NEW S \in SUBSET Nat, IsFiniteSet(S)
  PROVE  \E b \in Nat : \A x \in S : x < b
<1> DEFINE Unbounded(X) == IsFiniteSet(X) /\ ~ \E b \in Nat : \A x \in X : x < b
           Size(X, k) == Unbounded(X) /\ Cardinality(X) = k
           Sizes == {k \in Nat : \E X \in SUBSET Nat : Size(X, k)}
<1> SUFFICES ASSUME Unbounded(S) PROVE FALSE
  OBVIOUS
<1>1. Cardinality(S) \in Sizes
  BY FS_CardinalityType
<1>2. PICK k \in Sizes : \A m \in Sizes : k <= m
  <2>1. Sizes \in SUBSET Nat /\ Sizes # {}
    BY <1>1
  <2> HIDE DEF Sizes
  <2> QED
    BY <2>1, LeastMember
<1>3. PICK X \in SUBSET Nat : Unbounded(X) /\ Cardinality(X) = k
  <2>1. \E X \in SUBSET Nat : Size(X, k)
    <3> HIDE DEF Size
    <3> QED
      BY <1>2
  <2> QED
    BY <2>1, Zenon
<1>4. X # {}
  BY <1>3
<1>5. PICK y \in X : TRUE
  BY <1>4
<1>6. IsFiniteSet(X \ {y}) /\ Cardinality(X \ {y}) = k - 1 /\ Cardinality(X \ {y}) \in Nat
  BY <1>3, <1>5, FS_RemoveElement, FS_CardinalityType
<1>7. k - 1 \notin Sizes
  BY <1>2
<1>8. PICK b \in Nat : \A x \in X \ {y} : x < b
  BY <1>6, <1>7
<1>9. ASSUME NEW x \in X PROVE x < b + y + 1
  <2>1. x \in Nat /\ y \in Nat
    BY <1>3, <1>5
  <2>2. x = y \/ x < b
    BY <1>8
  <2> QED
    BY <2>1, <2>2
<1>10. b + y + 1 \in Nat
  BY <1>3, <1>5
<1> QED
  BY <1>3, <1>9, <1>10

\* One node's outcome, given those of the others.
SequentialOf(f, n) ==
  IF \E u \in Up(n) : f[u] # "succeeded" THEN "skipped"
  ELSE IF n \in broken THEN "failed" ELSE "succeeded"

\* Some function satisfies the equation at all nodes below a number.
LEMMA SequentialBelow ==
  ASSUME graph \in Graphs, NEW k \in Nat
  PROVE  \E f \in [Nodes -> NodeOutcomes] : \A n \in Nodes : n < k => f[n] = SequentialOf(f, n)
<1> DEFINE Solves(f, m) == \A n \in Nodes : n < m => f[n] = SequentialOf(f, n)
           Bad == {m \in Nat : ~ \E f \in [Nodes -> NodeOutcomes] : Solves(f, m)}
<1> SUFFICES ASSUME k \in Bad PROVE FALSE
  OBVIOUS
<1>1. PICK m \in Bad : \A j \in Bad : m <= j
  <2>1. Bad \in SUBSET Nat /\ Bad # {}
    OBVIOUS
  <2> HIDE DEF Bad
  <2> QED
    BY <2>1, LeastMember
<1>2. m # 0
  <2>1. [n \in Nodes |-> "none"] \in [Nodes -> NodeOutcomes]
    BY DEF NodeOutcomes
  <2>2. Solves([n \in Nodes |-> "none"], 0)
    BY NodesAssumption
  <2> QED
    BY <1>1, <2>1, <2>2
<1>3. m - 1 \in Nat /\ m - 1 \notin Bad
  BY <1>1, <1>2
<1>4. PICK f \in [Nodes -> NodeOutcomes] : Solves(f, m - 1)
  BY <1>3
<1> DEFINE g == [n \in Nodes |-> IF n = m - 1 THEN SequentialOf(f, n) ELSE f[n]]
<1>5. g \in [Nodes -> NodeOutcomes]
  BY DEF SequentialOf, NodeOutcomes
<1>6. ASSUME NEW n \in Nodes, n < m PROVE g[n] = SequentialOf(g, n)
  <2>1. \A u \in Up(n) : u \in Nodes /\ u # m - 1
    BY <1>6, UpFacts, NodesAssumption, <1>3
  <2>2. \A u \in Up(n) : g[u] = f[u]
    BY <2>1
  <2>3. SequentialOf(g, n) = SequentialOf(f, n)
    BY <2>2 DEF SequentialOf
  <2>4. g[n] = SequentialOf(f, n)
    BY <1>6, <1>3, <1>4, NodesAssumption
  <2> QED
    BY <2>3, <2>4
<1> QED
  BY <1>1, <1>5, <1>6

\* The equation of Sequential.
LEMMA SequentialEquation ==
  ASSUME graph \in Graphs, NEW n \in Nodes
  PROVE  Sequential[n] = SequentialOf(Sequential, n)
<1> DEFINE Body(f) == [x \in Nodes |-> IF \E u \in Up(x) : f[u] # "succeeded" THEN "skipped"
                                      ELSE IF x \in broken THEN "failed" ELSE "succeeded"]
<1>1. PICK b \in Nat : \A x \in Nodes : x < b
  BY FiniteHasBound, NodesAssumption
<1>2. PICK f \in [Nodes -> NodeOutcomes] : \A x \in Nodes : x < b => f[x] = SequentialOf(f, x)
  BY <1>1, SequentialBelow
<1>3. f = Body(f)
  <2>1. \A x \in Nodes : f[x] = Body(f)[x]
    BY <1>1, <1>2 DEF SequentialOf
  <2> QED
    BY <2>1
<1>4. Sequential = CHOOSE s : s = Body(s)
  BY DEF Sequential
<1>5. Sequential = Body(Sequential)
  BY <1>3, <1>4
<1> QED
  BY <1>5 DEF SequentialOf

-----------------------------------------------------------------------------
(***************************************************************************)
(* The inductive invariant                                                 *)
(***************************************************************************)
\* How far a node's coroutine is, its outcome and its row go together.
TaskInv ==
  \A n \in Nodes :
    /\ task[n] = "idle" /\ n \in remaining => outcome[n] = "none" /\ row[n] = "pending"
    /\ task[n] = "idle" /\ n \notin remaining => outcome[n] = "skipped" /\ row[n] \in {"pending", "cancelled"}
    /\ task[n] = "starting" => outcome[n] = "none" /\ row[n] = "pending"
    /\ task[n] = "thread" => outcome[n] = "none" /\ row[n] = "running"
    /\ task[n] = "reporting" => outcome[n] \in {"succeeded", "failed"} /\ row[n] = "running"
    /\ task[n] = "done" => outcome[n] \in {"none", "succeeded", "failed"} /\ row[n] # "cancelled"

\* Coroutines are under way in a wave only, or after an exception left them.
PhaseInv ==
  /\ phase \notin {"wave", "raised"} =>
       \A n \in Nodes : task[n] \in {"idle", "done"} /\ (n \in remaining => task[n] = "idle")
  /\ phase = "wave" => visit = {} /\ \A n \in Nodes : n \notin remaining => task[n] \in {"idle", "done"}
  /\ phase # "raised" => \A n \in Nodes : task[n] = "done" => outcome[n] # "none"
  /\ phase = "cancelling" => cancel
  /\ result # "none" => phase \in {"returned", "raised"}

\* The nodes whose wave is over.
Completed == {n \in Nodes : n \notin remaining /\ task[n] # "idle"}

\* The counter of a node is that of its upstreams whose wave is not over.
DepsInv == \A n \in Nodes : deps[n] = Cardinality(Up(n) \ Completed)

\* What the skip pass has been at and kept has no failed upstream.
SweepInv ==
  phase = "sweep" => \A n \in remaining : n \notin visit => \A u \in Up(n) : outcome[u] # "failed"

\* Once a wave has started under a cancel no pass is made any more.
LateInv == late = 0 \/ (late = 1 /\ cancel /\ phase # "sweep")

\* Nodes are skipped for a reason, and left behind for one.
SkipInv ==
  \/ cancel \/ \E n \in Nodes : outcome[n] = "failed"
  \/ /\ \A n \in Nodes : outcome[n] # "skipped"
     /\ phase = "returned" => remaining = {}

\* Without a fault rows tell outcomes as soon as a node is at rest, and a run
\* fails because a node did.
FaultInv ==
  faults = 0 =>
    /\ phase # "raised"
    /\ \A n \in Nodes : task[n] \in {"idle", "done"} =>
         row[n] = IF outcome[n] = "none" THEN "pending" ELSE RowOf(outcome[n])

\* What was known when the verdict was drawn.
ResultInv ==
  /\ result = "succeeded" => \A n \in Nodes : outcome[n] = "succeeded"
  /\ result = "failed" /\ faults = 0 => \E n \in Nodes : outcome[n] = "failed"
  /\ result = "cancelled" => cancel

IInv ==
  /\ TypeOK /\ TaskInv /\ PhaseInv /\ DepsInv /\ SweepInv /\ LateInv /\ SkipInv /\ FaultInv /\ ResultInv
  /\ RowsCountUpstreams /\ RunsAfterUpstreams /\ AgreesWithSequential

-----------------------------------------------------------------------------
(***************************************************************************)
(* The initial states                                                      *)
(***************************************************************************)
\* No step changes the graph, and with it what is upstream of a node and what
\* the sequential engine makes of it.
LEMMA InputsFixed ==
  ASSUME UNCHANGED inputs
  PROVE  /\ graph' = graph /\ broken' = broken /\ Sequential' = Sequential
         /\ \A n \in Nodes : Up(n)' = Up(n) /\ Down(n)' = Down(n)
<1>1. graph' = graph /\ broken' = broken
  BY DEF inputs
<1> QED
  BY <1>1 DEF Sequential, Up, Down

\* The invariant holds before the loop.
LEMMA InitInvariant == Init => IInv
<1> SUFFICES ASSUME Init PROVE IInv
  OBVIOUS
<1>1. \A n \in Nodes : Cardinality(Up(n)) \in Nat
  BY UpFacts, FS_CardinalityType DEF Init
<1>2. TypeOK
  <2>1. deps \in [Nodes -> Nat] /\ rowDeps \in [Nodes -> Nat]
    BY <1>1, Zenon DEF Init
  <2>2. outcome \in [Nodes -> NodeOutcomes] /\ task \in [Nodes -> TaskStates] /\ row \in [Nodes -> RowStatus]
    BY DEF Init, NodeOutcomes, TaskStates, RowStatus
  <2>3. cancel = FALSE /\ late = 0 /\ faults = 0 /\ phase = "check" /\ result = "none" /\ visit = {} /\ remaining = Nodes
    BY DEF Init
  <2>4. late \in Nat /\ faults \in 0..MaxFaults /\ phase \in Phases /\ result \in Results
    BY <2>3, FaultsAssumption DEF Phases, Results
  <2>5. graph \in Graphs /\ broken \in SUBSET Nodes
    BY DEF Init
  <2> QED
    BY <2>1, <2>2, <2>3, <2>4, <2>5 DEF TypeOK
<1>3. TaskInv /\ PhaseInv /\ SweepInv /\ LateInv /\ SkipInv /\ ResultInv
  BY DEF Init, TaskInv, PhaseInv, SweepInv, LateInv, SkipInv, ResultInv
<1>4. DepsInv
  <2>1. Completed = {}
    BY DEF Init, Completed
  <2>2. \A n \in Nodes : Up(n) \ Completed = Up(n)
    BY <2>1
  <2> QED
    BY <2>2 DEF Init, DepsInv
<1>5. FaultInv
  BY DEF Init, FaultInv
<1>6. RowsCountUpstreams
  <2>1. \A n \in Nodes : {u \in Up(n) : row[u] # "succeeded"} = Up(n)
    BY DEF Init, Up
  <2> QED
    BY <2>1 DEF Init, RowsCountUpstreams
<1>7. RunsAfterUpstreams /\ AgreesWithSequential
  BY DEF Init, RunsAfterUpstreams, AgreesWithSequential
<1> QED
  BY <1>2, <1>3, <1>4, <1>5, <1>6, <1>7 DEF IInv

-----------------------------------------------------------------------------
(***************************************************************************)
(* What a step leaves alone                                                *)
(***************************************************************************)
\* Rows keep counting when none becomes or stops being succeeded or pending
\* again, and no counter moves.
LEMMA RowsKeepCounting ==
  ASSUME RowsCountUpstreams, UNCHANGED <<inputs, rowDeps>>,
         \A n \in Nodes : row'[n] = "succeeded" <=> row[n] = "succeeded",
         \A n \in Nodes : row'[n] = "pending" => row[n] = "pending"
  PROVE  RowsCountUpstreams'
<1>1. \A n \in Nodes : {u \in Up(n) : row[u] # "succeeded"}' = {u \in Up(n) : row[u] # "succeeded"}
  BY InputsFixed DEF Up
<1> QED
  BY <1>1 DEF RowsCountUpstreams

\* Counters keep counting when no wave ends and no node comes to a task.
LEMMA DepsKeepCounting ==
  ASSUME DepsInv, UNCHANGED <<inputs, deps>>, Completed' = Completed
  PROVE  DepsInv'
<1>1. \A n \in Nodes : (Up(n) \ Completed)' = Up(n) \ Completed
  BY InputsFixed
<1> QED
  BY <1>1 DEF DepsInv

\* Steps that change neither tasks, nor outcomes, nor rows, nor counters.
LEMMA StepsAside ==
  ASSUME IInv, UNCHANGED <<inputs, remaining, deps, outcome, task, rowVars>>, cancel => cancel'
  PROVE  TaskInv' /\ DepsInv' /\ RowsCountUpstreams' /\ RunsAfterUpstreams' /\ AgreesWithSequential'
<1>1. TaskInv'
  BY DEF IInv, TaskInv, rowVars
<1>2. DepsInv'
  BY DepsKeepCounting DEF IInv, Completed
<1>3. RowsCountUpstreams'
  BY RowsKeepCounting DEF IInv, rowVars
<1>4. RunsAfterUpstreams' /\ AgreesWithSequential'
  BY InputsFixed DEF IInv, RunsAfterUpstreams, AgreesWithSequential
<1> QED
  BY <1>1, <1>2, <1>3, <1>4

-----------------------------------------------------------------------------
(***************************************************************************)
(* The steps of the loop                                                   *)
(***************************************************************************)
\* At a wave boundary the loop turns to the skips or to a pass, or is cancelled.
LEMMA BoundaryStep == IInv /\ Boundary => IInv'
<1> SUFFICES ASSUME IInv, Boundary PROVE IInv'
  OBVIOUS
<1>1. TaskInv' /\ DepsInv' /\ RowsCountUpstreams' /\ RunsAfterUpstreams' /\ AgreesWithSequential'
  BY StepsAside DEF Boundary
<1>2. TypeOK'
  BY DEF IInv, TypeOK, Boundary, inputs, rowVars, Phases
<1>3. PhaseInv' /\ SweepInv' /\ LateInv' /\ SkipInv' /\ FaultInv' /\ ResultInv'
  BY DEF IInv, TypeOK, Boundary, inputs, rowVars, PhaseInv, SweepInv, LateInv, SkipInv, FaultInv, ResultInv
<1> QED
  BY <1>1, <1>2, <1>3 DEF IInv

\* A skip pass that is over leaves nothing it had still to look at.
LEMMA PassesStep ==
  ASSUME NEW n \in Nodes PROVE IInv /\ SweepPasses(n) => IInv'
<1> SUFFICES ASSUME IInv, SweepPasses(n) PROVE IInv'
  OBVIOUS
<1>1. TaskInv' /\ DepsInv' /\ RowsCountUpstreams' /\ RunsAfterUpstreams' /\ AgreesWithSequential'
  BY StepsAside DEF SweepPasses
<1>2. TypeOK'
  BY DEF IInv, TypeOK, SweepPasses, inputs, rowVars
<1>3. SweepInv'
  <2>1. \A u \in Up(n) : outcome[u] # "failed"
    BY DEF SweepPasses, HasBlockedUpstream, Blocked, Up
  <2> QED
    BY <2>1, InputsFixed DEF IInv, TypeOK, SweepInv, SweepPasses
<1>4. PhaseInv' /\ LateInv' /\ SkipInv' /\ FaultInv' /\ ResultInv'
  BY DEF IInv, SweepPasses, rowVars, PhaseInv, LateInv, SkipInv, FaultInv, ResultInv
<1> QED
  BY <1>1, <1>2, <1>3, <1>4 DEF IInv

\* The loop is left with no coroutine of it under way.
LEMMA LeaveStep == IInv /\ LeaveLoop => IInv'
<1> SUFFICES ASSUME IInv, LeaveLoop PROVE IInv'
  OBVIOUS
<1>1. TaskInv' /\ DepsInv' /\ RowsCountUpstreams' /\ RunsAfterUpstreams' /\ AgreesWithSequential'
  BY StepsAside DEF LeaveLoop
<1>2. TypeOK'
  BY DEF IInv, TypeOK, LeaveLoop, inputs, rowVars, Phases
<1>3. PhaseInv' /\ SweepInv' /\ LateInv' /\ FaultInv' /\ ResultInv'
  BY DEF IInv, LeaveLoop, rowVars, PhaseInv, SweepInv, LateInv, FaultInv, ResultInv
<1>4. SkipInv'
  <2> SUFFICES ASSUME ~cancel, \A n \in Nodes : outcome[n] # "failed", remaining # {} PROVE FALSE
    BY DEF IInv, SkipInv, LeaveLoop
  <2>1. Ready = {} /\ \A n \in Nodes : outcome[n] # "skipped"
    BY DEF IInv, PhaseInv, LeaveLoop, SkipInv
  <2>2. remaining \in SUBSET Nat
    BY NodesAssumption DEF IInv, TypeOK
  <2>3. PICK n \in remaining : \A m \in remaining : n <= m
    BY <2>2, LeastMember
  <2>4. Up(n) \subseteq Completed
    <3> SUFFICES ASSUME NEW u \in Up(n) PROVE u \in Completed
      OBVIOUS
    <3>1. u \in Nodes /\ u \in Nat /\ n \in Nodes /\ n \in Nat /\ u < n
      BY <2>2, UpFacts DEF IInv, TypeOK
    <3>2. u \notin remaining
      BY <3>1, <2>3
    <3>3. task[u] # "idle"
      BY <3>1, <3>2, <2>1 DEF IInv, TaskInv
    <3> QED
      BY <3>1, <3>2, <3>3 DEF Completed
  <2>5. deps[n] = 0
    <3>1. Up(n) \ Completed = {} /\ n \in Nodes
      BY <2>4 DEF IInv, TypeOK
    <3> QED
      BY <3>1, FS_EmptySet DEF IInv, DepsInv
  <2> QED
    BY <2>1, <2>5 DEF Ready
<1> QED
  BY <1>1, <1>2, <1>3, <1>4 DEF IInv

\* What StartWave starts has all its upstreams behind it, and they succeeded.
LEMMA ReadyFacts ==
  ASSUME IInv, phase = "sweep", visit = {}, NEW n \in Ready
  PROVE  /\ n \in Nodes /\ n \in remaining /\ task[n] = "idle"
         /\ \A u \in Up(n) : outcome[u] = "succeeded"
<1>1. n \in Nodes /\ n \in remaining /\ deps[n] = 0 /\ task[n] = "idle"
  BY DEF Ready, IInv, TypeOK, PhaseInv
<1>2. Up(n) \ Completed = {}
  <2>1. IsFiniteSet(Up(n) \ Completed)
    BY <1>1, UpFacts, CardinalityWithout DEF IInv, TypeOK
  <2> QED
    BY <1>1, <2>1, FS_EmptySet DEF IInv, DepsInv
<1>3. ASSUME NEW u \in Up(n) PROVE outcome[u] = "succeeded"
  <2>1. u \in Nodes /\ task[u] = "done"
    BY <1>2 DEF Completed, IInv, PhaseInv
  <2>2. outcome[u] # "failed"
    BY <1>1 DEF IInv, SweepInv
  <2>3. outcome[u] \in {"none", "succeeded", "failed"} /\ outcome[u] # "none"
    BY <2>1 DEF IInv, TaskInv, PhaseInv
  <2> QED
    BY <2>2, <2>3
<1> QED
  BY <1>1, <1>3

\* A wave takes nodes that waited, all of whose upstreams succeeded.
LEMMA StartStep == IInv /\ StartWave => IInv'
<1> SUFFICES ASSUME IInv, StartWave PROVE IInv'
  OBVIOUS
<1>1. \A n \in Ready : n \in Nodes /\ n \in remaining /\ task[n] = "idle" /\ \A u \in Up(n) : outcome[u] = "succeeded"
  BY ReadyFacts DEF StartWave
<1>2. \A n \in Nodes : task'[n] = IF n \in Ready THEN "starting" ELSE task[n]
  BY DEF StartWave
<1>3. TypeOK'
  <2>1. task' \in [Nodes -> TaskStates]
    BY DEF StartWave, IInv, TypeOK, TaskStates
  <2>2. late' \in Nat
    BY DEF StartWave, IInv, TypeOK
  <2> QED
    BY <2>1, <2>2 DEF StartWave, IInv, TypeOK, inputs, rowVars, Phases
<1>4. TaskInv'
  BY <1>1, <1>2 DEF StartWave, rowVars, IInv, TaskInv
<1>5. PhaseInv'
  BY <1>1, <1>2 DEF StartWave, IInv, PhaseInv
<1>6. DepsInv'
  <2>1. Completed' = Completed
    BY <1>1, <1>2 DEF Completed, StartWave
  <2> QED
    BY <2>1, DepsKeepCounting DEF IInv, StartWave
<1>7. RowsCountUpstreams'
  BY RowsKeepCounting DEF IInv, StartWave, rowVars
<1>8. RunsAfterUpstreams'
  BY <1>1, <1>2, InputsFixed DEF IInv, RunsAfterUpstreams, StartWave
<1>9. AgreesWithSequential'
  BY InputsFixed DEF IInv, AgreesWithSequential, StartWave
<1>10. SweepInv' /\ LateInv' /\ SkipInv' /\ ResultInv'
  BY DEF IInv, SweepInv, LateInv, SkipInv, ResultInv, StartWave
<1>11. FaultInv'
  BY <1>1, <1>2 DEF IInv, FaultInv, StartWave, rowVars
<1> QED
  BY <1>3, <1>4, <1>5, <1>6, <1>7, <1>8, <1>9, <1>10, <1>11 DEF IInv

\* A wave's counters are taken down together, when all of it has ended.
LEMMA EndStep == IInv /\ EndWave => IInv'
<1> SUFFICES ASSUME IInv, EndWave PROVE IInv'
  OBVIOUS
<1>1. Wave \in SUBSET Nodes /\ \A n \in Wave : n \in remaining /\ task[n] = "done"
  BY DEF EndWave, Wave, IInv, TypeOK
<1>2. Completed' = Completed \cup Wave /\ Completed \cap Wave = {}
  BY DEF Completed, Wave, EndWave, IInv, TypeOK
<1>3. \A n \in Nodes : deps'[n] = Cardinality((Up(n) \ Completed) \ Wave) /\ deps'[n] \in Nat
  <2> SUFFICES ASSUME NEW n \in Nodes
               PROVE  deps'[n] = Cardinality((Up(n) \ Completed) \ Wave) /\ deps'[n] \in Nat
    OBVIOUS
  <2> DEFINE S == Up(n) \ Completed
  <2>1. IsFiniteSet(S)
    BY UpFacts, CardinalityWithout DEF IInv, TypeOK
  <2>2. Up(n) \cap Wave = S \cap Wave
    BY <1>2
  <2>3. deps[n] = Cardinality(S)
    BY DEF IInv, DepsInv
  <2>4. deps'[n] = Cardinality(S) - Cardinality(S \cap Wave)
    BY <2>2, <2>3 DEF EndWave
  <2> HIDE DEF S
  <2>5. Cardinality(S \ Wave) = Cardinality(S) - Cardinality(S \cap Wave) /\ Cardinality(S \ Wave) \in Nat
    BY <2>1, CardinalityWithout
  <2> QED
    BY <2>4, <2>5 DEF S
<1>4. DepsInv'
  <2>1. \A n \in Nodes : (Up(n) \ Completed)' = (Up(n) \ Completed) \ Wave
    BY <1>2, InputsFixed DEF EndWave
  <2> QED
    BY <1>3, <2>1 DEF DepsInv
<1>5. TypeOK'
  <2>1. deps' \in [Nodes -> Nat]
    <3>1. deps' = [d \in Nodes |-> deps'[d]]
      BY DEF EndWave
    <3> QED
      BY <1>3, <3>1, Zenon
  <2>2. visit = {} /\ remaining' \in SUBSET Nodes
    BY DEF EndWave, IInv, TypeOK, PhaseInv
  <2> QED
    BY <2>1, <2>2 DEF EndWave, IInv, TypeOK, inputs, rowVars, Phases
<1>6. TaskInv'
  BY <1>1 DEF EndWave, rowVars, IInv, TaskInv
<1>7. PhaseInv'
  <2>1. \A n \in Nodes : task[n] \in {"idle", "done"} /\ (n \in remaining' => task[n] = "idle")
    BY <1>1 DEF EndWave, IInv, PhaseInv, Wave
  <2> QED
    BY <2>1 DEF EndWave, IInv, PhaseInv
<1>8. RowsCountUpstreams'
  BY RowsKeepCounting DEF IInv, EndWave, rowVars
<1>9. RunsAfterUpstreams' /\ AgreesWithSequential'
  BY InputsFixed DEF IInv, RunsAfterUpstreams, AgreesWithSequential, EndWave
<1>10. SweepInv' /\ LateInv' /\ SkipInv' /\ ResultInv' /\ FaultInv'
  BY DEF IInv, SweepInv, LateInv, SkipInv, ResultInv, FaultInv, EndWave, rowVars
<1> QED
  BY <1>4, <1>5, <1>6, <1>7, <1>8, <1>9, <1>10 DEF IInv

\* A node that is skipped was waiting, and there was a reason.
LEMMA SkippedFacts ==
  ASSUME IInv, phase \in {"sweep", "cancelling"}, NEW n \in visit, MarkSkipped(n),
         UNCHANGED <<inputs, deps, task, rowDeps, cancel>>,
         row' = row \/ row' = [row EXCEPT ![n] = RowOf("skipped")],
         cancel \/ HasBlockedUpstream(n)
  PROVE  /\ n \in Nodes /\ n \in remaining /\ task[n] = "idle" /\ outcome[n] = "none" /\ row[n] = "pending"
         /\ outcome' \in [Nodes -> NodeOutcomes] /\ row' \in [Nodes -> RowStatus]
         /\ visit' \in SUBSET remaining' /\ remaining' \in SUBSET Nodes
         /\ \A m \in Nodes : m # n => outcome'[m] = outcome[m] /\ row'[m] = row[m]
         /\ outcome'[n] = "skipped" /\ row'[n] \in {"pending", "cancelled"}
         /\ cancel' \/ \E m \in Nodes : outcome'[m] = "failed"
         /\ TaskInv' /\ DepsInv' /\ RowsCountUpstreams' /\ RunsAfterUpstreams' /\ AgreesWithSequential'
<1>1. n \in Nodes /\ n \in remaining /\ task[n] = "idle" /\ outcome[n] = "none" /\ row[n] = "pending"
  BY DEF IInv, TypeOK, PhaseInv, TaskInv
<1>2. /\ outcome' \in [Nodes -> NodeOutcomes] /\ row' \in [Nodes -> RowStatus]
      /\ \A m \in Nodes : m # n => outcome'[m] = outcome[m] /\ row'[m] = row[m]
      /\ outcome'[n] = "skipped" /\ row'[n] \in {"pending", "cancelled"}
  BY <1>1 DEF MarkSkipped, RowOf, IInv, TypeOK, NodeOutcomes, RowStatus
<1>3. visit' \in SUBSET remaining' /\ remaining' \in SUBSET Nodes
  BY DEF MarkSkipped, IInv, TypeOK
<1>4. cancel' \/ \E m \in Nodes : outcome'[m] = "failed"
  <2>1. CASE cancel
    BY <2>1
  <2>2. CASE HasBlockedUpstream(n)
    <3>1. PICK u \in Nodes : outcome[u] \in {"failed", "skipped"}
      BY <2>2 DEF HasBlockedUpstream, Blocked
    <3>2. cancel \/ \E m \in Nodes : outcome[m] = "failed"
      BY <3>1 DEF IInv, SkipInv
    <3> QED
      BY <3>2, <1>1, <1>2
  <2> QED
    BY <2>1, <2>2
<1>5. TaskInv'
  BY <1>1, <1>2 DEF MarkSkipped, IInv, TaskInv
<1>6. DepsInv'
  <2>1. Completed' = Completed
    BY <1>1 DEF Completed, MarkSkipped
  <2> QED
    BY <2>1, DepsKeepCounting DEF IInv
<1>7. RowsCountUpstreams'
  BY <1>1, <1>2, RowsKeepCounting DEF IInv
<1>8. RunsAfterUpstreams'
  BY <1>1, <1>2, InputsFixed DEF IInv, RunsAfterUpstreams, Up
<1>9. AgreesWithSequential'
  <2>1. cancel \/ Sequential[n] = "skipped"
    <3>1. CASE HasBlockedUpstream(n) /\ ~cancel
      <4>1. PICK u \in Up(n) : u \in Nodes /\ outcome[u] \in {"failed", "skipped"}
        BY <3>1 DEF HasBlockedUpstream, Blocked, Up
      <4>2. Sequential[u] # "succeeded"
        BY <3>1, <4>1 DEF IInv, AgreesWithSequential
      <4> QED
        BY <1>1, <4>1, <4>2, SequentialEquation DEF SequentialOf, IInv, TypeOK
    <3> QED
      BY <3>1
  <2> QED
    BY <2>1, <1>2, InputsFixed DEF IInv, AgreesWithSequential
<1> QED
  BY <1>1, <1>2, <1>3, <1>4, <1>5, <1>6, <1>7, <1>8, <1>9

\* What the three steps that skip a node share.
LEMMA SkipSteps ==
  ASSUME NEW n \in Nodes, IInv, SweepSkips(n) \/ CancelSkips(n) \/ SkipRaises(n)
  PROVE  IInv'
<1>1. /\ phase \in {"sweep", "cancelling"} /\ n \in visit /\ MarkSkipped(n)
      /\ UNCHANGED <<inputs, deps, task, rowDeps, cancel, late, result>>
      /\ row' = row \/ row' = [row EXCEPT ![n] = RowOf("skipped")]
      /\ cancel \/ HasBlockedUpstream(n)
      /\ phase' \in {phase, "raised"} /\ faults' \in 0..MaxFaults
      /\ faults' = 0 => phase' = phase /\ faults = 0 /\ row' = [row EXCEPT ![n] = RowOf("skipped")]
  <2>1. CASE SweepSkips(n)
    BY <2>1 DEF SweepSkips, IInv, TypeOK
  <2>2. CASE CancelSkips(n)
    BY <2>2 DEF CancelSkips, IInv, TypeOK, PhaseInv
  <2>3. CASE SkipRaises(n)
    <3>1. faults' \in 0..MaxFaults /\ faults' # 0
      BY <2>3, FaultsAssumption DEF SkipRaises, Fault, IInv, TypeOK
    <3> QED
      BY <2>3, <3>1 DEF SkipRaises, rowVars, IInv, PhaseInv
  <2> QED
    BY <2>1, <2>2, <2>3
<1>2. /\ n \in remaining /\ task[n] = "idle" /\ outcome[n] = "none" /\ row[n] = "pending"
      /\ outcome' \in [Nodes -> NodeOutcomes] /\ row' \in [Nodes -> RowStatus]
      /\ visit' \in SUBSET remaining' /\ remaining' \in SUBSET Nodes
      /\ \A m \in Nodes : m # n => outcome'[m] = outcome[m] /\ row'[m] = row[m]
      /\ outcome'[n] = "skipped"
      /\ cancel' \/ \E m \in Nodes : outcome'[m] = "failed"
      /\ TaskInv' /\ DepsInv' /\ RowsCountUpstreams' /\ RunsAfterUpstreams' /\ AgreesWithSequential'
  BY <1>1, SkippedFacts
<1>3. TypeOK'
  BY <1>1, <1>2 DEF IInv, TypeOK, inputs, Phases
<1>4. result = "none"
  BY <1>1 DEF IInv, TypeOK, PhaseInv
<1>5. PhaseInv'
  BY <1>1, <1>2, <1>4 DEF IInv, PhaseInv, MarkSkipped
<1>6. SweepInv'
  <2>1. \A m \in Nodes : outcome'[m] = "failed" => outcome[m] = "failed"
    BY <1>2
  <2>2. \A m \in remaining' : m \in remaining /\ m \in Nodes /\ (m \notin visit' => m \notin visit)
    BY <1>1 DEF MarkSkipped, IInv, TypeOK
  <2> QED
    BY <1>1, <2>1, <2>2, InputsFixed DEF IInv, SweepInv, Up
<1>7. LateInv' /\ SkipInv' /\ ResultInv'
  BY <1>1, <1>2, <1>4 DEF IInv, LateInv, SkipInv, ResultInv
<1>8. FaultInv'
  <2> SUFFICES ASSUME faults' = 0 PROVE FaultInv'
    BY DEF FaultInv
  <2>1. row'[n] = RowOf("skipped")
    BY <1>1 DEF IInv, TypeOK
  <2> QED
    BY <1>1, <1>2, <2>1 DEF IInv, FaultInv
<1> QED
  BY <1>2, <1>3, <1>5, <1>6, <1>7, <1>8 DEF IInv

-----------------------------------------------------------------------------
(***************************************************************************)
(* The steps of a node                                                     *)
(***************************************************************************)
\* A coroutine on its way belongs to a wave, or to a loop that has raised.
LEMMA BusyFacts ==
  ASSUME IInv, NEW n \in Nodes, task[n] \in {"starting", "thread", "reporting"}
  PROVE  phase \in {"wave", "raised"} /\ (phase = "wave" => n \in remaining)
BY DEF IInv, PhaseInv

\* A node's step moves its task on, and leaves the loop alone or makes it raise.
\* NodeMoves(n) is what those steps have in common.
NodeMoves(n) ==
  /\ task[n] \in {"starting", "thread", "reporting"}
  /\ UNCHANGED <<inputs, visit, remaining, deps, cancel, late, result>>
  /\ \/ UNCHANGED <<phase, faults>>
     \/ phase' = "raised" /\ faults' \in 0..MaxFaults /\ faults' # 0
  /\ task' \in [Nodes -> TaskStates] /\ task'[n] # "idle" /\ \A m \in Nodes : m # n => task'[m] = task[m]

\* What every such step keeps.
LEMMA NodeMovesFacts ==
  ASSUME IInv, NEW n \in Nodes, NodeMoves(n)
  PROVE  /\ phase \in {"wave", "raised"} /\ phase' \in {"wave", "raised"}
         /\ phase' = "wave" => n \in remaining /\ phase = "wave" /\ UNCHANGED faults
         /\ graph' \in Graphs /\ broken' \in SUBSET Nodes /\ phase' \in Phases
         /\ visit' \in SUBSET remaining' /\ remaining' \in SUBSET Nodes /\ deps' \in [Nodes -> Nat]
         /\ task' \in [Nodes -> TaskStates] /\ cancel' \in BOOLEAN /\ late' \in Nat
         /\ result' \in Results /\ faults' \in 0..MaxFaults
         /\ DepsInv' /\ SweepInv' /\ LateInv'
<1>1. phase \in {"wave", "raised"} /\ (phase = "wave" => n \in remaining)
  BY BusyFacts DEF NodeMoves
<1>2. DepsInv'
  <2>1. Completed' = Completed
    BY DEF Completed, NodeMoves
  <2> QED
    BY <2>1, DepsKeepCounting DEF IInv, NodeMoves
<1>3. SweepInv' /\ LateInv'
  BY <1>1 DEF IInv, SweepInv, LateInv, NodeMoves
<1>4. /\ phase' \in {"wave", "raised"} /\ phase' \in Phases /\ faults' \in 0..MaxFaults
      /\ phase' = "wave" => phase = "wave" /\ UNCHANGED faults
  BY <1>1 DEF IInv, TypeOK, NodeMoves, Phases
<1>5. /\ graph' \in Graphs /\ broken' \in SUBSET Nodes
      /\ visit' \in SUBSET remaining' /\ remaining' \in SUBSET Nodes /\ deps' \in [Nodes -> Nat]
      /\ task' \in [Nodes -> TaskStates] /\ cancel' \in BOOLEAN /\ late' \in Nat /\ result' \in Results
  BY DEF IInv, TypeOK, NodeMoves, inputs
<1> QED
  BY <1>1, <1>2, <1>3, <1>4, <1>5

\* Nothing has been concluded while a coroutine is in its wave.
LEMMA BusyUndecided ==
  ASSUME IInv, phase = "wave"
  PROVE  result = "none"
BY DEF IInv, TypeOK, PhaseInv, Results

\* A coroutine that ends without an outcome is one that raised.
LEMMA RaiseSteps ==
  ASSUME NEW n \in Nodes, IInv, StartRaises(n) \/ PredicateRaises(n) \/ ReportRaises(n)
  PROVE  IInv'
<1>1. /\ NodeMoves(n) /\ UNCHANGED <<outcome, rowDeps>> /\ faults' # 0 /\ phase' = "raised" /\ task'[n] = "done"
      /\ \/ task[n] \in {"starting", "reporting"} /\ row' = row
         \/ task[n] = "starting" /\ row' = [row EXCEPT ![n] = "running"]
  <2>1. faults' \in 0..MaxFaults /\ faults' # 0
    BY FaultsAssumption DEF StartRaises, PredicateRaises, ReportRaises, Fault, IInv, TypeOK
  <2>2. task[n] \in {"starting", "reporting"} /\ task' = [task EXCEPT ![n] = "done"]
    BY DEF StartRaises, PredicateRaises, ReportRaises
  <2>3. phase' = "raised"
    BY <2>2, BusyFacts DEF StartRaises, PredicateRaises, ReportRaises, GatherRaises
  <2>4. task' \in [Nodes -> TaskStates] /\ task'[n] = "done" /\ \A m \in Nodes : m # n => task'[m] = task[m]
    BY <2>2 DEF IInv, TypeOK, TaskStates
  <2>5. UNCHANGED <<inputs, visit, remaining, deps, cancel, late, result, outcome, rowDeps>>
    BY DEF StartRaises, PredicateRaises, ReportRaises, rowVars
  <2>6. \/ task[n] \in {"starting", "reporting"} /\ row' = row
        \/ task[n] = "starting" /\ row' = [row EXCEPT ![n] = "running"]
    BY DEF StartRaises, PredicateRaises, ReportRaises, rowVars
  <2> QED
    BY <2>1, <2>2, <2>3, <2>4, <2>5, <2>6 DEF NodeMoves
<1>2. row' \in [Nodes -> RowStatus]
  BY <1>1 DEF IInv, TypeOK, RowStatus
<1>3. \A m \in Nodes : m # n => row'[m] = row[m] /\ task'[m] = task[m]
  BY <1>1 DEF IInv, TypeOK, NodeMoves
<1>4. task[n] = "starting" => row[n] = "pending" /\ outcome[n] = "none"
  BY DEF IInv, TaskInv
<1>5. task[n] = "reporting" => row[n] = "running" /\ outcome[n] \in {"succeeded", "failed"}
  BY DEF IInv, TaskInv
<1>6. row'[n] \in {"pending", "running"} /\ (row'[n] = "pending" => row[n] = "pending") /\ row[n] # "succeeded"
  BY <1>1, <1>4, <1>5 DEF IInv, TypeOK
<1>7. TypeOK'
  BY <1>1, <1>2, NodeMovesFacts DEF IInv, TypeOK
<1>8. TaskInv'
  <2>1. remaining' = remaining
    BY <1>1 DEF NodeMoves
  <2>2. outcome[n] \in {"none", "succeeded", "failed"}
    BY <1>1, <1>4, <1>5
  <2> QED
    BY <1>1, <1>3, <1>6, <2>1, <2>2 DEF IInv, TaskInv
<1>9. PhaseInv'
  BY <1>1 DEF PhaseInv
<1>10. RowsCountUpstreams'
  BY <1>1, <1>3, <1>6, RowsKeepCounting DEF IInv, NodeMoves
<1>11. RunsAfterUpstreams' /\ AgreesWithSequential'
  BY <1>1, <1>3, InputsFixed DEF IInv, RunsAfterUpstreams, AgreesWithSequential, NodeMoves
<1>12. SkipInv' /\ ResultInv' /\ FaultInv'
  BY <1>1 DEF IInv, SkipInv, ResultInv, FaultInv, NodeMoves
<1> QED
  BY <1>1, <1>7, <1>8, <1>9, <1>10, <1>11, <1>12, NodeMovesFacts DEF IInv

\* A coroutine that starts only moves its own row.
LEMMA StartsStep == ASSUME NEW n \in Nodes, IInv, NodeStarts(n) PROVE IInv'
<1>1. /\ NodeMoves(n) /\ UNCHANGED <<phase, faults, outcome, rowDeps>>
      /\ task[n] = "starting" /\ task'[n] = "thread"
  BY DEF NodeStarts, NodeMoves, loopVars, IInv, TypeOK, TaskStates
<1>2. row' \in [Nodes -> RowStatus] /\ row'[n] = "running" /\ row[n] = "pending" /\ outcome[n] = "none"
  BY DEF NodeStarts, IInv, TypeOK, RowStatus, TaskInv
<1>3. \A m \in Nodes : m # n => row'[m] = row[m] /\ task'[m] = task[m]
  BY DEF NodeStarts, IInv, TypeOK
<1>4. TypeOK'
  BY <1>1, <1>2, NodeMovesFacts DEF IInv, TypeOK
<1>5. TaskInv'
  <2>1. remaining' = remaining
    BY <1>1 DEF NodeMoves
  <2> QED
    BY <1>1, <1>2, <1>3, <2>1 DEF IInv, TaskInv
<1>6. PhaseInv'
  BY <1>1, <1>3, NodeMovesFacts DEF IInv, PhaseInv, NodeMoves
<1>7. RowsCountUpstreams'
  BY <1>1, <1>2, <1>3, RowsKeepCounting DEF IInv, NodeMoves
<1>8. RunsAfterUpstreams' /\ AgreesWithSequential'
  BY <1>1, <1>3, InputsFixed DEF IInv, RunsAfterUpstreams, AgreesWithSequential, NodeMoves
<1>9. SkipInv' /\ ResultInv'
  BY <1>1 DEF IInv, SkipInv, ResultInv, NodeMoves
<1>10. FaultInv'
  BY <1>1, <1>3 DEF IInv, FaultInv
<1> QED
  BY <1>1, <1>4, <1>5, <1>6, <1>7, <1>8, <1>9, <1>10, NodeMovesFacts DEF IInv

\* The outcome recorded is the sequential engine's: the upstreams of a node
\* that runs succeeded there as well.
LEMMA FinishesStep == ASSUME NEW n \in Nodes, IInv, NodeFinishes(n) PROVE IInv'
<1>1. /\ NodeMoves(n) /\ UNCHANGED <<phase, faults, row, rowDeps>>
      /\ task[n] = "thread" /\ task'[n] = "reporting"
  BY DEF NodeFinishes, NodeMoves, loopVars, rowVars, IInv, TypeOK, TaskStates
<1>2. /\ outcome' \in [Nodes -> NodeOutcomes] /\ outcome'[n] = IF n \in broken THEN "failed" ELSE "succeeded"
      /\ row[n] = "running" /\ outcome[n] = "none"
  BY DEF NodeFinishes, IInv, TypeOK, NodeOutcomes, TaskInv
<1>3. \A m \in Nodes : m # n => outcome'[m] = outcome[m] /\ task'[m] = task[m]
  BY DEF NodeFinishes, IInv, TypeOK
<1>4. Sequential[n] = outcome'[n]
  <2>1. \A u \in Up(n) : u \in Nodes /\ outcome[u] = "succeeded"
    BY <1>1 DEF IInv, RunsAfterUpstreams, Up
  <2>2. \A u \in Up(n) : Sequential[u] = "succeeded"
    BY <2>1 DEF IInv, AgreesWithSequential
  <2> QED
    BY <1>2, <2>2, SequentialEquation DEF SequentialOf, IInv, TypeOK
<1>5. TypeOK'
  BY <1>1, <1>2, NodeMovesFacts DEF IInv, TypeOK
<1>6. TaskInv'
  <2>1. remaining' = remaining
    BY <1>1 DEF NodeMoves
  <2> QED
    BY <1>1, <1>2, <1>3, <2>1 DEF IInv, TaskInv
<1>7. PhaseInv'
  BY <1>1, <1>3, NodeMovesFacts DEF IInv, PhaseInv, NodeMoves
<1>8. RowsCountUpstreams'
  BY <1>1, RowsKeepCounting DEF IInv, NodeMoves
<1>9. RunsAfterUpstreams'
  <2>1. \A u \in Nodes : outcome[u] = "succeeded" => outcome'[u] = "succeeded"
    BY <1>2, <1>3
  <2>2. \A m \in Nodes : task'[m] # "idle" => task[m] # "idle"
    BY <1>1, <1>3
  <2> QED
    BY <1>1, <2>1, <2>2, InputsFixed DEF IInv, RunsAfterUpstreams, NodeMoves, Up
<1>10. AgreesWithSequential'
  BY <1>1, <1>3, <1>4, InputsFixed DEF IInv, AgreesWithSequential, NodeMoves
<1>11. SkipInv'
  <2>1. phase \in {"wave", "raised"}
    BY <1>1, NodeMovesFacts
  <2> QED
    BY <1>1, <1>2, <1>3, <2>1 DEF IInv, SkipInv, NodeMoves
<1>12. ResultInv'
  BY <1>1, <1>2, <1>3 DEF IInv, ResultInv, NodeMoves
<1>13. FaultInv'
  BY <1>1, <1>3 DEF IInv, FaultInv
<1> QED
  BY <1>1, <1>5, <1>6, <1>7, <1>8, <1>9, <1>10, <1>11, <1>12, <1>13, NodeMovesFacts DEF IInv

\* A row that becomes succeeded is taken off the counter of the pending rows
\* downstream, which had counted it.
LEMMA ReportsRows ==
  ASSUME NEW n \in Nodes, IInv, NodeReports(n)
  PROVE  RowsCountUpstreams' /\ rowDeps' \in [Nodes -> Nat]
<1>1. /\ row[n] = "running" /\ row'[n] = RowOf(outcome[n]) /\ outcome[n] \in {"succeeded", "failed"}
      /\ \A m \in Nodes : m # n => row'[m] = row[m]
  BY DEF NodeReports, IInv, TypeOK, TaskInv
<1>2. row'[n] = outcome[n]
  BY <1>1 DEF RowOf
<1> DEFINE Counted(d) == {u \in Up(d) : row[u] # "succeeded"}
<1>3. \A d \in Nodes : rowDeps'[d] = IF outcome[n] = "succeeded" /\ n \in Up(d) /\ row[d] = "pending"
                                       THEN rowDeps[d] - 1 ELSE rowDeps[d]
  BY DEF NodeReports, ReleasedRows, Down, Up
<1>4. ASSUME NEW d \in Nodes, row[d] = "pending"
      PROVE  /\ Counted(d)' = IF outcome[n] = "succeeded" THEN Counted(d) \ {n} ELSE Counted(d)
             /\ rowDeps'[d] = Cardinality(Counted(d)') /\ rowDeps'[d] \in Nat
  <2>1. Counted(d)' = IF outcome[n] = "succeeded" THEN Counted(d) \ {n} ELSE Counted(d)
    BY <1>1, <1>2, InputsFixed DEF NodeReports, Up
  <2>2. n \in Up(d) <=> n \in Counted(d)
    BY <1>1
  <2>3. IsFiniteSet(Counted(d)) /\ Cardinality(Counted(d)) \in Nat /\ rowDeps[d] = Cardinality(Counted(d))
    <3>1. IsFiniteSet(Counted(d))
      BY UpFacts, FS_Subset DEF IInv, TypeOK
    <3> QED
      BY <3>1, <1>4, FS_CardinalityType DEF IInv, RowsCountUpstreams
  <2>4. IsFiniteSet(Counted(d) \ {n}) /\ Cardinality(Counted(d) \ {n}) \in Nat
        /\ Cardinality(Counted(d) \ {n}) = IF n \in Counted(d) THEN Cardinality(Counted(d)) - 1 ELSE Cardinality(Counted(d))
    BY <2>3, FS_RemoveElement, FS_CardinalityType
  <2> HIDE DEF Counted
  <2> QED
    BY <1>3, <1>4, <2>1, <2>2, <2>3, <2>4
<1>5. RowsCountUpstreams'
  <2>1. \A d \in Nodes : row'[d] = "pending" => row[d] = "pending"
    BY <1>1, <1>2
  <2> QED
    BY <1>4, <2>1 DEF RowsCountUpstreams
<1>6. \A d \in Nodes : rowDeps'[d] \in Nat
  BY <1>3, <1>4 DEF IInv, TypeOK
<1>7. rowDeps' \in [Nodes -> Nat]
  <2>1. rowDeps' = [d \in Nodes |-> rowDeps'[d]]
    BY DEF NodeReports, ReleasedRows
  <2> QED
    BY <1>6, <2>1, Zenon
<1> QED
  BY <1>5, <1>7

\* A report moves the row of its node and the rows of its downstreams.
LEMMA ReportsStep == ASSUME NEW n \in Nodes, IInv, NodeReports(n) PROVE IInv'
<1>1. /\ NodeMoves(n) /\ UNCHANGED <<phase, faults, outcome>>
      /\ task[n] = "reporting" /\ task'[n] = "done"
  BY DEF NodeReports, NodeMoves, loopVars, IInv, TypeOK, TaskStates
<1>2. /\ row' \in [Nodes -> RowStatus] /\ row'[n] = RowOf(outcome[n]) /\ row'[n] # "cancelled"
      /\ row[n] = "running" /\ outcome[n] \in {"succeeded", "failed"}
  <2>1. row[n] = "running" /\ outcome[n] \in {"succeeded", "failed"}
    BY <1>1 DEF IInv, TaskInv
  <2>2. RowOf(outcome[n]) \in {"succeeded", "failed"}
    BY <2>1 DEF RowOf
  <2> QED
    BY <2>1, <2>2 DEF NodeReports, IInv, TypeOK, RowStatus
<1>3. \A m \in Nodes : m # n => row'[m] = row[m] /\ task'[m] = task[m]
  BY DEF NodeReports, IInv, TypeOK
<1>4. TypeOK'
  BY <1>1, <1>2, NodeMovesFacts, ReportsRows DEF IInv, TypeOK
<1>5. TaskInv'
  <2>1. remaining' = remaining
    BY <1>1 DEF NodeMoves
  <2> QED
    BY <1>1, <1>2, <1>3, <2>1 DEF IInv, TaskInv
<1>6. PhaseInv'
  BY <1>1, <1>2, <1>3, NodeMovesFacts DEF IInv, PhaseInv, NodeMoves
<1>7. RunsAfterUpstreams' /\ AgreesWithSequential'
  BY <1>1, <1>3, InputsFixed DEF IInv, RunsAfterUpstreams, AgreesWithSequential, NodeMoves
<1>8. SkipInv' /\ ResultInv'
  BY <1>1 DEF IInv, SkipInv, ResultInv, NodeMoves
<1>9. FaultInv'
  BY <1>1, <1>2, <1>3 DEF IInv, FaultInv
<1> QED
  BY <1>1, <1>4, <1>5, <1>6, <1>7, <1>8, <1>9, NodeMovesFacts, ReportsRows DEF IInv

-----------------------------------------------------------------------------
(***************************************************************************)
(* The executor, and all steps together                                    *)
(***************************************************************************)
\* The event stays set: seeing the request disturbs nothing else.
LEMMA CancelStep == IInv /\ HeartbeatSeesCancel => IInv'
<1> SUFFICES ASSUME IInv, HeartbeatSeesCancel PROVE IInv'
  OBVIOUS
<1>1. TaskInv' /\ DepsInv' /\ RowsCountUpstreams' /\ RunsAfterUpstreams' /\ AgreesWithSequential'
  BY StepsAside DEF HeartbeatSeesCancel, loopVars
<1>2. TypeOK'
  BY DEF IInv, TypeOK, HeartbeatSeesCancel, inputs, loopVars, rowVars
<1>3. SweepInv'
  BY InputsFixed DEF IInv, SweepInv, HeartbeatSeesCancel, loopVars, Up
<1>4. PhaseInv' /\ LateInv' /\ SkipInv' /\ FaultInv' /\ ResultInv'
  BY DEF IInv, PhaseInv, LateInv, SkipInv, FaultInv, ResultInv, HeartbeatSeesCancel, loopVars, rowVars
<1> QED
  BY <1>1, <1>2, <1>3, <1>4 DEF IInv

\* When the loop returned without a cancel and no node failed, all succeeded.
LEMMA AllSucceeded ==
  ASSUME IInv, phase = "returned", ~cancel, \A n \in Nodes : outcome[n] # "failed"
  PROVE  \A n \in Nodes : outcome[n] = "succeeded"
<1>1. remaining = {} /\ \A n \in Nodes : outcome[n] # "skipped"
  BY DEF IInv, SkipInv
<1>2. \A n \in Nodes : task[n] = "done" /\ outcome[n] # "none"
  BY <1>1 DEF IInv, PhaseInv, TaskInv
<1> QED
  BY <1>2 DEF IInv, TaskInv

\* The run is concluded with the verdict its outcomes call for.
LEMMA ConcludeStep == IInv /\ Conclude => IInv'
<1> SUFFICES ASSUME IInv, Conclude PROVE IInv'
  OBVIOUS
<1>1. TaskInv' /\ DepsInv' /\ RowsCountUpstreams' /\ RunsAfterUpstreams' /\ AgreesWithSequential'
  BY StepsAside DEF Conclude, loopVars
<1>2. TypeOK'
  BY DEF IInv, TypeOK, Conclude, Verdict, inputs, loopVars, rowVars, Results
<1>3. SweepInv'
  BY InputsFixed DEF IInv, SweepInv, Conclude, loopVars, Up
<1>4. PhaseInv' /\ LateInv' /\ SkipInv' /\ FaultInv'
  BY DEF IInv, PhaseInv, LateInv, SkipInv, FaultInv, Conclude, loopVars, rowVars
<1>5. ResultInv'
  <2>1. CASE phase = "raised"
    BY <2>1 DEF IInv, FaultInv, ResultInv, Conclude
  <2>2. CASE phase = "returned"
    <3>1. result' = Verdict /\ UNCHANGED <<outcome, cancel, faults>>
      BY <2>2 DEF Conclude
    <3>2. Verdict = "succeeded" => ~cancel /\ \A n \in Nodes : outcome[n] # "failed"
      BY DEF Verdict
    <3>3. Verdict = "failed" => \E n \in Nodes : outcome[n] = "failed"
      BY DEF Verdict
    <3>4. Verdict = "cancelled" => cancel
      BY DEF Verdict
    <3> QED
      BY <2>2, <3>1, <3>2, <3>3, <3>4, AllSucceeded DEF ResultInv
  <2> QED
    BY <2>1, <2>2 DEF Conclude
<1> QED
  BY <1>1, <1>2, <1>3, <1>4, <1>5 DEF IInv

\* A stutter changes nothing.
LEMMA StutterStep == IInv /\ UNCHANGED vars => IInv'
<1> SUFFICES ASSUME IInv, UNCHANGED vars PROVE IInv'
  OBVIOUS
<1>1. TaskInv' /\ DepsInv' /\ RowsCountUpstreams' /\ RunsAfterUpstreams' /\ AgreesWithSequential'
  BY StepsAside DEF vars, loopVars
<1>2. TypeOK'
  BY DEF IInv, TypeOK, vars, inputs, loopVars, rowVars
<1>3. SweepInv'
  BY InputsFixed DEF IInv, SweepInv, vars, loopVars, Up
<1>4. PhaseInv' /\ LateInv' /\ SkipInv' /\ FaultInv' /\ ResultInv'
  BY DEF IInv, PhaseInv, LateInv, SkipInv, FaultInv, ResultInv, vars, loopVars, rowVars
<1> QED
  BY <1>1, <1>2, <1>3, <1>4 DEF IInv

\* Every step preserves the invariant.
LEMMA StepInvariant == IInv /\ [Next]_vars => IInv'
<1> SUFFICES ASSUME IInv, [Next]_vars PROVE IInv'
  OBVIOUS
<1>1. CASE LoopStep
  BY <1>1, BoundaryStep, StartStep, LeaveStep, EndStep, ConcludeStep, PassesStep, SkipSteps DEF LoopStep
<1>2. ASSUME NEW n \in Nodes, NodeStep(n) PROVE IInv'
  BY <1>2, StartsStep, FinishesStep, ReportsStep DEF NodeStep
<1>3. ASSUME NEW n \in Nodes, NodeFault(n) PROVE IInv'
  BY <1>3, SkipSteps, RaiseSteps DEF NodeFault
<1>4. CASE Finished \/ UNCHANGED vars
  BY <1>4, StutterStep DEF Finished
<1> QED
  BY <1>1, <1>2, <1>3, <1>4, CancelStep DEF Next

-----------------------------------------------------------------------------
(***************************************************************************)
(* The theorems                                                            *)
(***************************************************************************)
\* The inductive invariant holds.
THEOREM Invariant == Spec => []IInv
<1>1. QED
  BY InitInvariant, StepInvariant, PTL DEF Spec

\* Type correctness: no counter of the loop or of the rows falls below zero.
THEOREM TypeCorrect == Spec => []TypeOK
<1>1. QED
  BY Invariant, PTL DEF IInv

\* In every graph a node is started only after all its upstreams succeeded.
THEOREM UpstreamsFirst == Spec => []RunsAfterUpstreams
<1>1. QED
  BY Invariant, PTL DEF IInv

\* Outcomes are those of the sequential engine, for every graph, every set of
\* broken nodes, every interleaving and every fault.
THEOREM Agreement == Spec => []AgreesWithSequential
<1>1. QED
  BY Invariant, PTL DEF IInv

\* The verdict recorded on the run is the one its nodes call for.
THEOREM Honesty == Spec => []VerdictIsHonest
<1>1. IInv => VerdictIsHonest
  <2> SUFFICES ASSUME IInv PROVE VerdictIsHonest
    OBVIOUS
  <2>1. \A n \in Nodes : outcome[n] = "failed" => Sequential[n] = "failed"
    BY DEF IInv, AgreesWithSequential
  <2> QED
    BY <2>1 DEF IInv, ResultInv, VerdictIsHonest
<1> QED
  BY <1>1, Invariant, PTL

\* A pending row's counter is that of the upstream rows still to succeed.
THEOREM RowsCount == Spec => []RowsCountUpstreams
<1>1. QED
  BY Invariant, PTL DEF IInv

\* Whenever the event is set, at most one more wave is started.
THEOREM CancelLands == Spec => []CancelLandsAtBoundary
<1>1. IInv => CancelLandsAtBoundary
  BY DEF IInv, LateInv, CancelLandsAtBoundary
<1> QED
  BY <1>1, Invariant, PTL

\* Without a fault the rows of a run that has its verdict say what happened.
THEOREM RowsTell == Spec => []RowsTellOutcomes
<1>1. IInv => RowsTellOutcomes
  BY DEF IInv, PhaseInv, FaultInv, RowsTellOutcomes
<1> QED
  BY <1>1, Invariant, PTL

\* Rows only move forward, also those of coroutines that outlive the loop.
THEOREM RowsForward == Spec => RowsAdvance
<1> DEFINE Forward(n) ==
      \/ row'[n] = row[n]
      \/ row[n] = "pending" /\ row'[n] \in {"running", "cancelled"}
      \/ row[n] = "running" /\ row'[n] \in {"succeeded", "failed"}
<1>1. ASSUME IInv, Next PROVE \A n \in Nodes : Forward(n)
  <2>1. ASSUME NEW m \in Nodes, SweepSkips(m) \/ CancelSkips(m) PROVE \A n \in Nodes : Forward(n)
    <3>1. row[m] = "pending" /\ row' = [row EXCEPT ![m] = "cancelled"]
      BY <1>1, <2>1 DEF SweepSkips, CancelSkips, RowOf, IInv, TypeOK, PhaseInv, TaskInv
    <3> QED
      BY <1>1, <3>1 DEF IInv, TypeOK
  <2>2. ASSUME NEW m \in Nodes, NodeStarts(m) \/ PredicateRaises(m) PROVE \A n \in Nodes : Forward(n)
    <3>1. row[m] = "pending" /\ row' = [row EXCEPT ![m] = "running"]
      BY <1>1, <2>2 DEF NodeStarts, PredicateRaises, IInv, TaskInv
    <3> QED
      BY <1>1, <3>1 DEF IInv, TypeOK
  <2>3. ASSUME NEW m \in Nodes, NodeReports(m) PROVE \A n \in Nodes : Forward(n)
    <3>1. row[m] = "running" /\ outcome[m] \in {"succeeded", "failed"}
      BY <1>1, <2>3 DEF NodeReports, IInv, TaskInv
    <3>2. RowOf(outcome[m]) \in {"succeeded", "failed"}
      BY <3>1 DEF RowOf
    <3> QED
      BY <1>1, <2>3, <3>1, <3>2 DEF NodeReports, IInv, TypeOK
  <2>4. \/ row' = row
        \/ \E m \in Nodes : SweepSkips(m) \/ CancelSkips(m) \/ NodeStarts(m) \/ PredicateRaises(m) \/ NodeReports(m)
    BY <1>1 DEF Next, LoopStep, NodeStep, NodeFault, Boundary, StartWave, LeaveLoop, EndWave, Conclude,
       SweepPasses, NodeFinishes, SkipRaises, StartRaises, ReportRaises, HeartbeatSeesCancel, Finished,
       vars, rowVars
  <2> QED
    BY <2>1, <2>2, <2>3, <2>4
<1>2. IInv /\ [Next]_vars => [\A n \in Nodes : Forward(n)]_vars
  BY <1>1
<1> QED
  BY <1>2, Invariant, PTL DEF Spec, RowsAdvance
=============================================================================
