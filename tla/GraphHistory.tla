---------------------------- MODULE GraphHistory ----------------------------
(***************************************************************************)
(* The undo stack of the pipeline builder (lib/use-graph-history.ts), as   *)
(* operators on a record: `stack` is the sequence of snapshots and `index` *)
(* the position shown, counted from 0 as the hook counts it, -1 while      *)
(* nothing has been loaded.  A commit reads `index` from the closure of    *)
(* the render it was created in, and the two setters it calls run on the   *)
(* state of their turn; several commits of one batch therefore all         *)
(* truncate at the same index while each of them advances it.              *)
(***************************************************************************)
EXTENDS Integers, Sequences

CONSTANTS Capacity,   \* how many snapshots the stack keeps
          NoGraph     \* what the editor has before (or without) a graph

ASSUME CapacityAssumption == Capacity \in Nat \ {0, 1}

NoHistory == [stack |-> <<>>, index |-> -1]

Histories(Graph) ==
  [stack : Seq(Graph), index : Int]

\* A load replaces the stack, so that it is never an undo target.
SetInitial(g) == [stack |-> <<g>>, index |-> 0]

\* The snapshot the editor renders: none when the index is off the stack.
Shown(h) ==
  IF h.index >= 0 /\ h.index < Len(h.stack) THEN h.stack[h.index + 1] ELSE NoGraph

Loaded(h) == h.index >= 0

Least(a, b) == IF a <= b THEN a ELSE b

\* Mutant: the undone snapshots are kept.
Pushed_KeepsUndone(stack, at, g) ==
  LET kept == Append(stack, g)
  IN  IF Len(kept) > Capacity THEN Tail(kept) ELSE kept

\* The stack keeps the snapshots up to the index the closure saw, then g, and
\* loses its oldest one beyond the capacity.
Pushed(stack, at, g) ==
  LET kept == Append(SubSeq(stack, 1, at + 1), g)
  IN  IF Len(kept) > Capacity THEN Tail(kept) ELSE kept

\* One commit of a closure that saw the index `at`.
CommitAt(h, at, g) ==
  [stack |-> Pushed(h.stack, at, g), index |-> Least(h.index + 1, Capacity - 1)]

Commit(h, g) == CommitAt(h, h.index, g)

\* All the commits gs of one batch: they share the index of the last render.
CommitBatch(h, gs) ==
  LET after[k \in 0..Len(gs)] ==
        IF k = 0 THEN h ELSE CommitAt(after[k-1], h.index, gs[k])
  IN  after[Len(gs)]

CanUndo(h) == h.index > 0
CanRedo(h) == h.index >= 0 /\ h.index < Len(h.stack) - 1

Undo(h) == [h EXCEPT !.index = IF @ > 0 THEN @ - 1 ELSE @]
Redo(h) == [h EXCEPT !.index = IF @ < Len(h.stack) - 1 THEN @ + 1 ELSE @]

\* The editor always has a snapshot to show once it has been given one.
InBounds(h) == Loaded(h) => h.index < Len(h.stack) /\ Len(h.stack) <= Capacity
=============================================================================
