------------------------------ MODULE UndoStack ------------------------------
(***************************************************************************)
(* What the undo of the pipeline builder promises its user: a present       *)
(* graph, the graphs it came from, the latest last, and the graphs that     *)
(* were undone, the next one first.  An edit forgets the undone ones; of    *)
(* the past no more than Depth graphs are remembered, the oldest go first.  *)
(***************************************************************************)
EXTENDS Integers, Sequences

CONSTANTS Graph,    \* the graphs
          None,     \* no graph: nothing loaded
          Depth     \* how many steps back are remembered

VARIABLES past, present, future
vars == <<past, present, future>>

Init == past = <<>> /\ present = None /\ future = <<>>

Load ==
  /\ present' \in Graph /\ past' = <<>> /\ future' = <<>>

Edit ==
  /\ present # None /\ present' \in Graph
  /\ past' = (IF Len(past) < Depth THEN Append(past, present)
              ELSE Tail(Append(past, present)))
  /\ future' = <<>>

Undo ==
  /\ past # <<>>
  /\ present' = past[Len(past)]
  /\ past' = SubSeq(past, 1, Len(past) - 1)
  /\ future' = <<present>> \o future

Redo ==
  /\ future # <<>>
  /\ present' = Head(future)
  /\ future' = Tail(future)
  /\ past' = Append(past, present)

Next == Load \/ Edit \/ Undo \/ Redo

Spec == Init /\ [][Next]_vars
=============================================================================
