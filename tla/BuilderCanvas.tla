---------------------------- MODULE BuilderCanvas ----------------------------
(***************************************************************************)
(* The canvas of the pipeline builder: what it, its menus and its shortcuts *)
(* do to the graph (components/builder/graph-editor.tsx and                 *)
(* graph-canvas.tsx), what makes it fit to be saved, and how it is written  *)
(* to and read from a stored configuration (lib/pipeline-config.ts); each   *)
(* operation is committed to the undo stack of GraphHistory by the handler  *)
(* that performs it.                                                        *)
(* A graph has `nodes`, a function from node ids to [op, wired], and        *)
(* `edges`, a set of [from, to, when].  An operator is its kind; `wired`    *)
(* says that its connection field is filled in, `when` that an edge has a   *)
(* branch condition.  Positions are left out: a move and an auto-layout     *)
(* give a graph that is the same here, and a new snapshot.                  *)
(* The selections are not state of the model: a handler acts on any node or *)
(* edge on screen, and the two that act on remembered ids (the context      *)
(* menus and Cmd+D) on any id made so far, since what they remember         *)
(* survives an undo that takes the node away.                               *)
(***************************************************************************)
EXTENDS Integers, Sequences, FiniteSets, Functions, TLC, GraphHistory
LOCAL INSTANCE FiniteSetsExt

CONSTANTS NodeIds,    \* a range of numbers; makeNode takes the next one
          Palette,    \* the operators the user may drop: a subset of Op
          Start,      \* the stored graphs a load may bring, where it is no new one
          MaxEdits    \* bound: commits of one behaviour

(* The graph *)

Op == {"source", "transform", "join", "sink", "operator"}
Node == [op : Op, wired : BOOLEAN]
Edge == [from : NodeIds, to : NodeIds, when : BOOLEAN]
GraphOK(g) ==
  /\ DOMAIN g = {"nodes", "edges"}
  /\ DOMAIN g.nodes \subseteq NodeIds
  /\ \A n \in DOMAIN g.nodes : g.nodes[n] \in Node
  /\ g.edges \subseteq Edge

Ids(g) == DOMAIN g.nodes
Touches(e, ids) == e.from \in ids \/ e.to \in ids
Into(g, n) == {e \in g.edges : e.to = n}

\* The nodes a walk along the edges can reach from n, n itself included.
ReachedFrom(edges, n) ==
  LET within[k \in 0..Cardinality(NodeIds)] ==
        IF k = 0 THEN {n}
        ELSE within[k-1] \cup {e.to : e \in {x \in edges : x.from \in within[k-1]}}
  IN  within[Cardinality(NodeIds)]

\* Mutant: the walk from the target is left out.
ConnectionAllowed_NoWalk(g, a, b) ==
  /\ a # b
  /\ g.nodes[b].op # "source"
  /\ g.nodes[b].op \in {"operator", "join"} \/ Into(g, b) = {}
  /\ ~\E e \in g.edges : e.from = a /\ e.to = b

\* What the canvas lets the user connect: no loop, nothing into a source, one
\* input except for joins and operators, no second edge, no cycle.
ConnectionAllowed(g, a, b) ==
  /\ a # b
  /\ g.nodes[b].op # "source"
  /\ g.nodes[b].op \in {"operator", "join"} \/ Into(g, b) = {}
  /\ ~\E e \in g.edges : e.from = a /\ e.to = b
  /\ a \notin ReachedFrom(g.edges, b)

AddOperator(g, id, op) ==
  [g EXCEPT !.nodes = @ @@ (id :> [op |-> op, wired |-> FALSE])]

RemoveNodes(g, ids) ==
  [nodes |-> Restrict(g.nodes, Ids(g) \ ids),
   edges |-> {e \in g.edges : ~Touches(e, ids)}]

UpdateNode(g, id, wired) == [g EXCEPT !.nodes[id].wired = wired]

Connect(g, a, b) ==
  [g EXCEPT !.edges = @ \cup {[from |-> a, to |-> b, when |-> FALSE]}]

RemoveEdge(g, edge) == [g EXCEPT !.edges = @ \ {edge}]

SetEdgeWhen(g, edge, when) ==
  [g EXCEPT !.edges = (@ \ {edge}) \cup {[edge EXCEPT !.when = when]}]

\* Copies of the nodes of ids, under the ids `copy` gives them, with copies of
\* the edges that join two of them.
DuplicateNodes(g, copy) ==
  LET copies == {copy[n] : n \in DOMAIN copy}
      inner  == {e \in g.edges : e.from \in DOMAIN copy /\ e.to \in DOMAIN copy}
  IN  [nodes |-> g.nodes @@ [c \in copies |-> g.nodes[CHOOSE n \in DOMAIN copy : copy[n] = c]],
       edges |-> g.edges \cup {[from |-> copy[e.from], to |-> copy[e.to], when |-> e.when] : e \in inner}]

\* The context menu's Duplicate: one node, none of its edges.
DuplicateNode(g, id, new) == [g EXCEPT !.nodes = @ @@ (new :> @[id])]

DisconnectNode(g, id) == [g EXCEPT !.edges = {e \in @ : ~Touches(e, {id})}]

\* The problems of node n that stop a save (validateGraphStructured).
NodeIssues(g, n) ==
  LET node == g.nodes[n]
      d == Cardinality(Into(g, n))
  IN  (IF node.op \in {"source", "sink"} /\ ~node.wired THEN {"missing_connection"} ELSE {})
      \cup (IF node.op = "join" /\ d < 2 THEN {"join_needs_two"} ELSE {})
      \cup (IF node.op \in {"transform", "sink"} /\ d = 0 THEN {"missing_input"} ELSE {})
      \cup (IF node.op \in {"transform", "sink"} /\ d > 1 THEN {"wrong_fanin"} ELSE {})

GraphIssues(g) == UNION {{<<n, i>> : i \in NodeIssues(g, n)} : n \in Ids(g)}

\* The graph a new pipeline starts from.
BlankGraph ==
  [nodes |-> (1 :> [op |-> "source", wired |-> FALSE]) @@ (2 :> [op |-> "sink", wired |-> FALSE]),
   edges |-> {[from |-> 1, to |-> 2, when |-> FALSE]}]

\* Every edge joins two nodes of the graph.
EdgesJoinNodes(g) == \A e \in g.edges : e.from \in Ids(g) /\ e.to \in Ids(g)

\* No node can be reached from one of its own successors.
Acyclic(g) == \A e \in g.edges : e.from \notin ReachedFrom(g.edges, e.to)

\* Sources read nothing, and only joins and operators read more than one node.
FanInKept(g) ==
  \A n \in Ids(g) :
    /\ g.nodes[n].op = "source" => Into(g, n) = {}
    /\ g.nodes[n].op \in {"transform", "sink"} => Cardinality(Into(g, n)) <= 1

\* Between two nodes there is one edge at most.
NoParallelEdges(g) ==
  \A e, f \in g.edges : e.from = f.from /\ e.to = f.to => e = f

------------------------------------------------------------------------------
(* The canvas *)

VARIABLES history, minted, edits
vars == <<history, minted, edits>>

graph == Shown(history)
Open == graph # NoGraph

Init ==
  /\ \E g \in Start \cup {BlankGraph} : history = SetInitial(g)
  /\ minted = 2 /\ edits = 0

\* The ids makeNode hands out next, and those it ever handed out.
Fresh(k) == {minted + i : i \in 1..k}
Remembered == 1..minted

Edit(gs) ==
  /\ edits + Len(gs) <= MaxEdits
  /\ history' = CommitBatch(history, gs)
  /\ edits' = edits + Len(gs)

\* An edit that makes k nodes, and one that makes none.
EditMinting(k, g) ==
  /\ Fresh(k) \subseteq NodeIds
  /\ Edit(<<g>>) /\ minted' = minted + k

EditOnly(gs) == Edit(gs) /\ UNCHANGED minted

DropOperator(op) == EditMinting(1, AddOperator(graph, minted + 1, op))

\* The delete button of a node, and the context menu's Delete.
RemoveOne(n) == EditOnly(<<RemoveNodes(graph, {n})>>)

\* Backspace: the canvas reports the edges that go (the selected ones and every
\* edge of a selected node) one handler call each, then the nodes in one call,
\* all from the same render.
KeyDelete(ids, es) ==
  LET gone == es \cup {e \in graph.edges : Touches(e, ids)}
      edgeCommits == FoldSet(LAMBDA e, commits : Append(commits, RemoveEdge(graph, e)), <<>>, gone)
      nodeCommits == IF ids = {} THEN <<>> ELSE <<RemoveNodes(graph, ids)>>
  IN  /\ ids # {} \/ gone # {}
      /\ edits + Cardinality(gone) <= MaxEdits
      /\ EditOnly(edgeCommits \o nodeCommits)

\* The properties panel writes the whole data of the node it shows.
EditNode(n, wired) == EditOnly(<<UpdateNode(graph, n, wired)>>)

\* A drag and an auto-layout: a snapshot whose graph differs in positions only.
Rearrange == Ids(graph) # {} /\ EditOnly(<<graph>>)

Draw(a, b) == ConnectionAllowed(graph, a, b) /\ EditOnly(<<Connect(graph, a, b)>>)

EraseEdge(e) == EditOnly(<<RemoveEdge(graph, e)>>)

Condition(e, when) == EditOnly(<<SetEdgeWhen(graph, e, when)>>)

MenuDuplicate(n) == EditMinting(1, DuplicateNode(graph, n, minted + 1))

\* Cmd+D: ids that are gone are passed over, and a snapshot is committed even
\* when nothing is left to copy.
KeyDuplicate(marked) ==
  LET real == marked \cap Ids(graph)
      k == Cardinality(real)
      copy == CHOOSE f \in [real -> Fresh(k)] : Range(f) = Fresh(k)
  IN  marked # {} /\ EditMinting(k, DuplicateNodes(graph, copy))

MenuDisconnect(n) ==
  /\ \E e \in graph.edges : Touches(e, {n})
  /\ EditOnly(<<DisconnectNode(graph, n)>>)

StepBack ==
  /\ CanUndo(history) /\ history' = Undo(history)
  /\ UNCHANGED <<minted, edits>>

StepForward ==
  /\ CanRedo(history) /\ history' = Redo(history)
  /\ UNCHANGED <<minted, edits>>

NodeStep(n) ==
  \/ \E wired \in BOOLEAN : EditNode(n, wired)
  \/ \E b \in Ids(graph) : Draw(n, b)
  \/ MenuDuplicate(n) \/ MenuDisconnect(n)

EdgeStep(e) == EraseEdge(e) \/ \E when \in BOOLEAN : Condition(e, when)

GraphStep ==
  \/ \E op \in Palette : DropOperator(op)
  \/ \E n \in Ids(graph) : NodeStep(n)
  \/ \E e \in graph.edges : EdgeStep(e)
  \/ \E n \in Remembered : RemoveOne(n)
  \/ \E marked \in SUBSET Remembered : KeyDuplicate(marked)
  \/ \E ids \in SUBSET Ids(graph), es \in SUBSET graph.edges : KeyDelete(ids, es)
  \/ Rearrange

Next == (Open /\ GraphStep) \/ StepBack \/ StepForward

Spec == Init /\ [][Next]_vars

TypeOK ==
  /\ \A i \in DOMAIN history.stack : GraphOK(history.stack[i])
  /\ Len(history.stack) \in 1..Capacity /\ history.index \in 0..(Capacity - 1)
  /\ minted \in NodeIds /\ edits \in 0..MaxEdits

(* Whatever the order of drops, connections, duplications, deletions, undo and
   redo, no snapshot of the stack has an edge without its nodes, a cycle, a
   second edge between two nodes or an input its operator does not take: the
   canvas alone guards this, the save only re-checks the number of inputs
   (connectionAllowed; duplicateNodes copies the inner edges to the copies). *)
ShapeKept ==
  \A i \in DOMAIN history.stack :
    LET g == history.stack[i]
    IN  EdgesJoinNodes(g) /\ Acyclic(g) /\ FanInKept(g) /\ NoParallelEdges(g)

(* Refuted.  Once a pipeline is loaded the editor has a graph to show: no graph is
   what the page takes for "while the pipeline is fetching" (edit/page.tsx:101). *)
GraphStaysOnScreen == Loaded(history) => graph # NoGraph
=============================================================================
