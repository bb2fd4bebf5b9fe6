--------------------------- MODULE PipelineConfig ---------------------------
(***************************************************************************)
(* How a stored pipeline becomes the builder's canvas and the canvas is     *)
(* stored again (lib/pipeline-config.ts, edit/page.tsx).  A configuration   *)
(* has one of three shapes: a source with transforms and sinks, a dataflow  *)
(* graph, or tasks that wait for each other.  The first is opened as the    *)
(* second.  Requests are PipelineEditor's; here opening and saving are      *)
(* steps, and the question is what the conversions keep.                    *)
(***************************************************************************)
EXTENDS Browser, SequencesExt

NoConn == ""
\* Connections by name, and the connector each is of; "gone" was deleted.
TypeOf == ("pg" :> "postgres") @@ ("lake" :> "s3") @@ ("api" :> "http")
Operators(kind) ==
  CASE kind = "source" -> {"postgres", "s3", "http", "sql_exec"}
    [] kind = "sink" -> {"postgres", "s3"}
    [] kind = "transform" -> {"filter", "join", "aggregate"}

Trimmed(name) == CASE name = "b " -> "b" [] name = " " -> "" [] OTHER -> name

------------------------------------------------------------------------------
(* Dataflow graphs *)

\* A source or a sink is drawn by its connection's connector, else as Postgres.
GuessConnectorType(kind, conn) ==
  IF conn \in DOMAIN TypeOf /\ TypeOf[conn] \in Operators(kind) THEN TypeOf[conn] ELSE "postgres"

\* The operator of a stored node: a transform nobody knows becomes a filter.
FromWire(n) ==
  CASE n.type = "transform" -> [kind |-> "transform", type |-> IF n.transform \in Operators("transform") THEN n.transform ELSE "filter", conn |-> n.conn]
    [] n.type \in {"join", "aggregate"} -> [kind |-> "transform", type |-> n.type, conn |-> n.conn]
    [] n.type = "sql_exec" -> [kind |-> "source", type |-> "sql_exec", conn |-> n.conn]
    [] OTHER -> [kind |-> n.type, type |-> GuessConnectorType(n.type, n.conn), conn |-> n.conn]
DeserializeGraph(config) == [nodes |-> [i \in DOMAIN config.nodes |-> FromWire(config.nodes[i])], edges |-> config.edges]

\* Joins, aggregates and standalone SQL have a type of their own.
ToWire(d) ==
  LET own == d.type \in {"join", "aggregate", "sql_exec"}
      transform == d.kind = "transform" /\ ~own
  IN  [type |-> IF own THEN d.type ELSE d.kind, transform |-> IF transform THEN d.type ELSE "none", conn |-> d.conn]
SerializeGraph(canvas) == [shape |-> "graph", nodes |-> [i \in DOMAIN canvas.nodes |-> ToWire(canvas.nodes[i])], edges |-> canvas.edges]

\* A pipeline without a graph: its source, transforms and sinks in a row.  A
\* transform nobody knows is left out; a sink's condition goes to its edge.
Deserialize(config) ==
  LET known == SelectSeq(config.transforms, LAMBDA f : f \in Operators("transform"))
      kept == <<[kind |-> "source", type |-> GuessConnectorType("source", config.source), conn |-> config.source]>>
              \o [i \in DOMAIN known |-> [kind |-> "transform", type |-> known[i], conn |-> NoConn]]
  IN  [spine |-> kept, sinks |-> [i \in DOMAIN config.sinks |->
         [kind |-> "sink", type |-> GuessConnectorType("sink", config.sinks[i].conn), conn |-> config.sinks[i].conn, when |-> config.sinks[i].when]]]
LinearToGraph(linear) ==
  LET tail == Len(linear.spine)
      sinks == linear.sinks
  IN  [nodes |-> linear.spine \o [i \in DOMAIN sinks |-> [kind |-> "sink", type |-> sinks[i].type, conn |-> sinks[i].conn]],
       edges |-> {[from |-> i, to |-> i + 1, when |-> "all"] : i \in 1..tail - 1}
                 \cup {[from |-> tail, to |-> tail + i, when |-> sinks[i].when] : i \in DOMAIN sinks}]

\* What the runtime makes of such a pipeline (etl_plugins/runtime/graph.py).
Lowered(config) ==
  LET transforms == config.transforms
      tail == 1 + Len(transforms)
      sinks == config.sinks
  IN  [shape |-> "graph",
       nodes |-> <<[type |-> "source", transform |-> "none", conn |-> config.source]>>
                 \o [i \in DOMAIN transforms |-> [type |-> "transform", transform |-> transforms[i], conn |-> NoConn]]
                 \o [i \in DOMAIN sinks |-> [type |-> "sink", transform |-> "none", conn |-> sinks[i].conn]],
       edges |-> {[from |-> i, to |-> i + 1, when |-> "all"] : i \in 1..tail - 1}
                 \cup {[from |-> tail, to |-> tail + i, when |-> sinks[i].when] : i \in DOMAIN sinks}]

------------------------------------------------------------------------------
(* Tasks: steps of an orchestration, whose edges are their order *)

\* A statement is what stands between semicolons, so one with a semicolon in it
\* is several pieces.  The editor has one text: all of them.
Joined_First(statements) == Head(statements)
Joined(statements) == FlattenSeq(statements)
Split(text) == LET full == SelectSeq(text, LAMBDA p : p # "") IN [i \in DOMAIN full |-> <<full[i]>>]

NoRetry == [attempts |-> 0, pace |-> "none"]
NodesOf(canvas) == DOMAIN canvas.nodes
Upstream(canvas, i) == {e.from : e \in {f \in canvas.edges : f.to = i}}
Downstream(canvas, i) == {e.to : e \in {f \in canvas.edges : f.from = i}}

\* A load writes to one sink, its read connection unless another is given; of a
\* source's and a sink's options it keeps those it has a field for.
TaskOf(canvas, i) ==
  LET d == canvas.nodes[i]
  IN  [name |-> d.name, kind |-> d.op, conn |-> d.conn,
       sinks |-> IF d.op = "etl" THEN <<IF d.to = NoConn THEN d.conn ELSE d.to>> ELSE <<>>,
       options |-> FALSE,
       text |-> IF d.op = "sql" THEN Split(d.text) ELSE <<d.text>>,
       deps |-> {canvas.nodes[u].name : u \in Upstream(canvas, i)},
       rule |-> d.rule,
       retry |-> IF d.attempts > 1 THEN [attempts |-> d.attempts, pace |-> "exponential"] ELSE NoRetry,
       branch |-> d.branch]
SerializeTasksDAG(canvas) == [shape |-> "tasks", tasks |-> {TaskOf(canvas, i) : i \in NodesOf(canvas)}]

StepOf(t) ==
  [op |-> t.kind, name |-> t.name, conn |-> t.conn,
   to |-> IF t.kind = "etl" /\ t.sinks[1] # t.conn THEN t.sinks[1] ELSE NoConn,
   text |-> IF t.kind = "sql" THEN Joined(t.text) ELSE t.text[1],
   rule |-> t.rule, attempts |-> t.retry.attempts, branch |-> t.branch]
DeserializeTasksDAG(config) ==
  LET order == SetToSeq(config.tasks)
  IN  [nodes |-> [i \in DOMAIN order |-> StepOf(order[i])],
       edges |-> UNION {{[from |-> i, to |-> j, when |-> "all"] : i \in {k \in DOMAIN order : order[k].name \in order[j].deps}} :
                       j \in DOMAIN order}]

\* The problems of an orchestration that stop a save.  Names are compared
\* without the spaces around them.
StepIssues(canvas, i) ==
  LET d == canvas.nodes[i]
      called(j) == Trimmed(canvas.nodes[j].name)
  IN  (IF called(i) = "" THEN {"missing_name"} ELSE {})
      \cup (IF d.conn = NoConn THEN {"missing_connection"} ELSE {})
      \cup (IF d.op # "etl" /\ d.text \in {<<>>, <<"">>} THEN {"missing_statement"} ELSE {})
      \cup (IF called(i) # "" /\ \E j \in NodesOf(canvas) \ {i} : called(j) = called(i) THEN {"duplicate_name"} ELSE {})
      \cup (IF \E b \in d.branch : b \notin {called(j) : j \in Downstream(canvas, i)} THEN {"branch_bad_target"} ELSE {})
ValidateTasksDAG(canvas) == UNION {StepIssues(canvas, i) : i \in NodesOf(canvas)}

------------------------------------------------------------------------------
(* Where a canvas that is opened puts its nodes: columns by a queue *)

\* A node whose column has grown is queued once more; -1: not reached.
LayoutGraph(canvas) ==
  LET nodes == NodesOf(canvas)
      roots == {i \in nodes : Upstream(canvas, i) = {}}
      relax[depth \in [nodes -> Int], queue \in Seq(nodes)] ==
        IF queue = <<>> THEN depth
        ELSE LET at == Head(queue)
                 deeper == {e.to : e \in {f \in canvas.edges : f.from = at /\ depth[f.to] < depth[at] + 1}}
             IN  relax[[i \in nodes |-> IF i \in deeper THEN depth[at] + 1 ELSE depth[i]],
                       Tail(queue) \o SetToSeq(deeper)]
  IN  relax[[i \in nodes |-> IF i \in roots THEN 0 ELSE -1], SetToSeq(roots)]

------------------------------------------------------------------------------
(* Policies: retries, dead letters, freshness; others have no field here *)

FromMeta(meta) == [retry |-> meta.retry, dlq |-> IF meta.dlq THEN "routed" ELSE "off", freshness |-> meta.freshness]
ToMeta(settings) == [retry |-> settings.retry, dlq |-> settings.dlq = "routed", freshness |-> settings.freshness, others |-> FALSE]

Opened(stored) ==
  LET config == stored.config
  IN  [kind |-> IF config.shape = "tasks" THEN "orchestration" ELSE "dataflow",
       canvas |-> CASE config.shape = "tasks" -> DeserializeTasksDAG(config)
                    [] config.shape = "graph" -> DeserializeGraph(config)
                    [] OTHER -> LinearToGraph(Deserialize(config)),
       settings |-> FromMeta(stored.meta)]
Serialized(u) ==
  [config |-> IF u.kind = "orchestration" THEN SerializeTasksDAG(u.canvas) ELSE SerializeGraph(u.canvas), meta |-> ToMeta(u.settings)]

\* A source or sink needs a connection, a transform one input, a join two.
NodeIssues(canvas, i) ==
  LET d == canvas.nodes[i]
      inputs == Cardinality(Upstream(canvas, i))
  IN  (IF d.kind # "transform" /\ d.conn = NoConn THEN {"missing_connection"} ELSE {})
      \cup (IF d.kind # "source" /\ d.type # "join" /\ inputs # 1 THEN {"wrong_fanin"} ELSE {})
      \cup (IF d.type = "join" /\ inputs < 2 THEN {"join_needs_two"} ELSE {})
Issues(u) ==
  IF u.kind = "orchestration" THEN ValidateTasksDAG(u.canvas) ELSE UNION {NodeIssues(u.canvas, i) : i \in NodesOf(u.canvas)}

\* The server refuses a sql step without statements, as one of semicolons is.
Accepts(stored) == stored.config.shape = "tasks" => \A t \in stored.config.tasks : t.kind = "sql" => t.text # <<>>

------------------------------------------------------------------------------
(* What is stored at first *)

Task(name, kind, deps) ==
  [name |-> name, kind |-> kind, conn |-> "pg", sinks |-> IF kind = "etl" THEN <<"pg">> ELSE <<>>, options |-> FALSE,
   text |-> << <<"s">> >>, deps |-> deps, rule |-> "all_success", retry |-> NoRetry, branch |-> {}]
Wire(type, transform, conn) == [type |-> type, transform |-> transform, conn |-> conn]
Flow(from, to, when) == [from |-> from, to |-> to, when |-> when]

TaskSets == {
  {Task("a", "sql", {}), [Task("b", "etl", {"a"}) EXCEPT !.sinks = <<"lake">>]},
  {[Task("a", "sql", {}) EXCEPT !.branch = {"b"}, !.text = << <<"s">>, <<"t">> >>],
   [Task("b", "proc_call", {"a"}) EXCEPT !.rule = "all_done", !.retry = [attempts |-> 3, pace |-> "exponential"]], Task("c", "etl", {"a", "b"})},
  {[Task("a", "sql", {}) EXCEPT !.text = << <<"s", "t">> >>]},
  {[Task("a", "etl", {}) EXCEPT !.sinks = <<"pg", "lake">>]},
  {[Task("a", "etl", {}) EXCEPT !.options = TRUE]},
  {[Task("a", "etl", {}) EXCEPT !.retry = [attempts |-> 3, pace |-> "fixed"]]},
  {[Task("a", "etl", {}) EXCEPT !.retry = [attempts |-> 1, pace |-> "exponential"]]}}
GraphNodes == {
  <<Wire("source", "none", "api"), Wire("transform", "filter", NoConn), Wire("sink", "none", "api")>>,
  <<Wire("sql_exec", "none", "gone"), Wire("aggregate", "none", NoConn), Wire("sink", "none", "lake")>>,
  <<Wire("source", "none", "gone"), Wire("transform", "custom", NoConn), Wire("sink", "none", "pg")>>}
Configs ==
  {[shape |-> "tasks", tasks |-> ts] : ts \in TaskSets}
  \cup {[shape |-> "graph", nodes |-> ns, edges |-> {Flow(1, 2, "some"), Flow(2, 3, "all")}] : ns \in GraphNodes}
  \cup {[shape |-> "single", source |-> "lake", transforms |-> fs, sinks |-> ss] :
          fs \in {<<>>, <<"filter">>, <<"filter", "custom">>},
          ss \in {<<[conn |-> "pg", when |-> "all"]>>, <<[conn |-> "pg", when |-> "some"], [conn |-> "gone", when |-> "all"]>>}}
Policies == {[retry |-> FALSE, dlq |-> FALSE, freshness |-> FALSE, others |-> FALSE], [retry |-> TRUE, dlq |-> TRUE, freshness |-> TRUE, others |-> TRUE]}

Init ==
  /\ \E c \in Configs, m \in Policies : srv = [now |-> [config |-> c, meta |-> m], first |-> [config |-> c, meta |-> m]]
  /\ ui = Opened(srv.now) @@ [saved |-> TRUE, touched |-> FALSE]
  /\ net = <<>> /\ clicks = 0 /\ noise = {}

Gesture == Click /\ UNCHANGED <<net, noise>>
Reopen == Gesture /\ ui' = Opened(srv.now) @@ [saved |-> TRUE, touched |-> ui.touched] /\ UNCHANGED srv

Save ==
  /\ Gesture /\ Issues(ui) = {}
  /\ LET stored == Serialized(ui)
     IN  /\ ui' = [ui EXCEPT !.saved = @ \/ Accepts(stored)]
         /\ srv' = IF Accepts(stored) THEN [srv EXCEPT !.now = stored] ELSE srv

Edit(canvas) == Gesture /\ ui' = [ui EXCEPT !.canvas = canvas, !.saved = FALSE, !.touched = TRUE] /\ UNCHANGED srv
Steps == IF ui.kind = "orchestration" THEN NodesOf(ui.canvas) ELSE {}
EditStep(i) ==
  \/ \E name \in {"", " ", "a", "b ", "c"} : Edit([ui.canvas EXCEPT !.nodes[i].name = name])
  \/ \E text \in {<<>>, <<"", "">>, <<"s", "t">>} : Edit([ui.canvas EXCEPT !.nodes[i].text = text])
  \/ \E conn \in {NoConn, "pg", "lake"} : Edit([ui.canvas EXCEPT !.nodes[i].conn = conn]) \/ Edit([ui.canvas EXCEPT !.nodes[i].to = conn])
  \/ \E n \in {0, 1, 3} : Edit([ui.canvas EXCEPT !.nodes[i].attempts = n])
  \/ \E to \in {{}, {"a"}, {"b"}} : Edit([ui.canvas EXCEPT !.nodes[i].branch = to])
RemoveStep(i) ==
  Edit([nodes |-> Restrict(ui.canvas.nodes, NodesOf(ui.canvas) \ {i}), edges |-> {e \in ui.canvas.edges : i \notin {e.from, e.to}}])
\* The panel of an edge asks for a condition in both kinds of builder.
SetEdgeWhen(e) == \E when \in {"all", "some"} \ {e.when} : Edit([ui.canvas EXCEPT !.edges = (@ \ {e}) \cup {[e EXCEPT !.when = when]}])
EditSettings ==
  \E retry \in BOOLEAN, dlq \in {"off", "unrouted", "routed"} :
    /\ Gesture /\ ui' = [ui EXCEPT !.settings.retry = retry, !.settings.dlq = dlq, !.saved = FALSE, !.touched = TRUE]
    /\ UNCHANGED srv
Next ==
  \/ Reopen \/ Save \/ EditSettings
  \/ \E i \in Steps : EditStep(i) \/ RemoveStep(i)
  \/ \E e \in ui.canvas.edges : SetEdgeWhen(e)

TypeOK == srv.now.config.shape \in {"single", "graph", "tasks"} /\ ui.kind \in {"dataflow", "orchestration"} /\ Quiet

\* What a canvas says, by names; statements without blanks, and a step's target
\* whether it was given or is the default.
Said(u) ==
  IF u.kind = "dataflow" THEN <<u.canvas, u.settings>>
  ELSE <<{TaskOf(u.canvas, i) : i \in NodesOf(u.canvas)}, {e.when : e \in u.canvas.edges}, {u.canvas.nodes[i].attempts : i \in NodesOf(u.canvas)} \ {0}, u.settings>>
NoFieldFor(u) == u.settings.dlq = "unrouted" \/ (u.kind = "orchestration" /\ Said(u)[3] \cap {1} # {})
OrderHasCondition(u) == u.kind = "orchestration" /\ \E e \in u.canvas.edges : e.when # "all"

(* A canvas that was saved is opened as it was: nothing the user entered is
   lost, but for a condition on the order of two steps, a single attempt, and
   dead letters without a connection. *)
ReopensAsSaved == ui.saved /\ ~NoFieldFor(ui) /\ ~OrderHasCondition(ui) => Said(Opened(srv.now)) = Said(ui)

\* What the builder has no field for.
Beyond(stored) ==
  \/ stored.meta.others
  \/ stored.config.shape = "tasks" /\ \E t \in stored.config.tasks :
       \/ Len(t.sinks) > 1 \/ t.options \/ t.retry.attempts = 1 \/ t.retry.pace = "fixed"
       \/ \E i \in DOMAIN t.text : Len(t.text[i]) > 1
  \/ stored.config.shape = "graph" /\ \E i \in DOMAIN stored.config.nodes : stored.config.nodes[i].transform = "custom"
  \/ stored.config.shape = "single" /\ "custom" \in ToSet(stored.config.transforms)

(* Opening a pipeline and saving it without an edit stores what it was, or the
   graph the runtime makes of it, unless it has what the builder has no field
   for. *)
SavingKeepsIt ==
  ~ui.touched /\ ~Beyond(srv.first) =>
    \/ srv.now = srv.first
    \/ srv.first.config.shape = "single" /\ srv.now = [config |-> Lowered(srv.first.config), meta |-> srv.first.meta]

(* Stored tasks have names of their own, wait for tasks there are, and branch to
   tasks that wait for them, unless a name has spaces around it. *)
TasksFit ==
  LET tasks == srv.now.config.tasks
      named == {t.name : t \in tasks}
  IN  srv.now.config.shape = "tasks" /\ (\A n \in named : n = Trimmed(n)) =>
        /\ Cardinality(named) = Cardinality(tasks) /\ "" \notin named
        /\ \A t \in tasks : t.deps \subseteq named /\ \A b \in t.branch : \E u \in tasks : u.name = b /\ t.name \in u.deps

(* Opened, every node has a column, and every edge goes to the right. *)
LayoutFits ==
  LET column == LayoutGraph(ui.canvas)
  IN  (\A i \in NodesOf(ui.canvas) : column[i] # -1) /\ \A e \in ui.canvas.edges : column[e.from] < column[e.to]
=============================================================================
