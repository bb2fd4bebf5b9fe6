---------------------------- MODULE ErdDesigner ----------------------------
(***************************************************************************)
(* The diagram designer (components/erd/erd-designer.tsx) with the edits of *)
(* lib/erd-design.ts: tables, the relations between their columns, shapes   *)
(* behind them and tabs (subject areas) that show some of them.  Every      *)
(* change starts a timer; when it runs out the whole diagram is sent.       *)
(* `arranged` stands for positions, sizes, routes, texts and types.         *)
(***************************************************************************)
EXTENDS Browser, FiniteSetsExt, SequencesExt, Relation

CONSTANTS MaxTables, MaxSaves

Ids == 1..MaxTables
NoTab == 0
NoDelete == [nodes |-> {}, edges |-> {}]
KeyOf(name) == name \o "_id"                        \* singular(name)_id
NoKey == "none"
NewTable(name) == [name |-> name, cols |-> {"id"}, key |-> "id"]

Empty == [tables |-> <<>>, rels |-> {}, areas |-> <<>>, shape |-> FALSE, arranged |-> FALSE]

\* Table 2 refers to table 1; with two tabs, table 1 is on both.
TwoTables == [tables |-> (1 :> NewTable("a")) @@ (2 :> [NewTable("b") EXCEPT !.cols = @ \cup {KeyOf("a")}]),
              rels |-> {[from |-> 2, col |-> KeyOf("a"), to |-> 1]},
              areas |-> <<>>, shape |-> TRUE, arranged |-> FALSE]
TwoTabs == [TwoTables EXCEPT !.areas = <<[id |-> 1, tables |-> {1, 2}], [id |-> 2, tables |-> {1}]>>]

Init ==
  /\ \E d \in {TwoTables, TwoTabs} :
       srv = [doc |-> [name |-> "erd", design |-> d], had |-> DOMAIN d.tables]
  /\ ui = [design |-> Empty, name |-> "", loaded |-> FALSE, save |-> "idle", timer |-> FALSE, tab |-> NoTab,
           deleting |-> NoDelete, closing |-> NoTab, minted |-> 2, saves |-> 0, deleted |-> {}]
  /\ net = With(<<>>, "get", {})
  /\ clicks = 0 /\ noise = {}

Tables(d) == DOMAIN d.tables
AreaIds(d) == {a.id : a \in ToSet(d.areas)}
OnTabs(d) == UNION {a.tables : a \in ToSet(d.areas)}
OnTab(d, tab) == UNION {a.tables : a \in {b \in ToSet(d.areas) : b.id = tab}}
Visible == IF ui.tab = NoTab THEN Tables(ui.design) ELSE OnTab(ui.design, ui.tab)
VisibleEdges == {r \in ui.design.rels : r.from \in Visible /\ r.to \in Visible}
EdgesOf(nodes) == {r \in VisibleEdges : r.from \in nodes \/ r.to \in nodes}

------------------------------------------------------------------------------
(* lib/erd-design.ts *)

\* d without some tables, and what refers to them.
Pruned(d, gone) ==
  [d EXCEPT !.tables = Restrict(@, DOMAIN @ \ gone),
            !.rels = {r \in @ : r.from \notin gone /\ r.to \notin gone}]

AddTable(d, id, name) == [d EXCEPT !.tables = @ @@ (id :> NewTable(name))]

\* A foreign key from one table to another, its column added when missing.
\* What it returns has tables and relations only: shapes and tabs are gone.
Connected(d, from, to) ==
  LET col == KeyOf(d.tables[to].name)
  IN  [Empty EXCEPT !.tables = [d.tables EXCEPT ![from].cols = @ \cup {col}],
                    !.rels = d.rels \cup {[from |-> from, col |-> col, to |-> to]},
                    !.arranged = d.arranged]

\* The incoming tables (a name, and the names it refers to) whose name is new,
\* with ids after n; and their relations to tables that are new as well: those
\* to a table that was there are of the incoming one's id.  Tabs are dropped.
Names(d) == {d.tables[t].name : t \in Tables(d)}
NewOf(d, file) == SelectSeq(file, LAMBDA f : f.name \notin Names(d))
Merged(d, file, n) ==
  LET new == NewOf(d, file)
      id(name) == n + (CHOOSE i \in DOMAIN new : new[i].name = name)
      added == [t \in n + 1 .. n + Len(new) |->
                  [NewTable(new[t - n].name) EXCEPT !.cols = @ \cup {KeyOf(r) : r \in new[t - n].refers}]]
      links == UNION {{[from |-> id(f.name), col |-> KeyOf(r), to |-> id(r)] :
                         r \in f.refers \cap {g.name : g \in ToSet(new)}} : f \in ToSet(new)}
  IN  [d EXCEPT !.tables = @ @@ added, !.rels = @ \cup links, !.areas = <<>>]

\* A file with two tables of which one may be there, as tabs or without.
File == <<[name |-> "b", refers |-> {}], [name |-> "c", refers |-> {"b"}]>>
\* Its tab, with the ids its names have after the merge.
FileTab(d, file, id) ==
  [id |-> id, tables |-> {Max({t \in Tables(d) : d.tables[t].name = f.name}) : f \in ToSet(file)}]

\* The order of the tables in the script: a table after those it refers to,
\* depth first; one that is being visited is skipped, so cycles end.
InOrder(ids) == SelectSeq([i \in Ids |-> i], LAMBDA i : i \in ids)
Refs(d, t) == InOrder({r.to : r \in {q \in d.rels : q.from = t /\ q.to # t}})
TopoSortTables(d) ==
  LET visit[at \in [out : Seq(Ids), visiting : SUBSET Ids], t \in Ids] ==
        IF t \in ToSet(at.out) \cup at.visiting THEN at
        ELSE LET after == FoldLeft(LAMBDA a, u : visit[a, u], [at EXCEPT !.visiting = @ \cup {t}], Refs(d, t))
             IN  [out |-> Append(after.out, t), visiting |-> after.visiting \ {t}]
  IN  FoldLeft(LAMBDA at, t : visit[at, t], [out |-> <<>>, visiting |-> {}], InOrder(Tables(d))).out

\* The script: a table with its columns and foreign keys, each to the primary
\* key of the table it refers to, which is called "id" if there is none.
PkColumn(table) == IF table.key = NoKey THEN "id" ELSE table.key
ToSql(d) ==
  LET order == TopoSortTables(d)
  IN  [i \in DOMAIN order |->
         [name |-> d.tables[order[i]].name, cols |-> d.tables[order[i]].cols,
          keys |-> {[col |-> r.col, table |-> d.tables[r.to].name, key |-> PkColumn(d.tables[r.to])] : r \in {q \in d.rels : q.from = order[i]}}]]

\* The tables the page warns of: without columns, or without a primary key.
ValidateErd(d) == {t \in Tables(d) : d.tables[t].cols = {} \/ d.tables[t].key = NoKey}

------------------------------------------------------------------------------
(* What the page keeps up to date with the diagram *)

\* With tabs one of them is open, the first unless told.
TabFor(d, tab) == IF d.areas = <<>> THEN NoTab ELSE IF tab \in AreaIds(d) THEN tab ELSE d.areas[1].id

\* The effect of a change: nothing is saved of a diagram that is not there yet.
Changed(u) ==
  LET v == [u EXCEPT !.tab = TabFor(u.design, u.tab)]
  IN  IF v.loaded THEN [v EXCEPT !.save = "saving", !.timer = TRUE] ELSE v

Edit(d) == ui' = Changed([ui EXCEPT !.design = d])

\* A bound on clicks and saves together.
Steps == clicks + ui.saves <= MaxClicks

\* The timer runs out: all of it is sent, whatever save is under way.
SaveKeys == {Named("save", n) : n \in 1..MaxSaves}
TimerRunsOut ==
  /\ ui.timer /\ ui.saves < MaxSaves /\ Steps
  /\ ui' = [ui EXCEPT !.timer = FALSE, !.saves = @ + 1]
  /\ net' = Sent(Named("save", ui.saves + 1), [name |-> ui.name, design |-> ui.design])
  /\ noise' = IF \E k \in SaveKeys : Out(k) THEN noise \cup {"overlap"} ELSE noise
  /\ UNCHANGED <<srv, clicks>>

SaveBack(k) ==
  /\ Returned(k)
  /\ ui' = [ui EXCEPT !.save = IF Answered(k) THEN "saved" ELSE "idle"]
  /\ net' = Closed(k) /\ UNCHANGED <<srv, clicks, noise>>

\* A diagram that cannot be read is shown as an empty one without a name.
LoadBack ==
  /\ Returned("get")
  /\ ui' = Changed(
       IF Answered("get") THEN [ui EXCEPT !.design = net["get"].got.design, !.name = net["get"].got.name, !.loaded = TRUE]
       ELSE [ui EXCEPT !.design = Empty, !.loaded = TRUE])
  /\ net' = Closed("get")
  /\ noise' = IF Rejected("get") THEN noise \cup {"load failed"} ELSE noise
  /\ UNCHANGED <<srv, clicks>>

------------------------------------------------------------------------------
(* The user: a dialog that asks covers the rest *)

Gesture == Click /\ Steps /\ ui.deleting = NoDelete /\ ui.closing = NoTab /\ UNCHANGED <<net, srv>>
MayMint(n) == ui.minted + n <= MaxTables
Minting(d, n) == ui' = Changed([ui EXCEPT !.design = d, !.minted = @ + n])

\* A new table joins the tab that is open.
OnAddTable ==
  LET id == ui.minted + 1
      d == AddTable(ui.design, id, "t" \o ToString(Cardinality(Tables(ui.design)) + 1))
  IN  /\ Gesture /\ MayMint(1) /\ UNCHANGED noise
      /\ Minting([d EXCEPT !.areas = [i \in DOMAIN @ |-> IF @[i].id = ui.tab THEN [@[i] EXCEPT !.tables = @ \cup {id}] ELSE @[i]]], 1)

\* A copy joins none.
Duplicate(t) ==
  /\ Gesture /\ MayMint(1) /\ t \in Visible
  /\ Minting([ui.design EXCEPT !.tables = @ @@ (ui.minted + 1 :> [@[t] EXCEPT !.name = @ \o "_copy"])], 1)
  /\ noise' = IF ui.tab = NoTab THEN noise ELSE noise \cup {"hidden tables"}

Connect(from, to) ==
  /\ Gesture /\ {from, to} \subseteq Visible /\ from # to
  /\ Edit(Connected(ui.design, from, to)) /\ UNCHANGED noise

\* Positions, sizes, routes, layout, and what tables, relations, shapes and
\* tabs say of themselves.
Touch == Gesture /\ Edit([ui.design EXCEPT !.arranged = ~@]) /\ UNCHANGED noise
Drag == Visible # {} /\ Touch
Resize == Visible # {} /\ Touch
Layout == Tables(ui.design) # {} /\ Touch
EditTable == Visible # {} /\ Touch
EditRelation == VisibleEdges # {} /\ Touch
EditShape == ui.design.shape /\ Touch
CommitAreaRename == ui.tab # NoTab /\ Touch
RenameTable(t) == Gesture /\ t \in Visible /\ Edit([ui.design EXCEPT !.tables[t].name = "z"]) /\ UNCHANGED noise
AddShape == Gesture /\ ~ui.design.shape /\ Edit([ui.design EXCEPT !.shape = TRUE]) /\ UNCHANGED noise
DeleteShape == Gesture /\ ui.design.shape /\ Edit([ui.design EXCEPT !.shape = FALSE]) /\ UNCHANGED noise

\* The relation that has the column follows its new name; shapes and tabs go.
RenameColumn(t, col) ==
  /\ Gesture /\ t \in Visible /\ col \in ui.design.tables[t].cols /\ "r" \notin ui.design.tables[t].cols
  /\ Edit([Empty EXCEPT
       !.tables = [ui.design.tables EXCEPT ![t].cols = (@ \ {col}) \cup {"r"}, ![t].key = IF @ = col THEN "r" ELSE @],
       !.rels = {IF r.from = t /\ r.col = col THEN [r EXCEPT !.col = "r"] ELSE r : r \in ui.design.rels},
       !.arranged = ui.design.arranged])
  /\ UNCHANGED noise

\* A column is removed at once, and the relation that has it stays.
DropColumn(t, col) ==
  /\ Gesture /\ t \in Visible /\ col \in ui.design.tables[t].cols
  /\ Edit([ui.design EXCEPT !.tables[t].cols = @ \ {col}, !.tables[t].key = IF @ = col THEN NoKey ELSE @])
  /\ noise' = IF \E r \in ui.design.rels : r.from = t /\ r.col = col THEN noise \cup {"column dropped"} ELSE noise

\* The Delete key takes a table with the relations shown at it, or a relation;
\* a panel or the menu takes the table alone.
AskDelete(nodes, edges) ==
  /\ Gesture /\ <<nodes, edges>> # <<{}, {}>> /\ UNCHANGED noise
  /\ ui' = [ui EXCEPT !.deleting = [nodes |-> nodes, edges |-> edges]]

OtherAreas(d, tab) == SelectSeq(d.areas, LAMBDA a : a.id # tab)

\* On a tab a table leaves that tab, and the diagram with its last one.
Deleted(d, gone, edges) ==
  LET areas == [i \in DOMAIN d.areas |->
                  IF ui.tab \in {NoTab, d.areas[i].id} THEN [d.areas[i] EXCEPT !.tables = @ \ gone] ELSE d.areas[i]]
      kept == IF ui.tab = NoTab THEN {} ELSE UNION {a.tables : a \in ToSet(areas)}
  IN  Pruned([d EXCEPT !.areas = areas, !.rels = @ \ edges], gone \ kept)

ConfirmDelete ==
  LET d == Deleted(ui.design, ui.deleting.nodes, ui.deleting.edges)
      others == UNION {a.tables : a \in ToSet(OtherAreas(ui.design, ui.tab))}
  IN  /\ ui.deleting # NoDelete
      /\ ui' = Changed([ui EXCEPT !.design = d, !.deleting = NoDelete, !.deleted = @ \cup (ui.deleting.nodes \ others)])
      /\ UNCHANGED <<net, srv, clicks, noise>>

LeaveDialog ==
  /\ ui.deleting # NoDelete \/ ui.closing # NoTab
  /\ ui' = [ui EXCEPT !.deleting = NoDelete, !.closing = NoTab] /\ UNCHANGED <<net, srv, clicks, noise>>

OpenTab(tab) == Gesture /\ tab \in AreaIds(ui.design) /\ ui' = [ui EXCEPT !.tab = tab] /\ UNCHANGED noise

\* A table that was searched, or has an issue, is shown on the open tab if it is
\* there, else on the first that has it.
JumpTo(t) ==
  LET tabs == SelectSeq(ui.design.areas, LAMBDA a : t \in a.tables)
  IN  /\ Gesture /\ t \in Tables(ui.design) \ Visible /\ tabs # <<>> /\ UNCHANGED noise
      /\ ui' = [ui EXCEPT !.tab = tabs[1].id]

\* Tabs can be added once there are some.
NextArea(d) == Max(AreaIds(d) \cup {0}) + 1
AddArea ==
  /\ Gesture /\ Len(ui.design.areas) \in 1..2 /\ UNCHANGED noise
  /\ ui' = Changed([ui EXCEPT !.design.areas = Append(@, [id |-> NextArea(ui.design), tables |-> {}]),
                              !.tab = NextArea(ui.design)])

AskClose == Gesture /\ ui.tab # NoTab /\ ui' = [ui EXCEPT !.closing = ui.tab] /\ UNCHANGED noise

\* The tables the dialog says it will delete: those on no other tab.  What it
\* deletes: those on none of the tabs that are left.
Announced(d, tab) ==
  IF Len(d.areas) <= 1 THEN {} ELSE OnTab(d, tab) \ UNION {a.tables : a \in ToSet(OtherAreas(d, tab))}
Closing(d, tab) ==
  LET rest == [d EXCEPT !.areas = OtherAreas(d, tab)]
  IN  IF rest.areas = <<>> THEN rest ELSE Pruned(rest, Tables(d) \ OnTabs(rest))

ConfirmClose ==
  /\ ui.closing # NoTab
  /\ ui' = Changed([ui EXCEPT !.design = Closing(@, ui.closing), !.closing = NoTab, !.tab = NoTab,
                              !.deleted = @ \cup Announced(ui.design, ui.closing)])
  /\ UNCHANGED <<net, srv, clicks, noise>>

\* A connection's tables or a script: merged, and the tabs are gone.
ImportTables ==
  LET n == Len(NewOf(ui.design, File))
  IN  Gesture /\ MayMint(n) /\ Minting(Merged(ui.design, File, ui.minted), n) /\ UNCHANGED noise

\* A modeller's file: its tab after those there are.  Tables of a diagram
\* without tabs, or of a file without, are then on no tab.
ImportFile(tabbed) ==
  LET n == Len(NewOf(ui.design, File))
      d == Merged(ui.design, File, ui.minted)
      areas == IF tabbed THEN Append(ui.design.areas, FileTab(d, File, NextArea(ui.design))) ELSE ui.design.areas
      all == [d EXCEPT !.areas = areas]
  IN  /\ Gesture /\ MayMint(n)
      /\ ui' = Changed([ui EXCEPT !.design = all, !.minted = @ + n, !.tab = NoTab])
      /\ noise' = IF areas # <<>> /\ Tables(all) # OnTabs(all) THEN noise \cup {"hidden tables"} ELSE noise

\* Clearing asks nothing.
Clear ==
  /\ Gesture /\ Tables(ui.design) # {} /\ UNCHANGED noise
  /\ ui' = Changed([ui EXCEPT !.design = Empty, !.deleted = @ \cup Tables(ui.design)])

\* Leaving the field of the name without one makes it "Untitled".
RenameDiagram ==
  /\ Gesture /\ UNCHANGED noise
  /\ ui' = Changed([ui EXCEPT !.name = IF @ = "" THEN "Untitled" ELSE "other"])

Edits ==
  \/ OnAddTable \/ Drag \/ Resize \/ Layout \/ EditTable \/ EditRelation \/ EditShape \/ CommitAreaRename
  \/ AddShape \/ DeleteShape \/ Clear \/ RenameDiagram \/ ImportTables
  \/ \E tabbed \in BOOLEAN : ImportFile(tabbed)
  \/ \E t, u \in Ids : Connect(t, u)
  \/ \E t \in Ids : Duplicate(t) \/ RenameTable(t)
  \/ \E t \in Ids, col \in {KeyOf("a"), "id"} : RenameColumn(t, col) \/ DropColumn(t, col)
Deletes ==
  \/ ConfirmDelete \/ LeaveDialog \/ AskClose \/ ConfirmClose \/ AddArea \/ \E id \in Ids : OpenTab(id) \/ JumpTo(id)
  \/ \E t \in Visible : AskDelete({t}, {}) \/ AskDelete({t}, EdgesOf({t}))
  \/ \E r \in VisibleEdges : AskDelete({}, {r})

------------------------------------------------------------------------------
\* A name that is empty is refused (ErdDiagramUpdateRequest).
Serve ==
  \/ Handles("get", srv, srv.doc)
  \/ \E k \in DOMAIN net \cap SaveKeys : net[k].arg.name # "" /\ Handles(k, [srv EXCEPT !.doc = net[k].arg], {})

Next ==
  \/ Serve \/ LoadBack \/ TimerRunsOut \/ Edits \/ Deletes
  \/ \E k \in SaveKeys : SaveBack(k)
  \/ \E k \in DOMAIN net : Breaks(k)

TypeOK ==
  /\ ui.save \in {"idle", "saving", "saved"} /\ ui.tab \in 0..MaxTables /\ ui.minted \in Ids
  /\ Tables(ui.design) \subseteq 1..ui.minted /\ DOMAIN net \subseteq SaveKeys \cup {"get"}

(* Relations and tabs refer to tables of the diagram, a relation to a column its
   table has, but for one the user removed; a tab is open when there are any. *)
RefersToTables ==
  LET d == ui.design
  IN  /\ \A r \in d.rels : {r.from, r.to} \subseteq Tables(d)
      /\ OnTabs(d) \subseteq Tables(d)
      /\ "column dropped" \in noise \/ \A r \in d.rels : r.col \in d.tables[r.from].cols
      /\ (d.areas = <<>>) <=> (ui.tab = NoTab)
      /\ ui.tab \in AreaIds(d) \cup {NoTab}

(* In the script a table comes after each one it refers to, unless that one
   refers back to it, directly or through others; and when the page warns of no
   table and no column was removed under a relation, each foreign key is of a
   column the script creates, to one it creates. *)
Place(order, t) == CHOOSE i \in DOMAIN order : order[i] = t
ScriptInOrder ==
  LET d == ui.design
      order == TopoSortTables(d)
      reaches == TransitiveClosure([t, u \in Tables(d) |-> \E r \in d.rels : r.from = t /\ r.to = u], Tables(d))
  IN  /\ ToSet(order) = Tables(d) /\ Len(order) = Cardinality(Tables(d))
      /\ \A r \in d.rels : Place(order, r.to) < Place(order, r.from) \/ reaches[r.to, r.from]
      /\ ValidateErd(d) = {} /\ "column dropped" \notin noise =>
           LET script == ToSet(ToSql(d))
           IN  \A s \in script : \A k \in s.keys :
                 k.col \in s.cols /\ \E u \in script : u.name = k.table /\ k.key \in u.cols

(* Every table can be seen on some tab, and closing a tab deletes the tables it
   says it will, but for copies and what a file is merged into. *)
NothingHidden ==
  LET d == ui.design
  IN  "hidden tables" \notin noise =>
        /\ d.areas # <<>> => Tables(d) = OnTabs(d)
        /\ ui.closing # NoTab => Tables(d) \ Tables(Closing(d, ui.closing)) = Announced(d, ui.closing)

(* "Saved", with nothing more to send, means that the server has what is on the
   screen, unless two saves were under way at once. *)
SavedIsStored ==
  ui.save = "saved" /\ ~ui.timer /\ Quiet /\ "overlap" \notin noise
    => srv.doc = [name |-> ui.name, design |-> ui.design]

SavingIsUnderWay == ui.save = "saving" => ui.timer \/ \E k \in SaveKeys : Out(k)

(* A table the server had is gone from it only if the user confirmed that it
   should be, cleared the diagram, or did not see it: hidden, or not loaded. *)
KeepsTables ==
  noise \cap {"hidden tables", "load failed"} = {} => srv.had \ Tables(srv.doc.design) \subseteq ui.deleted
=============================================================================
