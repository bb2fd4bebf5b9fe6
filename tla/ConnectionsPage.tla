-------------------------- MODULE ConnectionsPage --------------------------
(***************************************************************************)
(* The connections of a workspace (app/w/[slug]/connections/page.tsx), the  *)
(* forms that make and rename them (components/connections/                 *)
(* connection-form.tsx), and the index of which pipelines use them          *)
(* (lib/connection-usage.ts).  Tests run one by one, from a row's button or *)
(* from "Test all", and leave a chip on the row.                            *)
(***************************************************************************)
EXTENDS Browser, FiniteSetsExt

CONSTANT Conns           \* the connections at first: 1..n; one more may be made

NoRows == [p \in {0} |-> 0]
Nobody == 0
Made == Cardinality(Conns) + 1
AnyRow == Conns \cup {Made}
Typed == 0               \* a name the user typed; else whose name it is
Unknown == {-1}          \* usage = null: not loaded

------------------------------------------------------------------------------
(* Who uses a connection.  A config is a set of references <<place, name>>. *)

\* Where a run takes a connection from, in each shape of a config.
RunPlaces == {"source", "sink", "task source", "task sink", "task step", "task sql_exec", "graph source", "graph sink",
              "graph sql_exec", "dlq"}

\* Where the index of the page looks for one.
IndexPlaces == {"source", "sources", "sink", "sinks", "task source", "task sink", "task dlq", "graph source", "graph sink",
                "graph sql_exec", "dlq"}

ExtractConnectionNames(config) == {r[2] : r \in {q \in config : q[1] \in IndexPlaces}}
BuildUsage(configs) == UNION {ExtractConnectionNames(c) : c \in configs}
NeededBy(config) == {r[2] : r \in {q \in config : q[1] \in RunPlaces}}

------------------------------------------------------------------------------
\* The values of the create form: a secret leaves a marker in the config, an
\* empty field is left out, a required one that is empty refuses the form.
NoForm == [kind |-> "closed", row |-> Nobody, was |-> Typed, name |-> Typed, complete |-> TRUE, submitting |-> FALSE]

\* srv: the connections by id with their names, and the configs of the
\* pipelines, one of which uses the first of them somewhere.
Init ==
  /\ \E preset \in BOOLEAN :
     /\ srv = [names |-> [p \in Conns |-> p], configs |-> {{<<IF preset THEN "task step" ELSE "graph source", 1>>}}, tests |-> 0]
     /\ ui = [rows |-> NoRows, usage |-> Unknown, unused |-> preset, form |-> NoForm, dialog |-> Nobody, deleting |-> FALSE,
             testing |-> Nobody, testingAll |-> FALSE, tested |-> {}]
  /\ net = With(With(<<>>, "refresh", {}), "usage", {})
  /\ clicks = 0 /\ noise = {}

Shown == IF ui.rows = NoRows THEN {} ELSE DOMAIN ui.rows
UsageKnown == ui.usage # Unknown

\* Not before the usage is known is a row hidden, or called unused.
ReadsUnused(p) == UsageKnown /\ ui.rows[p] \notin ui.usage
Visible == {p \in Shown : ui.unused /\ UsageKnown => ReadsUnused(p)}

UsageBack ==
  /\ Returned("usage")
  /\ ui' = [ui EXCEPT !.usage = IF Answered("usage") THEN BuildUsage(net["usage"].got) ELSE Unknown]
  /\ net' = Closed("usage") /\ UNCHANGED <<srv, clicks, noise>>

Refreshes == {"refresh", "saved", "deleted"}

Refresh(requests, k) ==
  /\ net' = With(requests, k, {})
  /\ noise' = IF DOMAIN requests \cap Refreshes # {} THEN noise \cup {"stale rows"} ELSE noise

RefreshBack(k) ==
  /\ Returned(k)
  /\ LET shown == [ui EXCEPT !.rows = IF Answered(k) THEN net[k].got ELSE [p \in {} |-> 0]]
     IN  ui' = IF k = "deleted" THEN [shown EXCEPT !.deleting = FALSE] ELSE shown
  /\ net' = Closed(k)
  /\ noise' = IF Rejected(k) THEN noise \cup {"stale rows"} ELSE noise
  /\ UNCHANGED <<srv, clicks>>

Lost(k) == noise' = IF Rejected(k) THEN noise \cup {"lost answer"} ELSE noise

------------------------------------------------------------------------------
(* Tests *)

Reachable == ui.dialog = Nobody

Test(p) ==
  /\ Click /\ p \in Visible /\ Reachable /\ ui.testing # p /\ ~Out(Named("test", p))
  /\ ui' = [ui EXCEPT !.testing = p] /\ net' = Sent(Named("test", p), p)
  /\ UNCHANGED <<srv, noise>>

\* The answer, or its failure, is the row's chip; it empties the one slot.
TestBack(p) ==
  /\ Returned(Named("test", p))
  /\ ui' = [ui EXCEPT !.testing = Nobody, !.tested = @ \cup {p}] /\ net' = Closed(Named("test", p))
  /\ UNCHANGED <<srv, clicks, noise>>

\* Every row of the list, not only those on screen, one after the other.
TestAll ==
  /\ Click /\ Reachable /\ ~ui.testingAll /\ Shown # {}
  /\ ui' = [ui EXCEPT !.testingAll = TRUE, !.testing = Min(Shown)] /\ net' = Sent("all", Shown)
  /\ UNCHANGED <<srv, noise>>

TestAllGoesOn ==
  /\ Returned("all")
  /\ LET p == Min(net["all"].arg)
         rest == net["all"].arg \ {p}
     IN  IF rest = {}
         THEN ui' = [ui EXCEPT !.tested = @ \cup {p}, !.testing = Nobody, !.testingAll = FALSE] /\ net' = Closed("all")
         ELSE ui' = [ui EXCEPT !.tested = @ \cup {p}, !.testing = Min(rest)] /\ net' = Sent("all", rest)
  /\ UNCHANGED <<srv, clicks, noise>>

------------------------------------------------------------------------------
(* Deleting, with the pipelines that would break named in the dialog *)

AskDelete(p) ==
  /\ Click /\ p \in Visible /\ Reachable
  /\ ui' = [ui EXCEPT !.dialog = p] /\ UNCHANGED <<net, srv, noise>>

LeaveDialog ==
  /\ ui.dialog # Nobody /\ ~ui.deleting
  /\ ui' = [ui EXCEPT !.dialog = Nobody] /\ UNCHANGED <<net, srv, clicks, noise>>

ConfirmDelete ==
  /\ ui.dialog # Nobody /\ ~ui.deleting
  /\ ui' = [ui EXCEPT !.deleting = TRUE] /\ net' = Sent("delete", ui.dialog)
  /\ UNCHANGED <<srv, clicks, noise>>

DeleteBack ==
  /\ Returned("delete")
  /\ IF Answered("delete")
     THEN ui' = [ui EXCEPT !.dialog = Nobody] /\ Refresh(Closed("delete"), "deleted")
     ELSE ui' = [ui EXCEPT !.deleting = FALSE] /\ net' = Closed("delete") /\ Lost("delete")
  /\ UNCHANGED <<srv, clicks>>

------------------------------------------------------------------------------
(* The forms *)

\* The rename form of one row stays when the pencil of another is clicked, and
\* keeps the name it holds.
Edit(p) ==
  /\ Click /\ p \in Visible /\ Reachable
  /\ ui' = [ui EXCEPT !.form =
       IF @.kind = "edit" THEN [@ EXCEPT !.row = p, !.was = ui.rows[p]]
       ELSE [NoForm EXCEPT !.kind = "edit", !.row = p, !.was = ui.rows[p], !.name = ui.rows[p]]]
  /\ UNCHANGED <<net, srv, noise>>

New ==
  /\ Click /\ Reachable
  /\ ui' = [ui EXCEPT !.form = IF @.kind = "create" THEN NoForm ELSE [NoForm EXCEPT !.kind = "create", !.complete = FALSE]]
  /\ UNCHANGED <<net, srv, noise>>

\* A name in the rename form; in the create form the name and its fields.
Type ==
  /\ Click /\ Reachable /\ ui.form.kind # "closed"
  /\ ui' = [ui EXCEPT !.form.name = IF ui.form.kind = "edit" THEN Typed ELSE Made, !.form.complete = TRUE]
  /\ UNCHANGED <<net, srv, noise>>

\* Another connector type empties the fields.
ChangeType ==
  /\ Click /\ Reachable /\ ui.form.kind = "create" /\ ui.form.complete
  /\ ui' = [ui EXCEPT !.form.complete = FALSE] /\ UNCHANGED <<net, srv, noise>>

LeaveForm ==
  /\ Reachable /\ ui.form.kind # "closed" /\ ~ui.form.submitting
  /\ ui' = [ui EXCEPT !.form = NoForm] /\ UNCHANGED <<net, srv, clicks, noise>>

SaveNew ==
  /\ Reachable /\ ui.form.kind = "create" /\ ~ui.form.submitting /\ ui.form.complete /\ ~Out("save")
  /\ ui' = [ui EXCEPT !.form.submitting = TRUE] /\ net' = Sent("save", [row |-> Made, name |-> Made])
  /\ UNCHANGED <<srv, clicks, noise>>

SaveEdit ==
  /\ Reachable /\ ui.form.kind = "edit" /\ ~ui.form.submitting /\ ~Out("save")
  /\ IF ui.form.name = ui.form.was
     THEN ui' = [ui EXCEPT !.form = NoForm] /\ UNCHANGED net
     ELSE ui' = [ui EXCEPT !.form.submitting = TRUE] /\ net' = Sent("save", [row |-> ui.form.row, name |-> ui.form.name])
  /\ UNCHANGED <<srv, clicks, noise>>

SaveBack ==
  /\ Returned("save")
  /\ IF Answered("save")
     THEN ui' = [ui EXCEPT !.form = NoForm] /\ Refresh(Closed("save"), "saved")
     ELSE ui' = [ui EXCEPT !.form.submitting = FALSE] /\ net' = Closed("save") /\ Lost("save")
  /\ UNCHANGED <<srv, clicks>>

SetFilter ==
  /\ Click /\ Reachable /\ ui.rows # NoRows
  /\ ui' = [ui EXCEPT !.unused = ~@] /\ UNCHANGED <<net, srv, noise>>

------------------------------------------------------------------------------
There == DOMAIN srv.names

\* Names are unique in a workspace.
Free(asked) == \A p \in There \ {asked.row} : srv.names[p] # asked.name

Serve ==
  \/ \E k \in Refreshes : Handles(k, srv, srv.names)
  \/ Handles("usage", srv, srv.configs)
  \/ \E p \in There : Handles(Named("test", p), [srv EXCEPT !.tests = @ + 1], {})
  \/ Out("all") /\ Min(net["all"].arg) \in There /\ Handles("all", srv, {})
  \/ Out("delete") /\ net["delete"].arg \in There
     /\ Handles("delete", [srv EXCEPT !.names = Restrict(@, There \ {net["delete"].arg})], {})
  \/ LET asked == net["save"].arg
     IN  /\ Out("save") /\ Free(asked) /\ (asked.row \in There \/ asked.row = Made)
         /\ Handles("save", [srv EXCEPT !.names = [p \in There \cup {asked.row} |-> IF p = asked.row THEN asked.name ELSE @[p]]], {})

Returns ==
  \/ UsageBack \/ \E k \in Refreshes : RefreshBack(k)
  \/ \E p \in AnyRow : TestBack(p)
  \/ TestAllGoesOn \/ DeleteBack \/ SaveBack

RowButtons == \E p \in AnyRow : Test(p) \/ Edit(p) \/ AskDelete(p)
Forms == New \/ Type \/ ChangeType \/ LeaveForm \/ SaveNew \/ SaveEdit
Clicks == RowButtons \/ Forms \/ TestAll \/ LeaveDialog \/ ConfirmDelete \/ SetFilter

Next == Serve \/ Returns \/ Clicks \/ \E k \in DOMAIN net : Breaks(k)

TypeOK ==
  /\ There \subseteq AnyRow /\ Shown \subseteq AnyRow /\ ui.tested \subseteq AnyRow
  /\ ui.form.kind \in {"closed", "create", "edit"} /\ ui.dialog \in AnyRow \cup {Nobody}

(* At rest the table shows the connections as the server has them: every change
   that was answered is followed by a read of the list.  Not so when an answer
   was lost, or when two reads were under way at once. *)
ShowsServer ==
  Quiet /\ noise \cap {"stale rows", "lost answer"} = {} => ui.rows = srv.names

SpinnersHaveRequests ==
  /\ ui.deleting => Out("delete") \/ Out("deleted")
  /\ ui.testingAll => Out("all")
  /\ ui.testing # Nobody => Out(Named("test", ui.testing)) \/ Out("all")
  /\ ui.form.submitting => Out("save")

(* Refuted.  "0 pipelines" -> safe to remove (connections/page.tsx:121): a
   connection the page calls unused is one no pipeline takes at run time. *)
UnusedIsSafe ==
  \A p \in Shown : ReadsUnused(p) => \A c \in srv.configs : ui.rows[p] \notin NeededBy(c)
=============================================================================
