---------------------------- MODULE SensorsPage ----------------------------
(***************************************************************************)
(* The sensors of a workspace (app/w/[slug]/sensors/page.tsx): a list read  *)
(* with the pipelines it names, "check now" per row, and a form whose       *)
(* config is a JSON text.  A check writes to the server and tells the user, *)
(* but does not read the list again.  Deleting a pipeline elsewhere leaves  *)
(* its sensors without a target.                                            *)
(***************************************************************************)
EXTENDS Browser

CONSTANT Sensors         \* the sensors at first: 1..n; one more may be made

NoRows == [p \in {0} |-> 0]
Nobody == 0
Made == Cardinality(Sensors) + 1
AnyRow == Sensors \cup {Made}
Typed == 0               \* the config as the user typed it; else whose it is

NoForm == [kind |-> "closed", row |-> Nobody, text |-> Typed, parses |-> TRUE, submitting |-> FALSE]

\* srv: the sensors, and whether the one pipeline they target still exists.
Init ==
  /\ srv = [rows |-> [p \in Sensors |-> [text |-> p, target |-> TRUE]], pipeline |-> TRUE, checks |-> 0]
  /\ \E preset \in BOOLEAN :
       ui = [rows |-> NoRows, pipeline |-> FALSE, orphaned |-> preset, form |-> NoForm, dialog |-> Nobody,
             deleting |-> FALSE, checking |-> Nobody]
  /\ net = With(<<>>, "refresh", {})
  /\ clicks = 0 /\ noise = {}

Shown == IF ui.rows = NoRows THEN {} ELSE DOMAIN ui.rows

\* "Orphaned only": a target that is set, of a pipeline that is not listed.
PassesOrphaned(p) == ui.rows[p].target /\ ~ui.pipeline
Visible == {p \in Shown : ui.orphaned => PassesOrphaned(p)}

Refreshes == {"refresh", "saved", "deleted"}

Refresh(requests, k) ==
  /\ net' = With(requests, k, {})
  /\ noise' = IF DOMAIN requests \cap Refreshes # {} THEN noise \cup {"stale rows"} ELSE noise

RefreshBack(k) ==
  /\ Returned(k)
  /\ LET got == net[k].got
         shown == IF Answered(k) THEN [ui EXCEPT !.rows = got.rows, !.pipeline = got.pipeline]
                  ELSE [ui EXCEPT !.rows = [p \in {} |-> 0]]
     IN  ui' = IF k = "deleted" THEN [shown EXCEPT !.deleting = FALSE] ELSE shown
  /\ net' = Closed(k)
  /\ noise' = IF Rejected(k) THEN noise \cup {"stale rows"} ELSE noise
  /\ UNCHANGED <<srv, clicks>>

Lost(k) == noise' = IF Rejected(k) THEN noise \cup {"lost answer"} ELSE noise

------------------------------------------------------------------------------
(* The row's buttons and its menu *)

Reachable == ui.dialog = Nobody

Check(p) ==
  /\ Click /\ p \in Visible /\ Reachable /\ ui.checking # p /\ ~Out(Named("check", p))
  /\ ui' = [ui EXCEPT !.checking = p] /\ net' = Sent(Named("check", p), p)
  /\ UNCHANGED <<srv, noise>>

\* One slot for the row under check: any answer clears it.
CheckBack(p) ==
  /\ Returned(Named("check", p))
  /\ ui' = [ui EXCEPT !.checking = Nobody] /\ net' = Closed(Named("check", p))
  /\ UNCHANGED <<srv, clicks, noise>>

AskDelete(p) ==
  /\ Click /\ p \in Visible /\ Reachable
  /\ ui' = [ui EXCEPT !.dialog = p] /\ UNCHANGED <<net, srv, noise>>

\* The dialog may be left while its request is under way; then no row is
\* deleted by another dialog before that one is answered.
LeaveDialog ==
  /\ ui.dialog # Nobody /\ ui' = [ui EXCEPT !.dialog = Nobody]
  /\ UNCHANGED <<net, srv, clicks, noise>>

ConfirmDelete ==
  /\ ui.dialog # Nobody /\ ~ui.deleting
  /\ ui' = [ui EXCEPT !.deleting = TRUE] /\ net' = Sent("delete", ui.dialog)
  /\ UNCHANGED <<srv, clicks, noise>>

\* The answer closes whichever dialog is open now.
DeleteBack ==
  /\ Returned("delete")
  /\ IF Answered("delete")
     THEN ui' = [ui EXCEPT !.dialog = Nobody] /\ Refresh(Closed("delete"), "deleted")
     ELSE ui' = [ui EXCEPT !.deleting = FALSE] /\ net' = Closed("delete") /\ Lost("delete")
  /\ UNCHANGED <<srv, clicks>>

------------------------------------------------------------------------------
(* The form *)

\* It takes its values from the sensor when it appears: an edit form that is
\* there already keeps them when the pencil of another row is clicked.
Edit(p) ==
  /\ Click /\ p \in Visible /\ Reachable
  /\ ui' = [ui EXCEPT !.form =
       IF @.kind = "edit" THEN [@ EXCEPT !.row = p]
       ELSE [NoForm EXCEPT !.kind = "edit", !.row = p, !.text = ui.rows[p].text]]
  /\ UNCHANGED <<net, srv, noise>>

New ==
  /\ Click /\ Reachable
  /\ ui' = [ui EXCEPT !.form = IF @.kind = "create" THEN NoForm ELSE [NoForm EXCEPT !.kind = "create", !.text = Made]]
  /\ UNCHANGED <<net, srv, noise>>

Type(parses) ==
  /\ Click /\ Reachable /\ ui.form.kind # "closed"
  /\ ui' = [ui EXCEPT !.form.text = IF ui.form.kind = "edit" THEN Typed ELSE @, !.form.parses = parses]
  /\ UNCHANGED <<net, srv, noise>>

LeaveForm ==
  /\ Reachable /\ ui.form.kind # "closed"
  /\ ui' = [ui EXCEPT !.form = NoForm] /\ UNCHANGED <<net, srv, clicks, noise>>

CanSubmit == Reachable /\ ui.form.parses /\ ~ui.form.submitting

\* All fields of the form are sent, changed or not.
Save ==
  /\ ui.form.kind # "closed" /\ CanSubmit /\ ~Out("save")
  /\ ui' = [ui EXCEPT !.form.submitting = TRUE]
  /\ net' = Sent("save", IF ui.form.kind = "create" THEN [row |-> Made, text |-> Made, new |-> TRUE]
                         ELSE [row |-> ui.form.row, text |-> ui.form.text, new |-> FALSE])
  /\ UNCHANGED <<srv, clicks, noise>>

SaveBack ==
  /\ Returned("save")
  /\ IF Answered("save")
     THEN ui' = [ui EXCEPT !.form = NoForm] /\ Refresh(Closed("save"), "saved")
     ELSE ui' = [ui EXCEPT !.form.submitting = FALSE] /\ net' = Closed("save") /\ Lost("save")
  /\ UNCHANGED <<srv, clicks>>

SetFilter ==
  /\ Click /\ Reachable /\ ui.rows # NoRows
  /\ ui' = [ui EXCEPT !.orphaned = ~@] /\ UNCHANGED <<net, srv, noise>>

------------------------------------------------------------------------------
There == DOMAIN srv.rows

Saved(asked) ==
  [p \in There \cup {asked.row} |->
     IF p # asked.row THEN srv.rows[p] ELSE [text |-> asked.text, target |-> IF p \in There THEN srv.rows[p].target ELSE FALSE]]

Serve ==
  \/ \E k \in Refreshes : Handles(k, srv, [rows |-> srv.rows, pipeline |-> srv.pipeline])
  \/ \E p \in There : Handles(Named("check", p), [srv EXCEPT !.checks = @ + 1], {})
  \/ Out("delete") /\ net["delete"].arg \in There
     /\ Handles("delete", [srv EXCEPT !.rows = Restrict(@, There \ {net["delete"].arg})], {})
  \/ /\ Out("save") /\ (net["save"].arg.new <=> net["save"].arg.row \notin There)
     /\ Handles("save", [srv EXCEPT !.rows = Saved(net["save"].arg)], {})

\* Someone deletes the pipeline: the column is set to null (ON DELETE SET NULL).
PipelineDeleted ==
  /\ srv.pipeline /\ ui.orphaned
  /\ srv' = [srv EXCEPT !.pipeline = FALSE, !.rows = [p \in There |-> [@[p] EXCEPT !.target = FALSE]]]
  /\ noise' = noise \cup {"stale rows"} /\ UNCHANGED <<ui, net, clicks>>

Returns ==
  \/ \E k \in Refreshes : RefreshBack(k)
  \/ \E p \in AnyRow : CheckBack(p)
  \/ DeleteBack \/ SaveBack

RowButtons == \E p \in AnyRow : Check(p) \/ Edit(p) \/ AskDelete(p)
Forms == New \/ (\E parses \in BOOLEAN : Type(parses)) \/ LeaveForm \/ Save
Clicks == RowButtons \/ Forms \/ LeaveDialog \/ ConfirmDelete \/ SetFilter

Next == Serve \/ Returns \/ Clicks \/ PipelineDeleted \/ \E k \in DOMAIN net : Breaks(k)

TypeOK ==
  /\ There \subseteq AnyRow /\ Shown \subseteq AnyRow
  /\ ui.form.kind \in {"closed", "create", "edit"} /\ ui.dialog \in AnyRow \cup {Nobody}

(* At rest the table shows the sensors as the server has them: every change
   that was answered is followed by a read of the list.  Not so when an answer
   was lost, when two reads were under way at once, or when the pipeline went
   away elsewhere. *)
ShowsServer ==
  Quiet /\ noise \cap {"stale rows", "lost answer"} = {} => ui.rows = srv.rows

SpinnersHaveRequests ==
  /\ ui.deleting => Out("delete") \/ Out("deleted")
  /\ ui.checking # Nobody => Out(Named("check", ui.checking))
  /\ ui.form.submitting => Out("save")

(* Refuted, as in SchedulesPage: a sensor keeps its own config or gets what the
   user typed (the form has no key, page.tsx:536). *)
EditKeepsItsRow == \A p \in There : srv.rows[p].text \in {p, Typed}

(* Refuted.  With the filter "Orphaned only" a list read after the pipeline was
   deleted shows the sensors that lost their target: the server sets the target
   to null (db/models/sensor.py:44), the filter looks for one that is unknown. *)
OrphansAreShown ==
  ui.orphaned /\ ui.rows # NoRows /\ ~srv.pipeline /\ ui.rows = srv.rows =>
    \A p \in There : ~srv.rows[p].target => p \in Visible
=============================================================================
