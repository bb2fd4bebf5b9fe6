--------------------------- MODULE SchedulesPage ---------------------------
(***************************************************************************)
(* The schedules of a workspace (app/w/[slug]/schedules/page.tsx) and its   *)
(* two forms (components/schedules/schedule-form.tsx).  The list is read    *)
(* when the page opens and again after each change; no read is given up     *)
(* when a later one starts.  The edit form stands above the table: a pencil *)
(* can be clicked while the form is open on another row.                    *)
(***************************************************************************)
EXTENDS Browser

CONSTANT Schedules       \* the schedules at first: 1..n; one more may be made

NoRows == [p \in {0} |-> 0]
Nobody == 0
Made == Cardinality(Schedules) + 1
AnyRow == Schedules \cup {Made}
Typed == 0               \* name and cron as typed by the user; else whose they are

Closed0 == [kind |-> "closed", row |-> Nobody, was |-> Typed, text |-> Typed, submitting |-> FALSE]

\* srv: the schedules there are, each with its text and whether it is active,
\* and the runs started by Run now.
Init ==
  /\ srv = [rows |-> [p \in Schedules |-> [text |-> p, active |-> TRUE]], runs |-> 0]
  /\ ui = [rows |-> NoRows, filter |-> "all", form |-> Closed0, dialog |-> Nobody, deleting |-> FALSE,
           toggling |-> Nobody, running |-> Nobody, left |-> FALSE]
  /\ net = With(<<>>, "refresh", {})
  /\ clicks = 0 /\ noise = {}

Shown == IF ui.rows = NoRows THEN {} ELSE DOMAIN ui.rows
Visible == {p \in Shown : (ui.filter = "active" => ui.rows[p].active) /\ (ui.filter = "paused" => ~ui.rows[p].active)}

Refreshes == {"refresh", "saved", "deleted"} \cup {Named("toggled", p) : p \in AnyRow}

\* One refresh of the list: with another under way the older may come last.
Refresh(requests, k) ==
  /\ net' = With(requests, k, {})
  /\ noise' = IF DOMAIN requests \cap Refreshes # {} THEN noise \cup {"stale rows"} ELSE noise

\* The list, or nothing when it cannot be read; what waited for it goes on.
RefreshBack(k) ==
  /\ Returned(k)
  /\ LET rows == IF Answered(k) THEN net[k].got ELSE [p \in {} |-> 0]
         shown == [ui EXCEPT !.rows = rows]
     IN  ui' = CASE k = "deleted" -> [shown EXCEPT !.deleting = FALSE]
                 [] k \in {"refresh", "saved"} -> shown
                 [] OTHER -> [shown EXCEPT !.toggling = Nobody]
  /\ net' = Closed(k)
  /\ noise' = IF Rejected(k) THEN noise \cup {"stale rows"} ELSE noise
  /\ UNCHANGED <<srv, clicks>>

Lost(k) == noise' = IF Rejected(k) THEN noise \cup {"lost answer"} ELSE noise

------------------------------------------------------------------------------
(* The buttons of a row *)

Reachable == ui.dialog = Nobody

\* Only the button of the row in the one slot waits.
Toggle(p) ==
  /\ Click /\ p \in Visible /\ Reachable /\ ui.toggling # p
  /\ ~Out(Named("toggle", p)) /\ ~Out(Named("toggled", p))
  /\ ui' = [ui EXCEPT !.toggling = p] /\ net' = Sent(Named("toggle", p), p)
  /\ UNCHANGED <<srv, noise>>

\* Mutant: the list is not read again after a toggle.
ToggleBack_NoRefresh(p) ==
  LET k == Named("toggle", p)
  IN  /\ Returned(k)
      /\ ui' = [ui EXCEPT !.toggling = Nobody] /\ net' = Closed(k) /\ Lost(k)
      /\ UNCHANGED <<srv, clicks>>

ToggleBack(p) ==
  LET k == Named("toggle", p)
  IN  /\ Returned(k)
      /\ IF Answered(k)
         THEN Refresh(Closed(k), Named("toggled", p)) /\ UNCHANGED ui
         ELSE ui' = [ui EXCEPT !.toggling = Nobody] /\ net' = Closed(k) /\ Lost(k)
      /\ UNCHANGED <<srv, clicks>>

RunNow(p) ==
  /\ Click /\ p \in Visible /\ Reachable /\ ui.running # p /\ ~Out("run")
  /\ ui' = [ui EXCEPT !.running = p] /\ net' = Sent("run", p)
  /\ UNCHANGED <<srv, noise>>

\* A run that was queued opens its page.
RunNowBack ==
  /\ Returned("run")
  /\ ui' = [ui EXCEPT !.running = Nobody, !.left = Answered("run")]
  /\ net' = Closed("run") /\ UNCHANGED <<srv, clicks, noise>>

AskDelete(p) ==
  /\ Click /\ p \in Visible /\ Reachable
  /\ ui' = [ui EXCEPT !.dialog = p] /\ UNCHANGED <<net, srv, noise>>

LeaveDialog ==
  /\ ui.dialog # Nobody /\ ~ui.deleting
  /\ ui' = [ui EXCEPT !.dialog = Nobody] /\ UNCHANGED <<net, srv, clicks, noise>>

ConfirmDelete ==
  /\ ui.dialog # Nobody /\ ~ui.deleting
  /\ ui' = [ui EXCEPT !.deleting = TRUE] /\ net' = Sent("delete", ui.dialog)
  /\ UNCHANGED <<srv, clicks, noise>>

\* Mutant: the flag is reset where the delete worked only.
DeleteBack_NoFinally ==
  /\ Returned("delete")
  /\ IF Answered("delete")
     THEN ui' = [ui EXCEPT !.dialog = Nobody] /\ Refresh(Closed("delete"), "deleted")
     ELSE UNCHANGED ui /\ net' = Closed("delete") /\ Lost("delete")
  /\ UNCHANGED <<srv, clicks>>

\* The dialog closes with the answer; the flag stays until the list is there.
DeleteBack ==
  /\ Returned("delete")
  /\ IF Answered("delete")
     THEN ui' = [ui EXCEPT !.dialog = Nobody] /\ Refresh(Closed("delete"), "deleted")
     ELSE ui' = [ui EXCEPT !.deleting = FALSE] /\ net' = Closed("delete") /\ Lost("delete")
  /\ UNCHANGED <<srv, clicks>>

------------------------------------------------------------------------------
(* The forms *)

\* The pencil: an edit form that is open already keeps what its fields hold.
Edit(p) ==
  /\ Click /\ p \in Visible /\ Reachable
  /\ ui' = [ui EXCEPT !.form =
       IF @.kind = "edit" THEN [@ EXCEPT !.row = p, !.was = ui.rows[p].text]
       ELSE [kind |-> "edit", row |-> p, was |-> ui.rows[p].text, text |-> ui.rows[p].text, submitting |-> FALSE]]
  /\ UNCHANGED <<net, srv, noise>>

\* The New button opens the create form, in the place of an edit form, or
\* closes it.
New ==
  /\ Click /\ Reachable /\ ui.rows # NoRows
  /\ ui' = [ui EXCEPT !.form = IF @.kind = "create" THEN Closed0 ELSE [Closed0 EXCEPT !.kind = "create"]]
  /\ UNCHANGED <<net, srv, noise>>

Type ==
  /\ Click /\ Reachable /\ ui.form.kind = "edit" /\ ui.form.text # Typed
  /\ ui' = [ui EXCEPT !.form.text = Typed] /\ UNCHANGED <<net, srv, noise>>

LeaveForm ==
  /\ Reachable /\ ui.form.kind # "closed" /\ ~ui.form.submitting
  /\ ui' = [ui EXCEPT !.form = Closed0] /\ UNCHANGED <<net, srv, clicks, noise>>

SaveNew ==
  /\ Reachable /\ ui.form.kind = "create" /\ ~ui.form.submitting /\ ~Out("save")
  /\ ui' = [ui EXCEPT !.form.submitting = TRUE] /\ net' = Sent("save", [row |-> Made, text |-> Made])
  /\ UNCHANGED <<srv, clicks, noise>>

\* Only what differs from the row the form is about is sent; nothing: it closes.
SaveEdit ==
  /\ Reachable /\ ui.form.kind = "edit" /\ ~ui.form.submitting /\ ~Out("save")
  /\ IF ui.form.text = ui.form.was
     THEN ui' = [ui EXCEPT !.form = Closed0] /\ UNCHANGED net
     ELSE ui' = [ui EXCEPT !.form.submitting = TRUE] /\ net' = Sent("save", [row |-> ui.form.row, text |-> ui.form.text])
  /\ UNCHANGED <<srv, clicks, noise>>

\* Saved: whichever form is open now closes, and the list is read again.
SaveBack ==
  /\ Returned("save")
  /\ IF Answered("save")
     THEN ui' = [ui EXCEPT !.form = Closed0] /\ Refresh(Closed("save"), "saved")
     ELSE ui' = [ui EXCEPT !.form.submitting = FALSE] /\ net' = Closed("save") /\ Lost("save")
  /\ UNCHANGED <<srv, clicks>>

\* The status filter of a long list.
SetFilter(f) ==
  /\ Click /\ Reachable /\ ui.rows # NoRows /\ f # ui.filter
  /\ ui' = [ui EXCEPT !.filter = f] /\ UNCHANGED <<net, srv, noise>>

------------------------------------------------------------------------------
There == DOMAIN srv.rows

Serve ==
  \/ \E k \in Refreshes : Handles(k, srv, srv.rows)
  \/ \E p \in There : Handles(Named("toggle", p), [srv EXCEPT !.rows[p].active = ~@], {})
  \/ Out("run") /\ net["run"].arg \in There /\ Handles("run", [srv EXCEPT !.runs = @ + 1], {})
  \/ Out("delete") /\ net["delete"].arg \in There
     /\ Handles("delete", [srv EXCEPT !.rows = Restrict(@, There \ {net["delete"].arg})], {})
  \/ LET asked == net["save"].arg
     IN  /\ Out("save") /\ (asked.row \in There <=> asked.row # Made \/ asked.text # Made)
         /\ Handles("save", [srv EXCEPT !.rows = [p \in There \cup {asked.row} |->
              IF p \in There THEN IF p = asked.row THEN [@[p] EXCEPT !.text = asked.text] ELSE @[p]
              ELSE [text |-> asked.text, active |-> TRUE]]], {})

Returns ==
  \/ \E k \in Refreshes : RefreshBack(k)
  \/ \E p \in AnyRow : ToggleBack(p)
  \/ RunNowBack \/ DeleteBack \/ SaveBack

RowButtons == \E p \in AnyRow : RunNow(p) \/ Toggle(p) \/ Edit(p) \/ AskDelete(p)
Forms == New \/ Type \/ LeaveForm \/ SaveNew \/ SaveEdit
Clicks == RowButtons \/ Forms \/ LeaveDialog \/ ConfirmDelete \/ \E f \in {"all", "active", "paused"} : SetFilter(f)

Next ==
  \/ Serve
  \/ ~ui.left /\ (Returns \/ Clicks \/ \E k \in DOMAIN net : Breaks(k))

TypeOK ==
  /\ DOMAIN srv.rows \subseteq AnyRow /\ Shown \subseteq AnyRow \cup {0}
  /\ ui.form.kind \in {"closed", "create", "edit"} /\ ui.dialog \in AnyRow \cup {Nobody}

(* At rest the table shows the schedules as the server has them: every change
   that was answered is followed by a read of the list.  Not so when an answer
   was lost, or when two reads were under way at once. *)
ShowsServer ==
  Quiet /\ ~ui.left /\ noise \cap {"stale rows", "lost answer"} = {} => ui.rows = srv.rows

SpinnersHaveRequests ==
  /\ ui.deleting => Out("delete") \/ Out("deleted")
  /\ ui.running # Nobody => Out("run")
  /\ ui.form.submitting => Out("save")
  /\ ui.toggling # Nobody => Out(Named("toggle", ui.toggling)) \/ Out(Named("toggled", ui.toggling))

(* Refuted.  "Edit {name}" (lib/i18n/messages.ts:1483): a schedule keeps its own
   name and cron or gets what the user typed.  The form has no key: opened for
   another row it keeps the values of the row before. *)
EditKeepsItsRow == \A p \in There : srv.rows[p].text \in {p, Typed}
=============================================================================
