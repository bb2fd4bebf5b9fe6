--------------------------- MODULE PipelinesPage ---------------------------
(***************************************************************************)
(* The list of pipelines (app/w/[slug]/pipelines/page.tsx): its rows, a     *)
(* selection with three bulk operations, the card that creates a pipeline,  *)
(* and delete and trigger of one row.  The list is read when the page opens *)
(* and after a single delete; a bulk delete edits the rows on screen.       *)
(***************************************************************************)
EXTENDS Browser

CONSTANTS Pipelines,     \* the pipelines of the workspace: small numbers
          MaxRuns        \* bound: runs of a pipeline

Bulks == {"dry", "run", "delete"}
Filters == {"all", "never", "broken"}     \* ?broken=1 in the URL presets the last
NoRows == {0}
Nobody == 0
ToBulk == -1             \* the dialog of the bulk delete is open

\* srv: the pipelines there are, their runs, which are saved, which use a
\* connection that is gone, which declare parameters, whether the workspace
\* has a connection at all, and whether this page created one.
Init ==
  /\ \E conns \in BOOLEAN :
       srv = [there |-> Pipelines, runs |-> [p \in Pipelines |-> 0], saved |-> Pipelines,
              broken |-> IF conns THEN {} ELSE {1}, params |-> Pipelines \ {1}, conns |-> conns, created |-> FALSE]
  /\ \E preset \in Filters \ {"never"} :
       ui = [rows |-> NoRows, conns |-> FALSE, ran |-> {}, filter |-> preset, selected |-> {}, dialog |-> Nobody, deleting |-> FALSE,
             triggering |-> Nobody, asksParams |-> Nobody, busy |-> {}, creating |-> FALSE, submitting |-> FALSE, left |-> FALSE]
  /\ net = With(With(<<>>, "list", {}), "conns", {})
  /\ clicks = 0 /\ noise = {}

Shown == ui.rows \ NoRows

\* Whether p would only fail to build: not before the connections are known.
IsBroken(p) == ui.conns /\ p \in srv.broken
Runnable(p) == p \in srv.saved /\ ~IsBroken(p)

\* The rows the filter leaves: under "broken" none before the connections are
\* known, under "never" those without a run as far as the poll has told.
Passes(p) == (ui.filter = "never" => p \notin ui.ran) /\ (ui.filter = "broken" => IsBroken(p))
Visible == {p \in Shown : Passes(p)}

FirstOf(ids) == CHOOSE p \in ids : \A q \in ids : p <= q

------------------------------------------------------------------------------
ListBack ==
  /\ Returned("list")
  /\ ui' = [ui EXCEPT !.rows = IF Answered("list") THEN net["list"].got ELSE {}]
  /\ net' = Closed("list") /\ noise' = IF Rejected("list") THEN noise \cup {"stale rows"} ELSE noise
  /\ UNCHANGED <<srv, clicks>>

ConnsBack ==
  /\ Returned("conns")
  /\ ui' = [ui EXCEPT !.conns = Answered("conns")]
  /\ net' = Closed("conns") /\ UNCHANGED <<srv, clicks, noise>>

\* The last run of each pipeline, every few seconds; a failure is passed over.
Ran == {p \in srv.there : srv.runs[p] > 0}

RunsPollFires ==
  /\ ~Out("runs") /\ ui.ran # Ran
  /\ net' = Sent("runs", {}) /\ UNCHANGED <<ui, srv, clicks, noise>>

RunsBack ==
  /\ Returned("runs")
  /\ ui' = IF Answered("runs") THEN [ui EXCEPT !.ran = net["runs"].got] ELSE ui
  /\ net' = Closed("runs") /\ UNCHANGED <<srv, clicks, noise>>

SetFilter(f) ==
  /\ Click /\ f # ui.filter /\ ui.dialog = Nobody
  /\ ui' = [ui EXCEPT !.filter = f]
  /\ UNCHANGED <<net, srv, noise>>

------------------------------------------------------------------------------
(* The create card: an orchestration starts with a step on the first connection *)

OpenCard ==
  /\ Click /\ ui.dialog = Nobody /\ ~ui.submitting
  /\ ui' = [ui EXCEPT !.creating = ~@]
  /\ UNCHANGED <<net, srv, noise>>

Create(kind) ==
  /\ Click /\ ui.creating /\ ~ui.submitting /\ ui.dialog = Nobody
  /\ IF kind = "orchestration" /\ ~(ui.conns /\ srv.conns)
     THEN UNCHANGED <<ui, net>>
     ELSE ui' = [ui EXCEPT !.submitting = TRUE] /\ net' = Sent("create", {})
  /\ UNCHANGED <<srv, noise>>

\* What was created opens in the editor: the page is left.
CreateBack ==
  /\ Returned("create")
  /\ ui' = [ui EXCEPT !.submitting = FALSE, !.left = Answered("create")]
  /\ net' = Closed("create") /\ UNCHANGED <<srv, clicks, noise>>

------------------------------------------------------------------------------
(* One row *)

AskDelete(p) ==
  /\ Click /\ p \in Visible /\ ui.dialog = Nobody /\ ~ui.deleting
  /\ ui' = [ui EXCEPT !.dialog = p]
  /\ UNCHANGED <<net, srv, noise>>

LeaveDialog ==
  /\ ui.dialog # Nobody /\ ~ui.deleting
  /\ ui' = [ui EXCEPT !.dialog = Nobody]
  /\ UNCHANGED <<net, srv, clicks, noise>>

ConfirmDelete ==
  /\ ui.dialog \in Pipelines /\ ~ui.deleting
  /\ ui' = [ui EXCEPT !.deleting = TRUE] /\ net' = Sent("remove", {ui.dialog})
  /\ UNCHANGED <<srv, clicks, noise>>

\* Gone: the dialog closes and the list is read again, in the same try.
RemoveBack ==
  /\ Returned("remove")
  /\ IF Answered("remove")
     THEN ui' = [ui EXCEPT !.dialog = Nobody] /\ net' = With(Closed("remove"), "reload", {})
     ELSE ui' = [ui EXCEPT !.deleting = FALSE] /\ net' = Closed("remove")
  /\ noise' = IF Rejected("remove") THEN noise \cup {"lost remove"} ELSE noise
  /\ UNCHANGED <<srv, clicks>>

ReloadBack ==
  /\ Returned("reload")
  /\ ui' = [ui EXCEPT !.deleting = FALSE, !.rows = IF Answered("reload") THEN net["reload"].got ELSE @]
  /\ net' = Closed("reload")
  /\ noise' = IF Rejected("reload") \/ "delete" \in ui.busy THEN noise \cup {"stale rows"} ELSE noise
  /\ UNCHANGED <<srv, clicks>>

\* Parameters are asked for in a dialog of their own; else one click runs it.
Trigger(p) ==
  /\ Click /\ p \in Visible /\ Runnable(p) /\ ui.dialog = Nobody /\ ui.asksParams = Nobody
  /\ IF p \in srv.params
     THEN ui' = [ui EXCEPT !.asksParams = p] /\ UNCHANGED net
     ELSE /\ ui.triggering # p /\ ~Out(Named("trigger", p))
          /\ ui' = [ui EXCEPT !.triggering = p] /\ net' = Sent(Named("trigger", p), {p})
  /\ UNCHANGED <<srv, noise>>

\* One slot for the spinner: the answer for any row clears it.
TriggerBack(p) ==
  /\ Returned(Named("trigger", p))
  /\ ui' = [ui EXCEPT !.triggering = Nobody] /\ net' = Closed(Named("trigger", p))
  /\ UNCHANGED <<srv, clicks, noise>>

\* The parameters dialog: Escape and the backdrop close it at any time, and the
\* answer of a submit that worked closes whichever one is open.
SubmitParams ==
  /\ ui.asksParams # Nobody /\ ~Out("params")
  /\ net' = Sent("params", {ui.asksParams}) /\ UNCHANGED <<ui, srv, clicks, noise>>

LeaveParams ==
  /\ ui.asksParams # Nobody /\ ui' = [ui EXCEPT !.asksParams = Nobody]
  /\ UNCHANGED <<net, srv, clicks, noise>>

ParamsBack ==
  /\ Returned("params")
  /\ ui' = IF Answered("params") THEN [ui EXCEPT !.asksParams = Nobody] ELSE ui
  /\ net' = Closed("params") /\ UNCHANGED <<srv, clicks, noise>>

------------------------------------------------------------------------------
(* The selection and its bar *)

Toggle(p) ==
  /\ Click /\ p \in Visible /\ ui.dialog = Nobody
  /\ ui' = [ui EXCEPT !.selected = IF p \in @ THEN @ \ {p} ELSE @ \cup {p}]
  /\ UNCHANGED <<net, srv, noise>>

\* The header's checkbox takes or drops the rows on screen, and only those.
ToggleAll ==
  /\ Click /\ Visible # {} /\ ui.dialog = Nobody
  /\ ui' = [ui EXCEPT !.selected = IF Visible \subseteq @ THEN @ \ Visible ELSE @ \cup Visible]
  /\ UNCHANGED <<net, srv, noise>>

Idle == ui.selected # {} /\ ui.busy = {} /\ ui.dialog = Nobody

ClearSelection ==
  /\ Click /\ Idle /\ ui' = [ui EXCEPT !.selected = {}]
  /\ UNCHANGED <<net, srv, noise>>

AskBulkDelete ==
  /\ Click /\ Idle /\ ui' = [ui EXCEPT !.dialog = ToBulk]
  /\ UNCHANGED <<net, srv, noise>>

\* The loop works on the selection of the click, whatever is ticked meanwhile.
Starts(b) ==
  /\ IF b = "delete" THEN ui.dialog = ToBulk /\ ui.selected # {} /\ UNCHANGED clicks ELSE Click /\ Idle
  /\ LET ids == IF b = "run" THEN {p \in ui.selected : p \in Shown /\ Runnable(p)} ELSE ui.selected
     IN  IF ids = {} THEN UNCHANGED <<ui, net>>
         ELSE /\ ui' = [ui EXCEPT !.busy = @ \cup {b}, !.dialog = Nobody]
              /\ net' = Sent(b, [ids |-> ids, all |-> ui.selected, failed |-> FALSE])
  /\ noise' = IF b = "delete" /\ (Out("reload") \/ Out("list")) THEN noise \cup {"stale rows"} ELSE noise
  /\ UNCHANGED srv

\* After the last one a bulk delete takes every row it was asked to delete off
\* the screen, those the server kept as well.
Continues(b) ==
  /\ Returned(b)
  /\ LET arg == net[b].arg
         rest == arg.ids \ {FirstOf(arg.ids)}
         failed == arg.failed \/ Rejected(b)
     IN  IF rest # {}
         THEN net' = Sent(b, [arg EXCEPT !.ids = rest, !.failed = failed]) /\ UNCHANGED <<ui, noise>>
         ELSE /\ ui' = IF b = "delete"
                       THEN [ui EXCEPT !.busy = @ \ {b}, !.selected = {}, !.rows = @ \ arg.all]
                       ELSE [ui EXCEPT !.busy = @ \ {b}]
              /\ net' = Closed(b)
              /\ noise' = IF b = "delete" /\ (failed \/ Out("reload")) THEN noise \cup {"stale rows"} ELSE noise
  /\ UNCHANGED <<srv, clicks>>

------------------------------------------------------------------------------
Target(k) == IF k \in Bulks THEN FirstOf(net[k].arg.ids) ELSE FirstOf(net[k].arg)

Serve ==
  \/ \E k \in {"list", "reload"} : Handles(k, srv, srv.there)
  \/ \E k \in {"conns", "dry"} : Handles(k, srv, {})
  \/ Handles("runs", srv, Ran)
  \/ Handles("create", [srv EXCEPT !.created = TRUE], {})
  \/ \E k \in {Named("trigger", p) : p \in Pipelines} \cup {"params", "run"} :
       /\ Out(k) /\ Target(k) \in srv.there /\ srv.runs[Target(k)] < MaxRuns
       /\ Handles(k, [srv EXCEPT !.runs[Target(k)] = @ + 1], {})
  \/ \E k \in {"remove", "delete"} :
       Out(k) /\ Target(k) \in srv.there /\ Handles(k, [srv EXCEPT !.there = @ \ {Target(k)}], {})

Returns ==
  \/ ListBack \/ ConnsBack \/ RunsBack \/ CreateBack \/ RemoveBack \/ ReloadBack \/ ParamsBack \/ \E p \in Pipelines : TriggerBack(p)
  \/ \E b \in Bulks : Continues(b)

Clicks ==
  \/ \E p \in Pipelines : Toggle(p) \/ AskDelete(p) \/ Trigger(p)
  \/ \E kind \in {"dataflow", "orchestration"} : Create(kind)
  \/ \E b \in Bulks : Starts(b)
  \/ \E f \in Filters : SetFilter(f)
  \/ ToggleAll \/ OpenCard \/ LeaveDialog \/ ConfirmDelete \/ SubmitParams \/ LeaveParams \/ ClearSelection \/ AskBulkDelete

Next ==
  \/ Serve
  \/ ~ui.left /\ (Returns \/ Clicks \/ RunsPollFires \/ \E k \in DOMAIN net : Breaks(k))

TypeOK ==
  /\ ui.rows \subseteq Pipelines \cup NoRows /\ ui.selected \subseteq Pipelines
  /\ ui.busy \subseteq Bulks /\ ui.dialog \in Pipelines \cup {Nobody, ToBulk}
  /\ srv.there \subseteq Pipelines

(* At rest the table shows the pipelines there are, except after a list that
   could not be read, a delete whose answer was lost or failed in a bulk, or a
   list read while a bulk delete was under way. *)
ShowsServer ==
  Quiet /\ ~ui.left /\ noise \cap {"stale rows", "lost remove"} = {} => ui.rows = srv.there

SpinnersHaveRequests ==
  /\ \A b \in ui.busy : Out(b)
  /\ ui.deleting => Out("remove") \/ Out("reload")
  /\ ui.submitting => Out("create")
  /\ ui.triggering # Nobody => Out(Named("trigger", ui.triggering))
=============================================================================
