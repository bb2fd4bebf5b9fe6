--------------------------- MODULE MigrationsPage ---------------------------
(***************************************************************************)
(* The list of migrations (app/w/[slug]/migrations/page.tsx): rows, their   *)
(* last run and schedule (both polled), a filter, a selection, and four     *)
(* bulk operations that go through the selection one request at a time.     *)
(***************************************************************************)
EXTENDS Browser

CONSTANTS Migrations,    \* the migrations of the workspace: small numbers
          MaxRuns        \* bound: runs of a migration

Bulks == {"dry", "run", "schedule", "delete"}
Dialogs == {"none", "delete", "schedule"}
NoRows == {0}
Nobody == 0

\* srv: the migrations there are, how often each ran, which have a schedule,
\* which have a saved version.
Known == srv.there
Listed == [there |-> srv.there]
Health == [runs |-> srv.runs, scheduled |-> srv.scheduled]

Init ==
  /\ \E saved \in SUBSET Migrations :
       srv = [there |-> Migrations, runs |-> [p \in Migrations |-> 0], scheduled |-> {}, saved |-> saved]
  /\ ui = [rows |-> NoRows, runs |-> [p \in Migrations |-> 0], scheduled |-> {}, selected |-> {}, never |-> FALSE,
           triggering |-> Nobody, busy |-> {}, dialog |-> "none", told |-> "nothing"]
  /\ net = With(<<>>, "list", {})
  /\ clicks = 0 /\ noise = {}

\* What the table shows: with the "never run" filter, rows without a run.
Visible == {p \in ui.rows \ NoRows : ui.never => ui.runs[p] = 0}

------------------------------------------------------------------------------
(* Loading and polling *)

ListBack ==
  /\ Returned("list")
  /\ ui' = [ui EXCEPT !.rows = IF Answered("list") THEN net["list"].got.there ELSE {}]
  /\ net' = Closed("list") /\ noise' = IF Rejected("list") THEN noise \cup {"stale rows"} ELSE noise
  /\ UNCHANGED <<srv, clicks>>

\* Runs every five seconds, schedules every ten; a failure is passed over.
PollFires ==
  /\ ui.rows \notin {NoRows, {}} /\ ~Out("poll")
  /\ ui.runs # srv.runs \/ ui.scheduled # srv.scheduled
  /\ net' = Sent("poll", {}) /\ UNCHANGED <<ui, srv, clicks, noise>>

PollBack ==
  /\ Returned("poll")
  /\ ui' = IF Answered("poll") THEN [ui EXCEPT !.runs = net["poll"].got.runs, !.scheduled = net["poll"].got.scheduled] ELSE ui
  /\ net' = Closed("poll") /\ UNCHANGED <<srv, clicks, noise>>

------------------------------------------------------------------------------
(* Selecting and filtering *)

Toggle(p) ==
  /\ Click /\ p \in Visible /\ ui.dialog = "none"
  /\ ui' = [ui EXCEPT !.selected = IF p \in @ THEN @ \ {p} ELSE @ \cup {p}]
  /\ UNCHANGED <<net, srv, noise>>

\* The header's checkbox takes or drops the rows on screen, and only those.
ToggleAll ==
  /\ Click /\ Visible # {} /\ ui.dialog = "none"
  /\ ui' = [ui EXCEPT !.selected = IF Visible \subseteq @ THEN @ \ Visible ELSE @ \cup Visible]
  /\ UNCHANGED <<net, srv, noise>>

Filter ==
  /\ Click /\ ui.rows # NoRows /\ ui.dialog = "none"
  /\ ui' = [ui EXCEPT !.never = ~@]
  /\ UNCHANGED <<net, srv, noise>>

ClearSelection ==
  /\ Click /\ ui.selected # {} /\ ui.dialog = "none" /\ ui.busy \cap {"run", "delete", "dry"} = {}
  /\ ui' = [ui EXCEPT !.selected = {}]
  /\ UNCHANGED <<net, srv, noise>>

------------------------------------------------------------------------------
(* Running one *)

RunOne(p) ==
  /\ Click /\ p \in Visible /\ p \in srv.saved /\ ui.triggering = Nobody /\ ui.dialog = "none"
  /\ ui' = [ui EXCEPT !.triggering = p] /\ net' = Sent("trigger", {p})
  /\ UNCHANGED <<srv, noise>>

RunOneBack ==
  /\ Returned("trigger")
  /\ LET p == CHOOSE q \in net["trigger"].arg : TRUE
     IN  ui' = [ui EXCEPT !.triggering = Nobody, !.runs[p] = IF Answered("trigger") THEN net["trigger"].got.runs[p] ELSE @]
  /\ net' = Closed("trigger") /\ UNCHANGED <<srv, clicks, noise>>

------------------------------------------------------------------------------
(* Bulk operations: the bar over the table, with its two dialogs *)

\* Mutant: the button that deletes does not wait for a bulk run.
Blocks_RunBesideDelete == [dry |-> Bulks, run |-> Bulks, schedule |-> {"run", "delete", "schedule"}, delete |-> {"schedule"}]

\* What a button of the bar waits for.
Blocks == [dry |-> Bulks, run |-> Bulks, schedule |-> {"run", "delete", "schedule"}, delete |-> {"run", "schedule"}]
Allowed(b) == ui.selected # {} /\ ui.dialog = "none" /\ ui.busy \cap Blocks[b] = {}

OpenDialog(b) ==
  /\ Click /\ b \in Dialogs \ {"none"} /\ Allowed(b)
  /\ ui' = [ui EXCEPT !.dialog = b]
  /\ UNCHANGED <<net, srv, noise>>

CloseDialog ==
  /\ ui.dialog # "none" /\ ui' = [ui EXCEPT !.dialog = "none"]
  /\ UNCHANGED <<net, srv, clicks, noise>>

\* The loop over ids: the next one that has to be asked for, if any.  A dry run
\* and a run pass over rows that are gone or have no saved version.
Todo(b, ids) ==
  IF b \in {"dry", "run"} THEN {p \in ids : p \in ui.rows /\ p \in srv.saved} ELSE ids

FirstOf(ids) == CHOOSE p \in ids : \A q \in ids : p <= q

\* The loop is over: what each operation does after it.
Ends(b, shown, from) ==
  LET done == [shown EXCEPT !.busy = @ \ {b}]
  IN  CASE b = "delete"   -> /\ ui' = [done EXCEPT !.dialog = "none", !.selected = {}]
                             /\ net' = With(from, "reload", {})
                             /\ noise' = IF Out("reload") THEN noise \cup {"stale rows"} ELSE noise
        [] b = "schedule" -> ui' = [done EXCEPT !.dialog = "none"] /\ net' = from /\ UNCHANGED noise
        [] OTHER          -> ui' = done /\ net' = from /\ UNCHANGED noise

Starts(b) ==
  /\ \/ b \in {"dry", "run"} /\ Click /\ Allowed(b)
     \/ b = ui.dialog /\ b \notin ui.busy /\ ui.selected # {} /\ UNCHANGED clicks
  /\ LET ids == Todo(b, ui.selected)
     IN  IF ids = {} THEN UNCHANGED <<ui, net>>
         ELSE ui' = [ui EXCEPT !.busy = @ \cup {b}] /\ net' = Sent(b, ids)
  /\ UNCHANGED <<srv, noise>>

\* The answer for one row, good or bad, and on to the next.
Continues(b) ==
  /\ Returned(b)
  /\ LET p == FirstOf(net[b].arg)
         rest == net[b].arg \ {p}
         painted == IF b = "run" /\ Answered(b) THEN [ui EXCEPT !.runs[p] = net[b].got.runs[p]] ELSE ui
     IN  IF rest = {} THEN Ends(b, painted, Closed(b))
         ELSE ui' = painted /\ net' = Sent(b, rest) /\ UNCHANGED noise
  /\ UNCHANGED <<srv, clicks>>

\* The refresh after a bulk delete; no other poll reads the rows again.
ReloadBack ==
  /\ Returned("reload")
  /\ ui' = IF Answered("reload") THEN [ui EXCEPT !.rows = net["reload"].got.there] ELSE ui
  /\ net' = Closed("reload")
  /\ noise' = IF Rejected("reload") THEN noise \cup {"stale rows"} ELSE noise
  /\ UNCHANGED <<srv, clicks>>

------------------------------------------------------------------------------
Ran(p) ==
  IF p \in srv.there THEN [srv EXCEPT !.runs[p] = @ + 1] ELSE srv

Serve ==
  \/ \E k \in {"list", "reload"} : Handles(k, srv, Listed)
  \/ Handles("poll", srv, Health)
  \/ Out("dry") /\ Handles("dry", srv, Listed)
  \/ \E k \in {"trigger", "run"} :
       /\ Out(k)
       /\ LET after == Ran(FirstOf(net[k].arg))
          IN  after # srv /\ after.runs[FirstOf(net[k].arg)] <= MaxRuns /\ Handles(k, after, [runs |-> after.runs])
  \/ Out("schedule") /\ Handles("schedule", [srv EXCEPT !.scheduled = @ \cup ({FirstOf(net["schedule"].arg)} \cap srv.there)], Listed)
  \/ Out("delete") /\ Handles("delete", [srv EXCEPT !.there = @ \ {FirstOf(net["delete"].arg)},
                                                     !.scheduled = @ \ {FirstOf(net["delete"].arg)}], Listed)

Returns == ListBack \/ PollBack \/ RunOneBack \/ ReloadBack \/ \E b \in Bulks : Continues(b)

Clicks ==
  \/ \E p \in Migrations : Toggle(p) \/ RunOne(p)
  \/ ToggleAll \/ Filter \/ ClearSelection \/ CloseDialog
  \/ \E b \in Bulks : OpenDialog(b) \/ Starts(b)

Next == Serve \/ Returns \/ Clicks \/ PollFires \/ \E k \in DOMAIN net : Breaks(k)

TypeOK ==
  /\ ui.rows \subseteq Migrations \cup NoRows /\ ui.selected \subseteq Migrations
  /\ ui.busy \subseteq Bulks /\ ui.dialog \in Dialogs
  /\ DOMAIN net \subseteq Bulks \cup {"list", "poll", "trigger", "reload"}
  /\ srv.there \subseteq Migrations

(* At rest the table shows the migrations there are, whatever failed half-way
   through a bulk delete, as long as the list itself could be read. *)
ShowsServer ==
  Quiet /\ "stale rows" \notin noise => ui.rows = srv.there

(* A spinner turns only while its request is under way. *)
SpinnersHaveRequests ==
  /\ \A b \in ui.busy : Out(b)
  /\ ui.triggering # Nobody => Out("trigger")

(* No bulk run and no scheduling is under way together with a bulk delete: each
   button looks at the flags of the others, and the dialog can be closed on a
   delete that is under way. *)
BulksExclude ==
  "delete" \in ui.busy => ui.busy \cap {"run", "schedule"} = {}
=============================================================================
