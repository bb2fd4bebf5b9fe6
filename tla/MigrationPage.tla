--------------------------- MODULE MigrationPage ---------------------------
(***************************************************************************)
(* One migration (app/w/[slug]/migrations/[id]/page.tsx): its form, its one *)
(* schedule, its last runs.  The page is read once, and again when the      *)
(* language changes; the runs are polled.  A run that is started is put on  *)
(* top of the list before the poll finds it.                                *)
(***************************************************************************)
EXTENDS Browser

CONSTANTS Kept,          \* how many runs the list shows
          MaxRuns

\* A form is a number: 0 as it was first, Blank with a required field missing.
Forms == {0, 1}
Blank == -1
Unread == -2
NoSchedule == [cron |-> "", active |-> FALSE]
Crons == {"daily", "hourly"}

\* The newest first, each run by its number.
Newest(n) == [i \in 1..(IF n < Kept THEN n ELSE Kept) |-> n + 1 - i]
Unpolled == <<0>>

\* srv: the configuration, whether it is of a migration, whether the
\* connection it names is there, its schedules, its runs.
Init ==
  /\ \E first \in {<<>>, <<[cron |-> "daily", active |-> TRUE]>>}, shape \in BOOLEAN, conns \in {{}, {"c"}, {"d"}} :
       /\ (shape = FALSE => first = <<>> /\ conns = {"c"}) /\ (first # <<>> => conns = {"c"})
       /\ srv = [config |-> 0, shape |-> shape, conns |-> conns, schedules |-> first, runs |-> 1, exists |-> TRUE]
  /\ ui = [pipeline |-> Unread, form |-> Unread, outside |-> FALSE, conns |-> {}, schedule |-> NoSchedule, draft |-> "",
           loaded |-> FALSE, submitting |-> FALSE, saving |-> FALSE, triggering |-> FALSE, deleting |-> FALSE,
           dry |-> "no", dialog |-> "none", runs |-> Unpolled, left |-> FALSE]
  /\ net = With(With(<<>>, "load", {}), "poll", {})
  /\ clicks = 0 /\ noise = {}

First(schedules) == IF schedules = <<>> THEN NoSchedule ELSE schedules[1]
Lost(k) == IF Rejected(k) THEN noise \cup {"lost answer"} ELSE noise

------------------------------------------------------------------------------
(* Reading *)

\* Three reads in one; the schedules may fail alone, and count as none then.
LoadBack ==
  /\ Returned("load")
  /\ ui' = IF Rejected("load") THEN ui
           ELSE LET got == net["load"].got
                    read == [ui EXCEPT !.pipeline = got.config, !.conns = got.conns, !.schedule = First(got.schedules),
                                       !.draft = First(got.schedules).cron, !.loaded = TRUE]
                IN  IF got.shape THEN [read EXCEPT !.form = got.config] ELSE [read EXCEPT !.outside = TRUE]
  /\ noise' = IF Answered("load") /\ (net["load"].got.schedules # srv.schedules \/ net["load"].got.config # srv.config)
              THEN noise \cup {"stale load"} ELSE noise
  /\ net' = Closed("load") /\ UNCHANGED <<srv, clicks>>

\* The strings of the page are a dependency of the effect that reads it.
ChangeLanguage == Click /\ net' = Sent("load", {}) /\ UNCHANGED <<ui, srv, noise>>

PollFires == ~Out("poll") /\ ui.runs # Newest(srv.runs) /\ net' = Sent("poll", {}) /\ UNCHANGED <<ui, srv, clicks, noise>>

\* A failed poll leaves what is there.
PollBack ==
  /\ Returned("poll")
  /\ ui' = [ui EXCEPT !.runs = IF Answered("poll") THEN net["poll"].got ELSE IF @ = Unpolled THEN <<>> ELSE @]
  /\ net' = Closed("poll") /\ UNCHANGED <<srv, clicks, noise>>

------------------------------------------------------------------------------
(* The form and the buttons of the header *)

Ready == ui.pipeline # Unread /\ ui.dialog = "none"
Missing == ui.form # Unread /\ ui.conns # {} /\ "c" \notin ui.conns

Change(f) == Click /\ Ready /\ ui.form \notin {f, Unread} /\ ui' = [ui EXCEPT !.form = f] /\ UNCHANGED <<net, srv, noise>>

Submit ==
  /\ Click /\ Ready /\ ui.form \in Forms /\ ~ui.submitting
  /\ ui' = [ui EXCEPT !.submitting = TRUE] /\ net' = Sent("update", ui.form)
  /\ UNCHANGED <<srv, noise>>

SubmitBack ==
  /\ Returned("update")
  /\ ui' = [ui EXCEPT !.submitting = FALSE, !.pipeline = IF Answered("update") THEN net["update"].got ELSE @]
  /\ net' = Closed("update") /\ noise' = Lost("update") /\ UNCHANGED <<srv, clicks>>

RunNow ==
  /\ Click /\ Ready /\ ~ui.outside /\ ~Missing /\ ~ui.triggering
  /\ ui' = [ui EXCEPT !.triggering = TRUE] /\ net' = Sent("trigger", {})
  /\ UNCHANGED <<srv, noise>>

\* On top, and what is below the last one kept is dropped.
OnTop(run, runs) == SubSeq(<<run>> \o runs, 1, IF Len(runs) < Kept THEN Len(runs) + 1 ELSE Kept)

RunNowBack ==
  /\ Returned("trigger")
  /\ ui' = [ui EXCEPT !.triggering = FALSE,
                      !.runs = IF Rejected("trigger") THEN @ ELSE OnTop(net["trigger"].got, IF @ = Unpolled THEN <<>> ELSE @)]
  /\ noise' = IF Answered("trigger") /\ net["trigger"].got \in Range(ui.runs) THEN noise \cup {"polled first"} ELSE noise
  /\ net' = Closed("trigger") /\ UNCHANGED <<srv, clicks>>

DryRun ==
  /\ Click /\ Ready /\ ~ui.outside /\ ui.dry # "under way"
  /\ ui' = [ui EXCEPT !.dry = "under way"] /\ net' = Sent("dry run", {})
  /\ UNCHANGED <<srv, noise>>

DryRunBack ==
  /\ Returned("dry run")
  /\ ui' = [ui EXCEPT !.dry = IF Answered("dry run") THEN "shown" ELSE "no"]
  /\ net' = Closed("dry run") /\ UNCHANGED <<srv, clicks, noise>>

Dismiss == ui.dry = "shown" /\ ui' = [ui EXCEPT !.dry = "no"] /\ UNCHANGED <<net, srv, clicks, noise>>

------------------------------------------------------------------------------
(* The schedule: one flag for its three requests *)

Draft(cron) == Click /\ Ready /\ ui.loaded /\ ~ui.saving /\ ~ui.outside /\ ui.draft # cron
               /\ ui' = [ui EXCEPT !.draft = cron] /\ UNCHANGED <<net, srv, noise>>

\* The one there is changed, else one made: as far as the page knows.
SaveSchedule ==
  /\ Click /\ Ready /\ ui.loaded /\ ~ui.outside /\ ~ui.saving /\ ui.draft # ""
  /\ ui' = [ui EXCEPT !.saving = TRUE]
  /\ net' = Sent("schedule", [op |-> IF ui.schedule = NoSchedule THEN "create" ELSE "update", cron |-> ui.draft])
  /\ UNCHANGED <<srv, noise>>

ToggleSchedule ==
  /\ Click /\ Ready /\ ui.schedule # NoSchedule /\ ~ui.saving
  /\ ui' = [ui EXCEPT !.saving = TRUE] /\ net' = Sent("schedule", [op |-> "toggle", cron |-> ui.schedule.cron])
  /\ UNCHANGED <<srv, noise>>

AskClear == Click /\ Ready /\ ui.schedule # NoSchedule /\ ~ui.saving /\ ui' = [ui EXCEPT !.dialog = "clear"] /\ UNCHANGED <<net, srv, noise>>

\* The dialog closes first.
ConfirmClear ==
  /\ ui.dialog = "clear" /\ ~ui.saving /\ ui.schedule # NoSchedule
  /\ ui' = [ui EXCEPT !.dialog = "none", !.saving = TRUE] /\ net' = Sent("schedule", [op |-> "delete", cron |-> ""])
  /\ UNCHANGED <<srv, clicks, noise>>

ScheduleBack ==
  /\ Returned("schedule")
  /\ ui' = IF Rejected("schedule") THEN [ui EXCEPT !.saving = FALSE]
           ELSE [ui EXCEPT !.saving = FALSE, !.schedule = net["schedule"].got,
                           !.draft = IF net["schedule"].arg.op = "delete" THEN "" ELSE @]
  /\ net' = Closed("schedule") /\ noise' = Lost("schedule") /\ UNCHANGED <<srv, clicks>>

------------------------------------------------------------------------------
AskDelete == Click /\ Ready /\ ui' = [ui EXCEPT !.dialog = "delete"] /\ UNCHANGED <<net, srv, noise>>
LeaveDialog == ui.dialog # "none" /\ ui' = [ui EXCEPT !.dialog = "none"] /\ UNCHANGED <<net, srv, clicks, noise>>

ConfirmDelete ==
  /\ ui.dialog = "delete" /\ ~ui.deleting
  /\ ui' = [ui EXCEPT !.deleting = TRUE] /\ net' = Sent("delete", {})
  /\ UNCHANGED <<srv, clicks, noise>>

\* Deleted: the page gives way to the list.  A delete dialog that is open closes.
DeleteBack ==
  /\ Returned("delete")
  /\ ui' = [ui EXCEPT !.deleting = FALSE, !.dialog = IF @ = "delete" THEN "none" ELSE @, !.left = Answered("delete")]
  /\ net' = Closed("delete") /\ noise' = Lost("delete") /\ UNCHANGED <<srv, clicks>>

------------------------------------------------------------------------------
(* The server *)

Schedules(op, cron) ==
  CASE op = "create" -> Append(srv.schedules, [cron |-> cron, active |-> TRUE])
    [] op = "update" -> [srv.schedules EXCEPT ![1].cron = cron]
    [] op = "toggle" -> [srv.schedules EXCEPT ![1].active = ~@]
    [] OTHER -> Tail(srv.schedules)

Serve ==
  \/ Handles("load", srv, [config |-> srv.config, shape |-> srv.shape, conns |-> srv.conns, schedules |-> srv.schedules])
  \/ Handles("poll", srv, Newest(srv.runs))
  \/ Out("update") /\ Handles("update", [srv EXCEPT !.config = net["update"].arg], net["update"].arg)
  \/ srv.runs < MaxRuns /\ Handles("trigger", [srv EXCEPT !.runs = @ + 1], srv.runs + 1)
  \/ Handles("dry run", srv, {})
  \/ /\ Out("schedule") /\ (net["schedule"].arg.op = "create" \/ srv.schedules # <<>>)
     /\ LET op == net["schedule"].arg.op
            after == Schedules(op, net["schedule"].arg.cron)
        IN  Handles("schedule", [srv EXCEPT !.schedules = after],
                    CASE op = "create" -> after[Len(after)] [] op = "delete" -> NoSchedule [] OTHER -> after[1])
  \/ Handles("delete", [srv EXCEPT !.exists = FALSE], {})

\* The list of the schedules alone cannot be read.
NoSchedules ==
  /\ Out("load") /\ net["load"].stage = "sent" /\ srv.schedules # <<>>
  /\ net' = [net EXCEPT !["load"].stage = "answered",
                        !["load"].got = [config |-> srv.config, shape |-> srv.shape, conns |-> srv.conns, schedules |-> <<>>]]
  /\ noise' = noise \cup {"schedules unread"} /\ UNCHANGED <<ui, srv, clicks>>

Returns == LoadBack \/ PollBack \/ SubmitBack \/ RunNowBack \/ DryRunBack \/ ScheduleBack \/ DeleteBack
Clicks ==
  \/ ChangeLanguage \/ Submit \/ RunNow \/ DryRun \/ Dismiss \/ AskDelete \/ LeaveDialog \/ ConfirmDelete
  \/ SaveSchedule \/ ToggleSchedule \/ AskClear \/ ConfirmClear
  \/ \E f \in Forms \cup {Blank} : Change(f)
  \/ \E c \in Crons : Draft(c)
Next ==
  \/ srv.exists /\ Serve
  \/ NoSchedules
  \/ ~ui.left /\ (Returns \/ Clicks \/ PollFires \/ \E k \in DOMAIN net : Breaks(k))

TypeOK ==
  /\ ui.form \in Forms \cup {Blank, Unread} /\ ui.dialog \in {"none", "delete", "clear"} /\ ui.dry \in {"no", "under way", "shown"}
  /\ Len(ui.runs) <= Kept \/ ui.runs = Unpolled

(* At rest the page shows the configuration, the schedule and the runs the
   server has, but for lost answers, a list of schedules that failed alone, and
   a read that was overtaken; no run is listed twice once a poll has answered. *)
ShowsServer ==
  /\ Quiet /\ ~ui.left /\ ui.loaded /\ noise \cap {"lost answer", "schedules unread", "stale load"} = {} =>
       ui.pipeline = srv.config /\ ui.schedule = First(srv.schedules)
  /\ "polled first" \notin noise => \A i, j \in DOMAIN ui.runs : i # j => ui.runs[i] # ui.runs[j]

SpinnersHaveRequests ==
  /\ ui.submitting => Out("update")
  /\ ui.saving => Out("schedule")
  /\ ui.triggering => Out("trigger")
  /\ ui.deleting => Out("delete")
  /\ ui.dry = "under way" => Out("dry run")

(* A migration has one schedule at most: the page makes one only where it read
   that there is none, or took its own away. *)
OneSchedule == noise \cap {"lost answer", "schedules unread", "stale load"} = {} => Len(srv.schedules) <= 1
=============================================================================
