--------------------------- MODULE DashboardPage ---------------------------
(***************************************************************************)
(* The dashboard of a workspace (app/w/[slug]/page.tsx).  Every ten seconds *)
(* it asks for several lists at once, takes those that come, and then asks  *)
(* for the schedules of each pipeline; a load does not wait for the one     *)
(* before.  The cards are derived from several lists, and link to the list  *)
(* they count when they have something to say.                              *)
(***************************************************************************)
EXTENDS Browser

CONSTANTS Pipelines,     \* pipeline p names connection p, has schedule p, and sensor p targets it
          Loads          \* how many loads may be under way at once

Lists == {"pipelines", "connections", "runs", "sensors"}
Unread == {0}
Load(i) == Named("load", i)
Schedules(i) == Named("schedules", i)

\* srv: the pipelines, connections and active schedules there are, which
\* pipelines failed last, and which sensors still have a target.
ServerStart == [pipelines |-> Pipelines, connections |-> Pipelines, schedules |-> Pipelines, runs |-> {}, sensors |-> Pipelines, at |-> 0]

Init ==
  /\ srv = ServerStart
  /\ ui = [pipelines |-> Unread, connections |-> Unread, runs |-> Unread, sensors |-> Unread, schedules |-> Unread, of |-> 0]
  /\ net = With(<<>>, Load(1), [at |-> 0])
  /\ clicks = 0 /\ noise = {}

------------------------------------------------------------------------------
(* Loading *)

Loading == {i \in 1..Loads : Out(Load(i)) \/ Out(Schedules(i))}

\* The interval, whether or not the last load is done.  (One that could bring
\* nothing new is left out.)
TimerFires ==
  \E i \in 1..Loads :
    /\ i \notin Loading /\ (srv.at > ui.of \/ "failure" \in noise) /\ Click
    /\ net' = Sent(Load(i), [at |-> srv.at])
    /\ noise' = IF Loading = {} THEN noise \ {"failure"} ELSE noise \cup {"overlap"}
    /\ UNCHANGED <<ui, srv>>

\* What could be read is taken; the schedules are asked for by the pipelines
\* read, none of them when these could not be read.
LoadBack(i) ==
  /\ Answered(Load(i))
  /\ LET got == net[Load(i)].got
         read == got.read
     IN  /\ ui' = [[f \in DOMAIN ui |-> IF f \in read THEN got.lists[f] ELSE ui[f]] EXCEPT !.of = net[Load(i)].arg.at]
         /\ net' = With(Closed(Load(i)), Schedules(i), IF "pipelines" \in read THEN got.lists.pipelines ELSE {})
         /\ noise' = IF read = Lists THEN noise ELSE noise \cup {"failure"}
  /\ UNCHANGED <<srv, clicks>>

\* One list of schedules that cannot be read gives up all of them.
SchedulesBack(i) ==
  /\ Returned(Schedules(i))
  /\ ui' = IF Answered(Schedules(i)) THEN [ui EXCEPT !.schedules = net[Schedules(i)].got] ELSE ui
  /\ net' = Closed(Schedules(i)) /\ UNCHANGED <<srv, clicks, noise>>

------------------------------------------------------------------------------
(* The cards *)

Known(l) == ui[l] # Unread

\* Pipelines that name a connection the workspace does not have.
BrokenPipelines == IF Known("pipelines") /\ Known("connections") THEN ui.pipelines \ ui.connections ELSE {}

\* Connections no pipeline names.
UnusedConnections == IF Known("pipelines") /\ Known("connections") THEN ui.connections \ ui.pipelines ELSE {}

\* Active schedules, and sensors, whose pipeline failed last.
FailingSchedules == IF Known("schedules") /\ Known("runs") THEN ui.schedules \cap ui.runs ELSE {}
FailingSensors == IF Known("sensors") /\ Known("runs") THEN ui.sensors \cap ui.runs ELSE {}

\* Where a card leads: to the subset it counts if there is one.
CardLinks ==
  [pipelines |-> IF BrokenPipelines # {} THEN "?broken=1" ELSE "all",
   connections |-> IF UnusedConnections # {} THEN "?usage=unused" ELSE "all",
   schedules |-> IF FailingSchedules # {} THEN "?lastRun=failed" ELSE "all",
   sensors |-> IF FailingSensors # {} THEN "?lastRun=failed" ELSE "all"]

------------------------------------------------------------------------------
\* The requests of one load fail one by one.  (They are answered at one moment
\* here: `of` is when the load began, and what it read may be newer.)
Serve ==
  \/ \E i \in 1..Loads, read \in {Lists} \cup {Lists \ {l} : l \in Lists} :
       Handles(Load(i), srv, [lists |-> srv, read |-> read])
  \/ \E i \in 1..Loads :
       /\ Out(Schedules(i)) /\ net[Schedules(i)].arg \subseteq srv.pipelines
       /\ Handles(Schedules(i), srv, srv.schedules \cap net[Schedules(i)].arg)

\* Elsewhere a connection or a pipeline is deleted (its schedules go with it,
\* its sensors lose their target), or a run fails.
Elsewhere ==
  /\ srv.at < 2
  /\ \E p \in Pipelines :
       \/ p \in srv.connections /\ srv' = [srv EXCEPT !.connections = @ \ {p}, !.at = @ + 1]
       \/ p \in srv.pipelines /\ srv' = [srv EXCEPT !.pipelines = @ \ {p}, !.schedules = @ \ {p}, !.sensors = @ \ {p}, !.at = @ + 1]
       \/ p \in srv.pipelines \ srv.runs /\ srv' = [srv EXCEPT !.runs = @ \cup {p}, !.at = @ + 1]
  /\ UNCHANGED <<ui, net, clicks, noise>>

Next ==
  \/ Serve \/ TimerFires \/ Elsewhere
  \/ \E i \in 1..Loads : LoadBack(i) \/ SchedulesBack(i) \/ Spoils(Schedules(i))

TypeOK ==
  /\ \A l \in Lists \cup {"schedules"} : ui[l] \subseteq Pipelines \cup Unread
  /\ DOMAIN net \subseteq {Load(i) : i \in 1..Loads} \cup {Schedules(i) : i \in 1..Loads}

(* At rest, with nothing new on the server since the load, the cards count what
   the server has: pipelines whose connection is gone, connections no pipeline
   names, schedules and sensors of a pipeline that failed.  Not so when a
   request failed, or when two loads were under way at once and the older was
   answered last. *)
ShowsServer ==
  Quiet /\ noise = {} /\ ui.of = srv.at =>
    /\ BrokenPipelines = srv.pipelines \ srv.connections
    /\ UnusedConnections = srv.connections \ srv.pipelines
    /\ FailingSchedules = srv.schedules \cap srv.runs
    /\ FailingSensors = srv.sensors \cap srv.runs

=============================================================================
