------------------------------ MODULE RunPage ------------------------------
(***************************************************************************)
(* The page of one run (app/w/[slug]/runs/[id]/page.tsx): a polling loop    *)
(* that reads the run and then its logs until the run has ended, a log      *)
(* panel filtered by node, and the Refresh, Cancel and Retry buttons, all   *)
(* writing the same two pieces of state.  The logs are what the server had  *)
(* when it answered: how many lines of each node.                           *)
(***************************************************************************)
EXTENDS Browser

CONSTANTS Nodes,      \* the nodes of the run
          All         \* nodeFilter = null: the logs of every node

Terminal == {"succeeded", "failed", "cancelled"}
Status == {"pending", "running"} \cup Terminal
NoRun == [status |-> "none", asked |-> FALSE]
NoLogs == [of |-> All, lines |-> [n \in Nodes |-> -1]]
Ended == ui.run.status \in Terminal

\* srv: the row (status, cancel_requested_at), its log lines and its retries.
ServerStart == [status |-> "pending", asked |-> FALSE, lines |-> [n \in Nodes |-> 0], retries |-> 0, exists |-> TRUE]
Row == [status |-> srv.status, asked |-> srv.asked]

Init ==
  /\ ui = [run |-> NoRun, logs |-> NoLogs, filter |-> All, poll |-> "asking", missing |-> FALSE,
           confirm |-> FALSE, cancelling |-> FALSE, retrying |-> FALSE, left |-> FALSE]
  /\ net = With(<<>>, "tick", [of |-> All])
  /\ \E exists \in BOOLEAN : srv = [ServerStart EXCEPT !.exists = exists]
  /\ clicks = 0 /\ noise = {}

------------------------------------------------------------------------------
(* The server and the worker *)

\* A cancel flips a pending row at once and stamps a running one.
Cancelled ==
  IF srv.status = "pending" THEN [srv EXCEPT !.status = "cancelled", !.asked = TRUE]
  ELSE IF srv.status = "running" THEN [srv EXCEPT !.asked = TRUE] ELSE srv

Serve ==
  \/ \E k \in {"tick", "refresh"} : Handles(k, srv, IF srv.exists THEN Row ELSE NoRun)
  \/ \E k \in {"sides", "logs"} : Out(k) /\ Handles(k, srv, [of |-> net[k].arg.of, lines |-> srv.lines])
  \/ srv.status \notin Terminal /\ Handles("cancel", Cancelled, [status |-> Cancelled.status, asked |-> Cancelled.asked])
  \/ srv.status \in {"failed", "cancelled"} /\ Handles("retry", [srv EXCEPT !.retries = @ + 1], "fresh")

\* The worker claims the run, logs a line of each node and ends it.
WorkerMoves ==
  /\ srv.exists
  /\ \/ srv.status = "pending" /\ srv' = [srv EXCEPT !.status = "running"]
     \/ \E n \in Nodes : /\ srv.status = "running" /\ srv.lines[n] = 0
                         /\ srv' = [srv EXCEPT !.lines[n] = 1]
     \/ \E s \in Terminal : /\ srv.status = "running" /\ (s = "cancelled" => srv.asked)
                            /\ srv' = [srv EXCEPT !.status = s]
  /\ UNCHANGED <<ui, net, clicks, noise>>

------------------------------------------------------------------------------
(* The polling loop: run first, then the three side resources *)

\* setRun makes a new object each time, so the effect of the node filter runs
\* again: the request it had under way is given up and a new one sent.
ReadLogs(requests, filter) == With(requests, "logs", [of |-> filter])

\* Mutant: what is not running is taken for ended.
ReadSides_PendingEnds(requests, row) ==
  With(requests, "sides", [of |-> ui.filter, last |-> row.status # "running"])

\* The side resources of a tick; the tick knows the status it read itself.
\* (What ran, the pipeline and its version, is read best effort and left out.)
ReadSides(requests, row) ==
  With(requests, "sides", [of |-> ui.filter, last |-> row.status \in Terminal])

\* A row read before the one on screen was shown may now replace it.
Overlapped(k) == IF \E j \in {"tick", "refresh", "cancel"} \ {k} : Out(j) THEN noise \cup {"overlap"} ELSE noise

TickAnswered ==
  /\ Answered("tick")
  /\ LET row == net["tick"].got
     IN  IF row = NoRun
         THEN ui' = [ui EXCEPT !.missing = TRUE, !.poll = "stopped"] /\ net' = Closed("tick")
         ELSE ui' = [ui EXCEPT !.run = row] /\ net' = ReadSides(ReadLogs(Closed("tick"), ui.filter), row)
  /\ noise' = Overlapped("tick")
  /\ UNCHANGED <<srv, clicks>>

\* Any error but a 404 is shown, and ends the polling.
TickRejected ==
  /\ Rejected("tick")
  /\ ui' = [ui EXCEPT !.poll = "stopped"] /\ net' = Closed("tick")
  /\ UNCHANGED <<srv, clicks, noise>>

\* Logs that cannot be read are shown as none.
SidesBack ==
  /\ Returned("sides")
  /\ ui' = [ui EXCEPT !.logs = IF Rejected("sides") THEN NoLogs ELSE net["sides"].got,
                      !.poll = IF net["sides"].arg.last THEN "stopped" ELSE "resting"]
  /\ net' = Closed("sides")
  /\ UNCHANGED <<srv, clicks, noise>>

TimerFires ==
  /\ ui.poll = "resting"
  /\ ui' = [ui EXCEPT !.poll = "asking"] /\ net' = Sent("tick", [of |-> All])
  /\ UNCHANGED <<srv, clicks, noise>>

------------------------------------------------------------------------------
(* The node filter *)

\* A node card toggles its node, the chip of a log line and of the error card
\* set one, the chip of the panel clears it.
PickFilter(f) ==
  /\ Click /\ ~ui.missing /\ f # ui.filter
  /\ ui' = [ui EXCEPT !.filter = f]
  /\ net' = IF ui.run = NoRun THEN net ELSE ReadLogs(net, f)
  /\ noise' = IF Out("sides") THEN noise \cup {"filtered"} ELSE noise
  /\ UNCHANGED srv

LogsBack ==
  /\ Returned("logs")
  /\ ui' = [ui EXCEPT !.logs = IF Rejected("logs") THEN NoLogs ELSE net["logs"].got]
  /\ net' = Closed("logs")
  /\ UNCHANGED <<srv, clicks, noise>>

------------------------------------------------------------------------------
(* The buttons *)

ClickRefresh ==
  /\ Click /\ ~Out("refresh") /\ net' = Sent("refresh", [of |-> All])
  /\ UNCHANGED <<ui, srv, noise>>

\* No handler for a failure, and no look at a cancelled effect.
RefreshBack ==
  /\ Returned("refresh")
  /\ LET row == net["refresh"].got
     IN  IF Rejected("refresh") \/ row = NoRun
         THEN net' = Closed("refresh") /\ UNCHANGED ui
         ELSE ui' = [ui EXCEPT !.run = row] /\ net' = ReadLogs(Closed("refresh"), ui.filter)
  /\ noise' = Overlapped("refresh")
  /\ UNCHANGED <<srv, clicks>>

AskCancel ==
  /\ Click /\ ui.run.status \in {"pending", "running"} /\ ~ui.run.asked /\ ~ui.cancelling
  /\ ui' = [ui EXCEPT !.confirm = TRUE]
  /\ UNCHANGED <<net, srv, noise>>

\* The dialog may be left while its request is under way.
LeaveDialog ==
  /\ ui.confirm /\ ui' = [ui EXCEPT !.confirm = FALSE]
  /\ UNCHANGED <<net, srv, clicks, noise>>

ConfirmCancel ==
  /\ ui.confirm /\ ~ui.cancelling
  /\ ui' = [ui EXCEPT !.cancelling = TRUE] /\ net' = Sent("cancel", [of |-> All])
  /\ UNCHANGED <<srv, clicks, noise>>

CancelBack ==
  /\ Returned("cancel")
  /\ LET idle == [ui EXCEPT !.cancelling = FALSE, !.confirm = FALSE]
     IN  IF Rejected("cancel")
         THEN ui' = idle /\ net' = Closed("cancel")
         ELSE ui' = [idle EXCEPT !.run = net["cancel"].got] /\ net' = ReadLogs(Closed("cancel"), ui.filter)
  /\ noise' = Overlapped("cancel")
  /\ UNCHANGED <<srv, clicks>>

ClickRetry ==
  /\ Click /\ ui.run.status \in {"failed", "cancelled"} /\ ~ui.retrying
  /\ ui' = [ui EXCEPT !.retrying = TRUE] /\ net' = Sent("retry", [of |-> All])
  /\ UNCHANGED <<srv, noise>>

\* A retry that worked opens the page of the new run.
RetryBack ==
  /\ Returned("retry")
  /\ ui' = [ui EXCEPT !.retrying = FALSE, !.left = Answered("retry")]
  /\ net' = Closed("retry")
  /\ UNCHANGED <<srv, clicks, noise>>

------------------------------------------------------------------------------
Returns == TickAnswered \/ TickRejected \/ SidesBack \/ LogsBack \/ RefreshBack \/ CancelBack \/ RetryBack

Deliver == ~ui.left /\ (Serve \/ Returns)

UserActs ==
  \/ \E f \in Nodes \cup {All} : PickFilter(f)
  \/ ClickRefresh \/ AskCancel \/ LeaveDialog \/ ConfirmCancel \/ ClickRetry

Next ==
  \/ Deliver
  \/ ~ui.left /\ (TimerFires \/ UserActs \/ \E k \in DOMAIN net : Spoils(k))
  \/ WorkerMoves

RunRows == [status : Status, asked : BOOLEAN] \cup {NoRun}

TypeOK ==
  /\ ui.run \in RunRows /\ ui.filter \in Nodes \cup {All}
  /\ ui.poll \in {"asking", "resting", "stopped"}
  /\ DOMAIN net \subseteq {"tick", "sides", "logs", "refresh", "cancel", "retry"}
  /\ srv.status \in Status /\ clicks \in 0..MaxClicks

(* Where the page has come to rest it shows the run as it ended and every line
   the run logged: the row is read first and the logs after it.  It takes that
   no request failed, and that no Refresh or Cancel was answered while the loop
   read the row or the other way round. *)
EndedRunIsComplete ==
  ui.poll = "stopped" /\ Quiet /\ noise \subseteq {"filtered"} /\ ~ui.missing =>
    ui.run = Row /\ ui.run.status \in Terminal /\ ui.logs.lines = srv.lines

(* The log panel at rest shows the node its chip names, unless the filter was
   changed while a tick was reading the logs of the former one. *)
LogsFollowFilter ==
  Quiet /\ ui.run # NoRun /\ noise = {} => ui.logs.of = ui.filter
=============================================================================
