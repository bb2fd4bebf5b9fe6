------------------------------ MODULE RunsPage ------------------------------
(***************************************************************************)
(* The list of runs (app/w/[slug]/runs/page.tsx): a filter the server       *)
(* applies (status and pipeline, kept in the URL), one the page applies     *)
(* itself (trigger, partition group), a page size that grows, and a poll    *)
(* that does not wait for the answer of the one before it.                  *)
(***************************************************************************)
EXTENDS Browser

CONSTANTS Queries,     \* what the URL may ask for: model values
          Page, Cap    \* page size, and the most the server gives

None == [of |-> "nothing", limit |-> 0, count |-> 0, at |-> 0]
Polls == {"poll one", "poll two"}

Least(a, b) == IF a <= b THEN a ELSE b

\* srv: how many runs match each query, and its clock of changes.
Init ==
  /\ \E q \in Queries, n \in 0..(Cap + 1) :
       /\ srv = [total |-> [x \in Queries |-> IF x = q THEN n ELSE 1], at |-> 0, retries |-> 0]
       /\ ui = [query |-> q, local |-> FALSE, limit |-> Page, maxed |-> FALSE, rows |-> None, ended |-> FALSE]
       /\ net = With(<<>>, "poll one", [of |-> q, limit |-> Page])
  /\ clicks = 0 /\ noise = {}

\* The effect of the list runs again when the query or the limit changes: what
\* the last one had under way is cancelled.
Restart(query, limit) ==
  With([k \in DOMAIN net \ Polls |-> net[k]], "poll one", [of |-> query, limit |-> limit])

\* Another query starts at the first page.
Navigate(q) ==
  /\ Click /\ q # ui.query
  /\ ui' = [ui EXCEPT !.query = q, !.limit = Page, !.maxed = FALSE]
  /\ net' = Restart(q, Page)
  /\ UNCHANGED <<srv, noise>>

\* A local filter too, though only a changed limit reads the list again.
FilterHere ==
  /\ Click
  /\ ui' = [ui EXCEPT !.local = ~@, !.limit = Page, !.maxed = FALSE]
  /\ net' = IF ui.limit = Page THEN net ELSE Restart(ui.query, Page)
  /\ UNCHANGED <<srv, noise>>

\* Mutant: Load more grows the page past what the server gives.
LoadMore_NoCap ==
  /\ Click /\ ui.rows.count > 0 /\ ~ui.maxed
  /\ ui' = [ui EXCEPT !.limit = @ + Page] /\ net' = Restart(ui.query, ui.limit + Page)
  /\ UNCHANGED <<srv, noise>>

LoadMore ==
  /\ Click /\ ui.rows.count > 0 /\ ~ui.maxed
  /\ LET limit == Least(ui.limit + Page, Cap)
     IN  /\ ui' = [ui EXCEPT !.limit = limit]
         /\ net' = IF limit = ui.limit THEN net ELSE Restart(ui.query, limit)
  /\ UNCHANGED <<srv, noise>>

\* The interval fires whether or not the last answer is there.
PollFires ==
  \E k \in Polls :
    /\ ~Out(k) /\ ui.rows.at < srv.at
    /\ net' = Sent(k, [of |-> ui.query, limit |-> ui.limit])
    /\ UNCHANGED <<ui, srv, clicks, noise>>

\* A page shorter than the limit, or at the cap, is the last one.
PollBack(k) ==
  /\ Returned(k)
  /\ ui' = IF Rejected(k) THEN [ui EXCEPT !.rows = None]
           ELSE [ui EXCEPT !.rows = net[k].got, !.maxed = net[k].got.count < net[k].arg.limit \/ net[k].got.count >= Cap]
  /\ net' = Closed(k)
  /\ noise' = IF Answered(k) /\ net[k].got.at < ui.rows.at /\ net[k].got.of = ui.rows.of THEN noise \cup {"older"} ELSE noise
  /\ UNCHANGED <<srv, clicks>>

\* The row menu retries a run the list showed as ended; only a toast follows.
Retry ==
  /\ Click /\ ui.rows.count > 0 /\ ~Out("retry")
  /\ net' = Sent("retry", [of |-> ui.query, limit |-> 0])
  /\ UNCHANGED <<ui, srv, noise>>

RetryBack == Returned("retry") /\ net' = Closed("retry") /\ UNCHANGED <<ui, srv, clicks, noise>>

\* A run is created or ends elsewhere.
Elsewhere ==
  /\ srv.at < 1
  /\ \E q \in Queries : srv' = [srv EXCEPT !.total[q] = @ + 1, !.at = @ + 1]
  /\ UNCHANGED <<ui, net, clicks, noise>>

Serve ==
  \/ \E k \in Polls : LET a == net[k].arg
                      IN  Out(k) /\ Handles(k, srv, [of |-> a.of, limit |-> a.limit, count |-> Least(srv.total[a.of], a.limit), at |-> srv.at])
  \/ Handles("retry", [srv EXCEPT !.retries = @ + 1], None)

Returns == RetryBack \/ \E k \in Polls : PollBack(k)
Clicks == FilterHere \/ LoadMore \/ Retry \/ \E q \in Queries : Navigate(q)
Next == Serve \/ Returns \/ Clicks \/ PollFires \/ Elsewhere \/ \E k \in DOMAIN net : Breaks(k)

TypeOK ==
  /\ ui.query \in Queries /\ ui.limit \in Page..Cap /\ ui.rows.of \in Queries \cup {"nothing"}
  /\ DOMAIN net \subseteq Polls \cup {"retry"}

(* At rest the list is the answer to the query in the URL at the size asked
   for, however filters, Load more and polls overlapped: no answer to a former
   query is shown.  Between two polls of one query the older may win. *)
ShowsQuery ==
  Quiet /\ ui.rows # None =>
    /\ ui.rows.of = ui.query /\ ui.rows.limit = ui.limit
    /\ "older" \notin noise /\ ui.rows.at = srv.at => ui.rows.count = Least(srv.total[ui.query], ui.limit)
=============================================================================
