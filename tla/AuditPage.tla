----------------------------- MODULE AuditPage -----------------------------
(***************************************************************************)
(* The audit log (app/w/[slug]/audit/page.tsx): filters the server applies, *)
(* newest entries first, pages by offset.  While a page is being read the   *)
(* former one and its pager stay on the screen, and entries keep arriving.  *)
(***************************************************************************)
EXTENDS Browser

CONSTANTS PageSize, MaxLog

\* Entries are numbered as they are written; odd ones are about resource "a",
\* the first two are the user's own.
About(i) == IF i % 2 = 1 THEN "a" ELSE "b"
Mine(i) == i <= 2

NoFilter == [resource |-> "any", mine |-> FALSE]
Filters == [resource : {"any", "a", "b"}, mine : BOOLEAN]
Matching(n, f) == {i \in 1..n : f.resource \in {"any", About(i)} /\ (f.mine => Mine(i))}
Newer(i, S) == Cardinality({j \in S : j > i})

\* What the server has on the page of query q when n entries are written.
PageOf(n, q) == {i \in Matching(n, q.filter) : Newer(i, Matching(n, q.filter)) \in q.offset..(q.offset + PageSize - 1)}

Query == [filter |-> ui.filter, offset |-> ui.offset]
NoRows == [ok |-> FALSE, known |-> FALSE, of |-> [filter |-> NoFilter, offset |-> 0], page |-> {}]

\* ui.seen and ui.newest are ghosts: what was on the screen since offset 0 was
\* last read, and the newest entry of that time.
Init ==
  /\ srv \in 0..MaxLog
  /\ ui = [filter |-> NoFilter, offset |-> 0, rows |-> NoRows, expanded |-> {}, seen |-> {}, newest |-> 0]
  /\ net = With(<<>>, "rows", [filter |-> NoFilter, offset |-> 0])
  /\ clicks = 0 /\ noise = {}

\* The effect of the list: what was under way for another query is cancelled.
Ask(filter, offset) ==
  /\ ui' = [ui EXCEPT !.filter = filter, !.offset = offset]
  /\ net' = IF filter = ui.filter /\ offset = ui.offset THEN net ELSE Sent("rows", [filter |-> filter, offset |-> offset])
  /\ UNCHANGED srv

RowsBack ==
  /\ Returned("rows")
  /\ LET page == IF Answered("rows") THEN net["rows"].got.page ELSE {}
         shown == [ui EXCEPT !.rows = [ok |-> Answered("rows"), known |-> TRUE, of |-> net["rows"].arg, page |-> page]]
     IN  ui' = IF Rejected("rows") THEN shown
               ELSE IF net["rows"].arg.offset = 0 THEN [shown EXCEPT !.seen = page, !.newest = net["rows"].got.newest]
               ELSE [shown EXCEPT !.seen = @ \cup page]
  /\ net' = Closed("rows") /\ UNCHANGED <<srv, clicks, noise>>

SetFilter(f) == Click /\ Ask(f, 0) /\ UNCHANGED noise

\* The chip of an entry filters by what the entry is about.
FilterResource(i) == Click /\ i \in ui.rows.page /\ Ask([ui.filter EXCEPT !.resource = About(i)], 0) /\ UNCHANGED noise

Toggle(i) ==
  /\ Click /\ i \in ui.rows.page
  /\ ui' = [ui EXCEPT !.expanded = IF i \in @ THEN @ \ {i} ELSE @ \cup {i}]
  /\ UNCHANGED <<net, srv, noise>>

\* The pager is there when there are rows, those of the former page included:
\* a second click may pass over a page nobody saw.
Hasty == noise' = IF Out("rows") THEN noise \cup {"hasty"} ELSE noise
Previous ==
  /\ Click /\ ui.rows.page # {} /\ ui.offset > 0
  /\ Ask(ui.filter, IF ui.offset > PageSize THEN ui.offset - PageSize ELSE 0) /\ Hasty
NextPage ==
  /\ Click /\ Cardinality(ui.rows.page) = PageSize
  /\ Ask(ui.filter, ui.offset + PageSize) /\ Hasty

\* Something is done elsewhere, and written down.
Written == srv < MaxLog /\ srv' = srv + 1 /\ UNCHANGED <<ui, net, clicks, noise>>

Serve == Out("rows") /\ Handles("rows", srv, [page |-> PageOf(srv, net["rows"].arg), newest |-> srv])
Clicks ==
  \/ \E f \in Filters : SetFilter(f)
  \/ \E i \in 1..MaxLog : FilterResource(i) \/ Toggle(i)
  \/ Previous \/ NextPage
Next == Serve \/ RowsBack \/ Clicks \/ Written \/ \E k \in DOMAIN net : Breaks(k)

TypeOK == ui.filter \in Filters /\ ui.offset \in Nat /\ ui.rows.page \subseteq 1..MaxLog /\ DOMAIN net \subseteq {"rows"}

(* At rest the list is the page of the filters and the offset on the screen,
   never that of a former query.  Paging down by offset under a growing log may
   show an entry twice and passes none over: what matches, was there when the
   walk began and is no older than the last one shown has been on the screen,
   unless the user paged on before a page was there. *)
PagesMissNothing ==
  /\ Quiet => ui.rows.known /\ ui.rows.of = Query
  /\ Quiet /\ ui.rows.ok /\ "hasty" \notin noise =>
       \A i \in Matching(ui.newest, ui.filter) : i \in ui.seen \/ (ui.rows.page # {} /\ \A j \in ui.rows.page : i < j)
=============================================================================
