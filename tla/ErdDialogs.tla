---------------------------- MODULE ErdDialogs ----------------------------
(***************************************************************************)
(* Three dialogs of the diagram designer, one at a time: tables imported    *)
(* from a connection (components/erd/import-tables-dialog.tsx), a diagram   *)
(* compared with a database (verify-db-dialog.tsx), and its tables made     *)
(* into migrations (create-migration-dialog.tsx).  Any of them can be       *)
(* closed, and its connection changed, while its requests are under way.    *)
(***************************************************************************)
EXTENDS Browser

Dialogs == {"import", "verify", "migrate"}
Conns == {1, 2}
None == 0

\* Two databases, and what each table's columns are in them.
Db(c) == IF c = 1 THEN [t \in {"a", "b"} |-> t] ELSE [t \in {"a", "d"} |-> "other"]

\* A diagram of three tables: "b" has no key, "c" no timestamp, and "c" is "a"
\* of another schema.
Drawn == {"a", "b", "c"}
NameOf(t) == IF t = "c" THEN "a" ELSE t
Blocked(strategy, t) == (strategy = "mirror" /\ t = "b") \/ (strategy = "append" /\ t = "c")
Eligible(u) == {t \in u.chosen : ~Blocked(u.strategy, t)}

Unread == {"?"}
NoReport == [t \in {"?"} |-> "?"]

Init ==
  /\ \E d \in Dialogs, made \in SUBSET {"b"} :
       /\ ui = [dialog |-> d, open |-> TRUE, conn |-> None, tables |-> Unread, busy |-> FALSE,
                chosen |-> IF d = "migrate" THEN Drawn ELSE {}, drawn |-> NoReport,
                report |-> NoReport, of |-> None, strategy |-> "snapshot", plan |-> {}, ok |-> 0, fail |-> 0, at |-> "designer"]
       /\ srv = [made |-> made, before |-> made]
  /\ net = <<>> /\ clicks = 0 /\ noise = {}

Is(d) == ui.dialog = d
Gesture == Click /\ ui.open /\ UNCHANGED srv
Listing(c) == Named("tables", c)
Columns(t) == Named("columns", t)

\* The dialog goes, its requests and what they do stay.
Close == Gesture /\ ui' = [ui EXCEPT !.open = FALSE] /\ UNCHANGED <<net, noise>>

------------------------------------------------------------------------------
(* Importing *)

\* The tables of the connection picked are read, whatever is read already.
PickSource(c) ==
  /\ Gesture /\ Is("import") /\ c # ui.conn /\ ~Out(Listing(c))
  /\ ui' = [ui EXCEPT !.conn = c, !.tables = Unread, !.chosen = {}, !.busy = @ \/ c # None]
  /\ net' = IF c = None THEN net ELSE Sent(Listing(c), c)
  /\ noise' = IF Quiet THEN noise ELSE noise \cup {"overlap"}

\* Its answer is shown, whichever connection is picked by now.
ListingBack(c) ==
  /\ Is("import") /\ Returned(Listing(c))
  /\ ui' = [ui EXCEPT !.tables = IF Answered(Listing(c)) THEN net[Listing(c)].got ELSE {}, !.busy = FALSE]
  /\ net' = Closed(Listing(c)) /\ UNCHANGED <<srv, clicks, noise>>

Choose(t) ==
  /\ Gesture /\ UNCHANGED <<net, noise>>
  /\ \/ Is("import") /\ ui.tables # Unread /\ t \in ui.tables
     \/ Is("migrate") /\ t \in Drawn /\ ~Blocked(ui.strategy, t)
  /\ ui' = [ui EXCEPT !.chosen = (@ \ {t}) \cup ({t} \ @)]

\* The columns of all tables chosen, asked of the connection picked.
Import ==
  /\ Gesture /\ Is("import") /\ ui.chosen # {} /\ ~ui.busy
  /\ ui' = [ui EXCEPT !.busy = TRUE] /\ net' = Sent("columns", [conn |-> ui.conn, tables |-> ui.chosen])
  /\ noise' = IF Quiet THEN noise ELSE noise \cup {"overlap"}

\* Drawn once all have answered, without columns where there was none; the
\* dialog may have been closed or gone on to another connection.
ImportBack ==
  /\ Returned("columns")
  /\ LET got == IF Answered("columns") THEN net["columns"].got ELSE <<>>
     IN  ui' = [ui EXCEPT !.busy = FALSE, !.open = FALSE,
                  !.drawn = [t \in net["columns"].arg.tables |-> IF t \in DOMAIN got THEN got[t] ELSE "no columns"]]
  /\ net' = Closed("columns") /\ UNCHANGED <<srv, clicks, noise>>

------------------------------------------------------------------------------
(* Comparing *)

PickTarget(c) ==
  /\ Gesture /\ ~Is("import") /\ c # ui.conn /\ ui' = [ui EXCEPT !.conn = c]
  /\ noise' = IF ui.busy THEN noise \cup {"picked meanwhile"} ELSE noise
  /\ UNCHANGED net

Compare ==
  /\ Gesture /\ Is("verify") /\ ui.conn # None /\ ~ui.busy
  /\ ui' = [ui EXCEPT !.busy = TRUE, !.report = NoReport, !.of = ui.conn] /\ net' = Sent("list", ui.conn)
  /\ noise' = noise \ {"picked meanwhile"}

\* What the database does not list is missing; the columns of the rest are asked.
ListBack ==
  /\ Returned("list")
  /\ LET there == IF Answered("list") THEN Drawn \cap net["list"].got ELSE {}
         asked == {Columns(t) : t \in there}
     IN  /\ net' = [k \in asked \cup DOMAIN Closed("list") |->
                      IF k \in asked THEN [arg |-> CHOOSE t \in there : k = Columns(t), stage |-> "sent", got |-> "nothing"]
                      ELSE net[k]]
         /\ ui' = [ui EXCEPT !.busy = there # {},
                             !.plan = there,
                             !.report = IF Answered("list") THEN [t \in Drawn |-> IF t \in there THEN "?" ELSE "missing"] ELSE NoReport]
  /\ UNCHANGED <<srv, clicks, noise>>

\* So is one whose columns cannot be read.  The report is shown when all are in.
ColumnsBack(t) ==
  /\ Returned(Columns(t))
  /\ ui' = [ui EXCEPT !.plan = @ \ {t}, !.busy = ui.plan # {t},
                      !.report[t] = IF Rejected(Columns(t)) THEN "missing" ELSE IF net[Columns(t)].got = t THEN "ok" ELSE "diff"]
  /\ net' = Closed(Columns(t)) /\ UNCHANGED <<srv, clicks, noise>>

------------------------------------------------------------------------------
(* Migrations: one request after the other, in any order here *)

PickStrategy(s) ==
  /\ Gesture /\ Is("migrate") /\ s # ui.strategy /\ ui' = [ui EXCEPT !.strategy = s] /\ UNCHANGED <<net, noise>>

Ask(u, requests) ==
  \E t \in u.plan :
    /\ ui' = [u EXCEPT !.plan = @ \ {t}] /\ net' = With(requests, "create", t)

CreateAll ==
  /\ Gesture /\ Is("migrate") /\ ui.conn # None /\ Eligible(ui) # {} /\ ~ui.busy
  /\ Ask([ui EXCEPT !.busy = TRUE, !.plan = Eligible(ui), !.ok = 0, !.fail = 0], net)
  /\ UNCHANGED noise

\* One that fails does not stop the others; when one was made the user is taken
\* to the list, from wherever, else the dialog stays and can be tried again.
CreateBack ==
  /\ Returned("create")
  /\ LET u == IF Answered("create") THEN [ui EXCEPT !.ok = @ + 1] ELSE [ui EXCEPT !.fail = @ + 1]
     IN  IF u.plan # {} THEN Ask(u, Closed("create"))
         ELSE /\ net' = Closed("create")
              /\ ui' = IF u.ok > 0 THEN [u EXCEPT !.busy = FALSE, !.open = FALSE, !.at = "migrations"] ELSE [u EXCEPT !.busy = FALSE]
  /\ UNCHANGED <<srv, clicks, noise>>

------------------------------------------------------------------------------
\* A pipeline's name is its own in the workspace: a second of it is refused.
Serve ==
  \/ \E c \in Conns : Handles(Listing(c), srv, DOMAIN Db(c))
  \/ Out("columns") /\ LET asked == net["columns"].arg
                       IN  Handles("columns", srv, Restrict(Db(asked.conn), DOMAIN Db(asked.conn) \cap asked.tables))
  \/ Out("list") /\ Handles("list", srv, DOMAIN Db(net["list"].arg))
  \/ \E t \in Drawn : Out(Columns(t)) /\ Handles(Columns(t), srv, Db(ui.of)[t])
  \/ Out("create") /\ NameOf(net["create"].arg) \notin srv.made /\ Handles("create", [srv EXCEPT !.made = @ \cup {NameOf(net["create"].arg)}], {})

\* A migration that is not made is refused, or its request is lost.
Refuse == Out("create") /\ net["create"].stage = "sent" /\ NameOf(net["create"].arg) \in srv.made

Returns == ImportBack \/ ListBack \/ CreateBack \/ (\E c \in Conns : ListingBack(c)) \/ \E t \in Drawn : ColumnsBack(t)
Clicks ==
  \/ Close \/ Import \/ Compare \/ CreateAll
  \/ \E c \in Conns \cup {None} : PickSource(c) \/ PickTarget(c)
  \/ \E t \in Drawn \cup {"d"} : Choose(t)
  \/ \E s \in {"snapshot", "append", "mirror"} : PickStrategy(s)
Next ==
  \/ Serve \/ Returns \/ Clicks
  \/ Refuse /\ net' = [net EXCEPT !["create"].stage = "failed"] /\ UNCHANGED <<ui, srv, clicks, noise>>
  \/ \E k \in DOMAIN net : Spoils(k)

TypeOK ==
  /\ ui.conn \in Conns \cup {None} /\ ui.chosen \subseteq Drawn \cup {"d"} /\ ui.plan \subseteq Drawn
  /\ srv.made \subseteq Drawn /\ ui.at \in {"designer", "migrations"}

SpinnersHaveRequests == ui.busy => ~Quiet

(* What is drawn of a connection has the columns the connection gives it, when
   no request failed and none was under way when another was made.  A report is
   of the connection that is picked, unless it was picked meanwhile or after,
   and says of each table what the database has, when nothing failed. *)
ShowsDatabase ==
  /\ ui.drawn # NoReport /\ noise \cap {"overlap", "failure"} = {} =>
       \E c \in Conns : \A t \in DOMAIN ui.drawn : t \in DOMAIN Db(c) /\ ui.drawn[t] = Db(c)[t]
  /\ Is("verify") /\ ui.report # NoReport /\ ~ui.busy /\ "failure" \notin noise =>
       \A t \in Drawn : ui.report[t] = IF t \notin DOMAIN Db(ui.of) THEN "missing" ELSE IF Db(ui.of)[t] = t THEN "ok" ELSE "diff"

(* After a round of creating, and when nothing failed, as many migrations are
   new as are counted as made, though the name of a table may be taken by
   another's; the user is taken to the list if there is one. *)
MakesWhatItCounts ==
  Is("migrate") /\ ~ui.busy /\ "failure" \notin noise =>
    /\ Cardinality(srv.made \ srv.before) = ui.ok
    /\ ui.at = IF ui.ok > 0 THEN "migrations" ELSE "designer"
=============================================================================
