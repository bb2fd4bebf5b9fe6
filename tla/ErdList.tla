------------------------------ MODULE ErdList ------------------------------
(***************************************************************************)
(* The list of a workspace's diagrams (app/w/[slug]/erd/page.tsx): a new    *)
(* one, one made of a file, renaming in place, deleting after a dialog.     *)
(***************************************************************************)
EXTENDS Browser

Stored == {1, 2}                    \* diagrams there are at first
Made == {3, 4}                      \* ids the server gives to new ones
Diagrams == Stored \cup Made
Nobody == 0

NotRead == [d \in {Nobody} |-> "?"]
NoName == ""

Init ==
  /\ srv = [rows |-> [d \in Stored |-> "name"]]
  /\ ui = [rows |-> NotRead, creating |-> FALSE, importing |-> FALSE, renaming |-> Nobody, value |-> NoName, dialog |-> Nobody, at |-> Nobody]
  /\ net = With(<<>>, "load", {}) /\ clicks = 0 /\ noise = {}

Listed == IF ui.rows = NotRead THEN {} ELSE DOMAIN ui.rows
Here == ui.at = Nobody
Rename(d) == Named("rename", d)
Delete(d) == Named("delete", d)
Renamed(d) == Named("renamed", d)
Deleted(d) == Named("deleted", d)
Loads == {"load"} \cup {Renamed(d) : d \in Diagrams} \cup {Deleted(d) : d \in Diagrams}

\* A name that is edited is left, and saved, before anything else is clicked.
Gesture == Click /\ Here /\ ui.dialog = Nobody /\ ui.renaming = Nobody /\ UNCHANGED srv

Refresh(requests, k) ==
  /\ net' = With(requests, k, {})
  /\ noise' = IF DOMAIN requests \cap Loads # {} THEN noise \cup {"stale rows"} ELSE noise

\* A list that cannot be read is shown as an empty one.
RefreshBack(k) ==
  /\ Returned(k)
  /\ ui' = [ui EXCEPT !.rows = IF Answered(k) THEN net[k].got ELSE <<>>]
  /\ net' = Closed(k)
  /\ noise' = IF Rejected(k) THEN noise \cup {"stale rows"} ELSE noise
  /\ UNCHANGED <<srv, clicks>>

\* The new diagram is opened: a button that worked stays busy.
OnNew == Gesture /\ ~ui.creating /\ ui' = [ui EXCEPT !.creating = TRUE] /\ net' = Sent("create", {}) /\ UNCHANGED noise
NewBack ==
  /\ Returned("create")
  /\ ui' = IF Answered("create") THEN [ui EXCEPT !.at = net["create"].got] ELSE [ui EXCEPT !.creating = FALSE]
  /\ noise' = IF Rejected("create") THEN noise \cup {"lost answer"} ELSE noise
  /\ net' = Closed("create") /\ UNCHANGED <<srv, clicks>>

\* So is one made of a file, though another was opened meanwhile.  A file that
\* cannot be read, or without tables, asks nothing of the server.
OnFile == Gesture /\ ~ui.importing /\ ui' = [ui EXCEPT !.importing = TRUE] /\ net' = Sent("import", {}) /\ UNCHANGED noise
FileBack ==
  /\ Returned("import")
  /\ ui' = [ui EXCEPT !.importing = FALSE, !.at = IF Answered("import") THEN net["import"].got ELSE @]
  /\ noise' = IF Rejected("import") THEN noise \cup {"lost answer"} ELSE noise
  /\ net' = Closed("import") /\ UNCHANGED <<srv, clicks>>

StartRename(d) == Gesture /\ d \in Listed /\ ui' = [ui EXCEPT !.renaming = d, !.value = ui.rows[d]] /\ UNCHANGED <<net, noise>>
TypeName(v) ==
  /\ Click /\ Here /\ ui.renaming # Nobody /\ v # ui.value
  /\ ui' = [ui EXCEPT !.value = v] /\ UNCHANGED <<net, srv, noise>>

\* Leaving the field, by Enter too, saves; an empty name does not.
OnRename ==
  LET d == ui.renaming
  IN  /\ Here /\ d # Nobody /\ ~Out(Rename(d)) /\ ~Out(Renamed(d))
      /\ ui' = [ui EXCEPT !.renaming = Nobody]
      /\ net' = IF ui.value = NoName THEN net ELSE Sent(Rename(d), ui.value)
      /\ UNCHANGED <<srv, clicks, noise>>
CancelRename == ui.renaming # Nobody /\ ui' = [ui EXCEPT !.renaming = Nobody] /\ UNCHANGED <<net, srv, clicks, noise>>

\* The dialog closes at once; the list is read after an answer.
AskDelete(d) == Gesture /\ d \in Listed /\ ui' = [ui EXCEPT !.dialog = d] /\ UNCHANGED <<net, noise>>
LeaveDialog == ui.dialog # Nobody /\ ui' = [ui EXCEPT !.dialog = Nobody] /\ UNCHANGED <<net, srv, clicks, noise>>
OnDelete ==
  LET d == ui.dialog
  IN  /\ Here /\ d # Nobody /\ ~Out(Delete(d)) /\ ~Out(Deleted(d))
      /\ ui' = [ui EXCEPT !.dialog = Nobody] /\ net' = Sent(Delete(d), d)
      /\ UNCHANGED <<srv, clicks, noise>>
ChangeBack(k, then) ==
  /\ Returned(k)
  /\ IF Answered(k) THEN Refresh(Closed(k), then)
     ELSE net' = Closed(k) /\ noise' = noise \cup {"lost answer"}
  /\ UNCHANGED <<ui, srv, clicks>>

------------------------------------------------------------------------------
There == DOMAIN srv.rows
Create(k, name) ==
  \E d \in Made \ There :
    /\ \A e \in Made \ There : d <= e
    /\ Handles(k, [srv EXCEPT !.rows = [e \in There \cup {d} |-> IF e = d THEN name ELSE srv.rows[e]]], d)
Serve ==
  \/ \E k \in Loads : Handles(k, srv, srv.rows)
  \/ Create("create", "Untitled") \/ Create("import", "file")
  \/ \E d \in There : Out(Rename(d)) /\ Handles(Rename(d), [srv EXCEPT !.rows[d] = net[Rename(d)].arg], {})
  \/ \E d \in There : Handles(Delete(d), [srv EXCEPT !.rows = Restrict(@, There \ {d})], {})

Returns ==
  \/ NewBack \/ FileBack \/ \E k \in Loads : RefreshBack(k)
  \/ \E d \in Diagrams : ChangeBack(Rename(d), Renamed(d)) \/ ChangeBack(Delete(d), Deleted(d))
Clicks ==
  \/ OnNew \/ OnFile \/ OnRename \/ CancelRename \/ LeaveDialog \/ OnDelete
  \/ \E d \in Diagrams : StartRename(d) \/ AskDelete(d)
  \/ \E v \in {NoName, "typed"} : TypeName(v)
Next == Serve \/ Returns \/ Clicks \/ \E k \in DOMAIN net : Breaks(k)

TypeOK ==
  /\ There \subseteq Diagrams /\ ui.at \in Diagrams \cup {Nobody}
  /\ ui.renaming \in Diagrams \cup {Nobody} /\ ui.dialog \in Diagrams \cup {Nobody}

(* At rest, as long as it is on the screen, the list shows the diagrams the
   server has, but for lost answers and overlapping reads. *)
ShowsServer == Here /\ Quiet /\ noise \cap {"stale rows", "lost answer"} = {} => ui.rows = srv.rows

SpinnersHaveRequests ==
  Here => (ui.creating => Out("create")) /\ (ui.importing => Out("import"))
=============================================================================
