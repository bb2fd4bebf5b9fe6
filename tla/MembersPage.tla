---------------------------- MODULE MembersPage ----------------------------
(***************************************************************************)
(* The members of a workspace (app/w/[slug]/members/page.tsx) as an owner   *)
(* sees them, and the server's rule that a workspace keeps an owner         *)
(* (routers/memberships.py, auth/membership_repository.py): a request that  *)
(* takes an owner away counts the owners first and writes later, and locks  *)
(* nothing.  Another owner works at the same time.                          *)
(***************************************************************************)
EXTENDS Browser

Me == "me"
Peer == "peer"           \* the other owner
Guest == "guest"
Users == {Me, Peer, Guest}
Nobody == "nobody"
NoRows == [u \in {Nobody} |-> "viewer"]      \* the list is not there yet

\* srv.peer: the request of the other owner, which takes Me's ownership away.
Init ==
  /\ srv = [rows |-> [u \in {Me, Peer} |-> "owner"], peer |-> "idle"]
  /\ ui = [rows |-> NoRows, form |-> FALSE, submitting |-> FALSE, dialog |-> Nobody, removing |-> FALSE, updating |-> Nobody]
  /\ net = With(<<>>, "refresh", {})
  /\ clicks = 0 /\ noise = {}

There == DOMAIN srv.rows
Owners == {u \in There : srv.rows[u] = "owner"}
Role(u) == Named("role", u)
Refreshes == {"refresh", "added", "removed"} \cup {Named("changed", u) : u \in Users}

\* Every other row is the owner's to change; one's own is not.
Editable(u) == ui.rows # NoRows /\ u \in DOMAIN ui.rows \ {Me} /\ ui.dialog = Nobody

Refresh(requests, k) ==
  /\ net' = With(requests, k, {})
  /\ noise' = IF DOMAIN requests \cap Refreshes # {} THEN noise \cup {"stale rows"} ELSE noise

RefreshBack(k) ==
  /\ Returned(k)
  /\ LET shown == [ui EXCEPT !.rows = IF Answered(k) THEN net[k].got ELSE [u \in {} |-> "viewer"]]
     IN  ui' = CASE k = "refresh" -> shown
                 [] k = "added" -> [shown EXCEPT !.submitting = FALSE]
                 [] k = "removed" -> [shown EXCEPT !.removing = FALSE]
                 [] OTHER -> [shown EXCEPT !.updating = Nobody]
  /\ net' = Closed(k)
  /\ noise' = IF Rejected(k) THEN noise \cup {"stale rows"} ELSE noise
  /\ UNCHANGED <<srv, clicks>>

Lost(k) == noise' = IF Rejected(k) THEN noise \cup {"lost answer"} ELSE noise

------------------------------------------------------------------------------
ToggleForm ==
  /\ Click /\ ui.dialog = Nobody
  /\ ui' = [ui EXCEPT !.form = ~@] /\ UNCHANGED <<net, srv, noise>>

Add(role) ==
  /\ Click /\ ui.form /\ ui.dialog = Nobody /\ ~ui.submitting
  /\ ui' = [ui EXCEPT !.submitting = TRUE] /\ net' = Sent("add", role)
  /\ UNCHANGED <<srv, noise>>

AddBack ==
  /\ Returned("add")
  /\ IF Answered("add")
     THEN ui' = [ui EXCEPT !.form = FALSE] /\ Refresh(Closed("add"), "added")
     ELSE ui' = [ui EXCEPT !.submitting = FALSE] /\ net' = Closed("add") /\ Lost("add")
  /\ UNCHANGED <<srv, clicks>>

\* One slot says which row's select waits: the others can be changed.
ChangeRole(u, role) ==
  /\ Click /\ Editable(u) /\ ui.updating # u /\ ui.rows[u] # role
  /\ ~Out(Role(u)) /\ ~Out(Named("changed", u))
  /\ ui' = [ui EXCEPT !.updating = u] /\ net' = Sent(Role(u), role)
  /\ UNCHANGED <<srv, noise>>

RoleBack(u) ==
  /\ Returned(Role(u))
  /\ IF Answered(Role(u))
     THEN Refresh(Closed(Role(u)), Named("changed", u)) /\ UNCHANGED ui
     ELSE ui' = [ui EXCEPT !.updating = Nobody] /\ net' = Closed(Role(u)) /\ Lost(Role(u))
  /\ UNCHANGED <<srv, clicks>>

AskRemove(u) == Click /\ Editable(u) /\ ui' = [ui EXCEPT !.dialog = u] /\ UNCHANGED <<net, srv, noise>>
LeaveDialog == ui.dialog # Nobody /\ ~ui.removing /\ ui' = [ui EXCEPT !.dialog = Nobody] /\ UNCHANGED <<net, srv, clicks, noise>>

ConfirmRemove ==
  /\ ui.dialog # Nobody /\ ~ui.removing
  /\ ui' = [ui EXCEPT !.removing = TRUE] /\ net' = Sent("remove", ui.dialog)
  /\ UNCHANGED <<srv, clicks, noise>>

RemoveBack ==
  /\ Returned("remove")
  /\ IF Answered("remove")
     THEN ui' = [ui EXCEPT !.dialog = Nobody] /\ Refresh(Closed("remove"), "removed")
     ELSE ui' = [ui EXCEPT !.removing = FALSE] /\ net' = Closed("remove") /\ Lost("remove")
  /\ UNCHANGED <<srv, clicks>>

------------------------------------------------------------------------------
(* The server *)

\* What a request needs: its caller is an owner, and it does not take the last
\* one away.  Nothing keeps this true until the write.
MayLose(caller, u) == caller \in Owners /\ u \in There /\ (u \in Owners => Cardinality(Owners) > 1)

Counts(k) ==
  /\ Out(k) /\ net[k].stage = "sent"
  /\ LET u == IF k = "remove" THEN net[k].arg ELSE CHOOSE v \in Users : k = Role(v)
         gained == k # "remove" /\ net[k].arg = "owner"
         may == IF gained THEN Me \in Owners /\ u \in There ELSE MayLose(Me, u)
     IN  net' = [net EXCEPT ![k].stage = IF may THEN "counted" ELSE "failed"]
  /\ noise' = IF srv.peer = "counted" THEN noise \cup {"two at once"} ELSE noise
  /\ UNCHANGED <<ui, srv, clicks>>

Writes(k, rows) ==
  /\ Out(k) /\ net[k].stage = "counted"
  /\ srv' = [srv EXCEPT !.rows = rows]
  /\ net' = [net EXCEPT ![k].stage = "answered"]
  /\ UNCHANGED <<ui, clicks, noise>>

PeerCounts ==
  /\ srv.peer = "idle" /\ Me \in Owners /\ MayLose(Peer, Me)
  /\ srv' = [srv EXCEPT !.peer = "counted"]
  /\ noise' = IF \E k \in DOMAIN net : net[k].stage = "counted" THEN noise \cup {"two at once"} ELSE noise
  /\ UNCHANGED <<ui, net, clicks>>

PeerWrites ==
  /\ srv.peer = "counted"
  /\ srv' = [rows |-> [srv.rows EXCEPT ![Me] = "viewer"], peer |-> "done"]
  /\ UNCHANGED <<ui, net, clicks, noise>>

Serve ==
  \/ \E k \in Refreshes : Handles(k, srv, srv.rows)
  \/ /\ Out("add") /\ Me \in Owners /\ Guest \notin There
     /\ Handles("add", [srv EXCEPT !.rows = [u \in There \cup {Guest} |-> IF u \in There THEN @[u] ELSE net["add"].arg]], {})
  \/ \E k \in {"remove"} \cup {Role(u) : u \in Users} : Counts(k)
  \/ \E u \in There : Writes(Role(u), [srv.rows EXCEPT ![u] = net[Role(u)].arg])
  \/ Out("remove") /\ net["remove"].arg \in There /\ Writes("remove", Restrict(srv.rows, There \ {net["remove"].arg}))
  \/ PeerCounts \/ PeerWrites

Returns == AddBack \/ RemoveBack \/ (\E k \in Refreshes : RefreshBack(k)) \/ \E u \in Users : RoleBack(u)
Clicks ==
  \/ ToggleForm \/ LeaveDialog \/ ConfirmRemove
  \/ \E r \in {"owner", "viewer"} : Add(r) \/ \E u \in Users : ChangeRole(u, r)
  \/ \E u \in Users : AskRemove(u)
Next == Serve \/ Returns \/ Clicks \/ \E k \in DOMAIN net : Breaks(k)

TypeOK ==
  /\ There \subseteq Users /\ \A u \in There : srv.rows[u] \in {"owner", "viewer"}
  /\ ui.dialog \in Users \cup {Nobody} /\ ui.updating \in Users \cup {Nobody}

(* At rest the table shows the members and roles the server has, but for
   what the other owner changed, lost answers and overlapping reads. *)
ShowsServer ==
  Quiet /\ noise \cap {"stale rows", "lost answer"} = {} /\ srv.peer # "done" => ui.rows = srv.rows

SpinnersHaveRequests ==
  /\ ui.submitting => Out("add") \/ Out("added")
  /\ ui.removing => Out("remove") \/ Out("removed")
  /\ ui.updating # Nobody => Out(Role(ui.updating)) \/ Out(Named("changed", ui.updating))

(* A workspace keeps an owner, whatever its owners do to each other, as long as
   no request counts the owners between another one's count and its write. *)
KeepsOwner == "two at once" \notin noise => Owners # {}
=============================================================================
