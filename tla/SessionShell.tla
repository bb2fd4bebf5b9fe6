--------------------------- MODULE SessionShell ---------------------------
(***************************************************************************)
(* What is around every page: who is signed in (auth-provider.tsx, the      *)
(* tokens of lib/api.ts in the browser's storage), the workspaces and the   *)
(* one selected (workspace-provider.tsx, lib/workspace-context.ts), and the *)
(* pages that change them: login, workspaces, settings.  No answer is       *)
(* ignored because something changed since; another tab shares the storage. *)
(***************************************************************************)
EXTENDS Browser

CONSTANT MaxToken

NoToken == 0
UserOf(token) == IF token % 2 = 1 THEN "ann" ELSE "bob"
Nobody == "nobody"

\* Workspaces: 1 and 2 at first, 3 may be made; bob is a member of 2 alone.
NoWs == 0
FirstSlug(w) == CASE w = 1 -> "a" [] w = 2 -> "b" [] OTHER -> "c"
Slugs == {"a", "b", "c", "d"}
Member(user, w) == user = "ann" \/ w = 2

Login == [at |-> "login", slug |-> ""]
Workspaces == [at |-> "workspaces", slug |-> ""]
Page(slug) == [at |-> "w", slug |-> slug]

\* srv: the workspaces there are with their slugs, the tokens given out and
\* those that ran out.
Init ==
  /\ srv = [ws |-> [w \in {1, 2} |-> FirstSlug(w)], issued |-> 1, expired |-> {}]
  /\ \E path \in {Workspaces, Page("a")} :
       \/ /\ ui = [auth |-> "loading", user |-> Nobody, token |-> 1, kept |-> 2, path |-> path, next |-> Workspaces,
                   list |-> <<>>, current |-> NoWs, busy |-> "no"]
          /\ net = With(<<>>, "me", [token |-> 1, login |-> FALSE])
       \/ /\ ui = [auth |-> "anonymous", user |-> Nobody, token |-> NoToken, kept |-> NoWs, path |-> Login, next |-> path,
                   list |-> <<>>, current |-> NoWs, busy |-> "no"]
          /\ net = <<>>
  /\ clicks = 0 /\ noise = {}

Live(token) == token # NoToken /\ token \notin srv.expired
Sees(user) == Restrict(srv.ws, {w \in DOMAIN srv.ws : Member(user, w)})

Lists == {"list signed in", "list mounted", "list created", "list saved", "list deleted"}
Known(u) == DOMAIN u.list

\* A request carries the token that is in the storage when it leaves.
Ask(requests, u, k, what) == With(requests, k, [token |-> u.token, what |-> what])
Ok(k) == Answered(k) /\ net[k].got.code = 200
Refused(k) == Answered(k) /\ net[k].got.code = 401

------------------------------------------------------------------------------
(* Effects: what a change of the state brings about before anything else *)

\* A page leaves the screen with what it was busy with; what ends later frees
\* no other page's button.
At(u, path) == [u EXCEPT !.path = path, !.busy = IF path = u.path THEN @ ELSE "no"]
Freed(u, k) == [u EXCEPT !.busy = IF @ = k THEN "no" ELSE @]

\* A page of a workspace selects it, or gives way when it is not in the list.
Selects(u) ==
  IF u.path.at # "w" \/ u.list = <<>> THEN u
  ELSE IF \E w \in Known(u) : u.list[w] = u.path.slug
       THEN LET w == CHOOSE v \in Known(u) : u.list[v] = u.path.slug IN [u EXCEPT !.current = w, !.kept = w]
       ELSE At(u, Workspaces)

\* Signed out: the workspaces are forgotten once, and login remembers the page.
Anonymous(u) ==
  LET gone == IF u.auth = "anonymous" THEN u ELSE [u EXCEPT !.auth = "anonymous", !.user = Nobody, !.list = <<>>, !.current = NoWs]
  IN  IF u.path = Login THEN gone ELSE [At(gone, Login) EXCEPT !.next = u.path]

SignedIn(u, user) ==
  LET in == [u EXCEPT !.auth = "in", !.user = user]
  IN  Selects(IF u.path = Login THEN At(in, Workspaces) ELSE in)

\* A 401 to a request that had a token empties the storage, whichever token is
\* there by now, and signs out.
Dropped(u, k) == IF net[k].arg.token # NoToken THEN Anonymous([u EXCEPT !.token = NoToken]) ELSE u

\* So does a logout.  The token may be a later one's, or that of someone who is
\* just signing in: what happened, with that.
Empties(k) == k = "logout" \/ (Refused(k) /\ net[k].arg.token # NoToken)
With401(k, happened) ==
  IF Empties(k) /\ ui.token # NoToken /\ (net[k].arg.token # ui.token \/ (Out("me") /\ k # "me"))
  THEN happened \cup {"taken"} ELSE happened

\* The state becomes v: no page but login without a session, and a sign-in and
\* the page of the workspaces read the list.
Becomes(requests, v) ==
  LET u == IF v.auth = "anonymous" /\ v.path # Login THEN [At(v, Login) EXCEPT !.next = v.path] ELSE v
      entered == u.auth = "in" /\ ui.auth # "in"
      mounted == u.auth = "in" /\ u.path = Workspaces /\ (ui.path # Workspaces \/ entered)
      read == IF entered THEN Ask(requests, u, "list signed in", {}) ELSE requests
  IN  /\ ui' = u
      /\ net' = IF mounted THEN Ask(read, u, "list mounted", {}) ELSE read

------------------------------------------------------------------------------
(* Signing in and out *)

\* The user is known, or is nobody: a request that failed for another reason
\* than the token keeps the token.  After a login the page asked for is opened,
\* or the redirect away from /login comes last.
MeBack ==
  /\ Returned("me")
  /\ LET in == SignedIn(ui, net["me"].got.value)
         next == IF Ok("me") THEN in ELSE IF Refused("me") THEN Anonymous(Dropped(ui, "me")) ELSE Anonymous(ui)
     IN  \/ Becomes(Closed("me"), Freed(next, "login"))
         \/ net["me"].arg.login /\ Ok("me") /\ Becomes(Closed("me"), Selects(At(in, ui.next)))
  /\ noise' = With401("me", noise) /\ UNCHANGED <<srv, clicks>>

LogIn(user) ==
  /\ Click /\ ui.path = Login /\ ui.auth = "anonymous" /\ ui.busy = "no"
  /\ ui' = [ui EXCEPT !.busy = "login"] /\ net' = Ask(net, ui, "login", user)
  /\ UNCHANGED <<srv, noise>>

LogInBack ==
  /\ Returned("login")
  /\ IF Ok("login")
     THEN /\ ui' = [ui EXCEPT !.token = net["login"].got.value]
          /\ net' = With(Closed("login"), "me", [token |-> net["login"].got.value, login |-> TRUE])
     ELSE Becomes(Closed("login"), Freed(IF Refused("login") THEN Dropped(ui, "login") ELSE ui, "login"))
  /\ noise' = With401("login", noise) /\ UNCHANGED <<srv, clicks>>

SignOut ==
  /\ Click /\ ui.auth = "in" /\ ~Out("logout")
  /\ net' = Ask(net, ui, "logout", {}) /\ UNCHANGED <<ui, srv, noise>>

\* Whatever the server says, the storage is emptied.  The page to come back to
\* is the last one, unless the plain /login comes last.
SignOutBack ==
  /\ Returned("logout")
  /\ LET gone == Anonymous([ui EXCEPT !.token = NoToken])
     IN  Becomes(Closed("logout"), gone) \/ Becomes(Closed("logout"), [gone EXCEPT !.next = Workspaces])
  /\ noise' = With401("logout", noise) /\ UNCHANGED <<srv, clicks>>

\* Any page asks for something.
Browse == Click /\ ui.auth = "in" /\ ~Out("page") /\ net' = Ask(net, ui, "page", {}) /\ UNCHANGED <<ui, srv, noise>>
BrowseBack ==
  /\ Returned("page")
  /\ Becomes(Closed("page"), IF Refused("page") THEN Dropped(ui, "page") ELSE ui)
  /\ noise' = With401("page", noise) /\ UNCHANGED <<srv, clicks>>

------------------------------------------------------------------------------
(* Workspaces *)

Least(S) == CHOOSE w \in S : \A v \in S : w <= v

\* The list and the selection: the one kept in the storage, else the first.
Listed(u, list) ==
  [u EXCEPT !.list = list, !.current = IF u.kept \in DOMAIN list THEN u.kept ELSE IF list = <<>> THEN NoWs ELSE Least(DOMAIN list)]

ListBack(k) ==
  /\ Returned(k)
  /\ LET listed == IF Ok(k) THEN Listed(ui, net[k].got.value) ELSE IF Refused(k) THEN Dropped(ui, k) ELSE ui
         idle == CASE k = "list created" -> Freed(listed, "create") [] k = "list deleted" -> Freed(listed, "delete") [] OTHER -> listed
         made == net[k].arg.what
     IN  IF ~Ok(k) THEN Becomes(Closed(k), idle)
         ELSE CASE k = "list created" -> Becomes(Closed(k), Selects([idle EXCEPT !.current = made, !.kept = made]))
           [] k = "list deleted" -> Becomes(Closed(k), At(idle, Workspaces))
           [] k = "list saved" -> \* the new address, unless the bounce off the old one comes last
                Becomes(Closed(k), Selects(idle)) \/ Becomes(Closed(k), Selects(At(idle, Page(made))))
           [] OTHER -> Becomes(Closed(k), Selects(idle))
  /\ noise' = With401(k, noise) \cup (IF Ok(k) /\ net[k].got.value = Sees(UserOf(net[k].arg.token)) THEN {} ELSE {"stale list"})
                               \cup (IF Ok(k) /\ UserOf(net[k].arg.token) # ui.user THEN {"late list"} ELSE {})
  /\ UNCHANGED <<srv, clicks>>

\* The switcher of the sidebar selects and stays on the page.
Switch(w) ==
  /\ Click /\ ui.auth = "in" /\ w \in Known(ui)
  /\ ui' = [ui EXCEPT !.current = w, !.kept = w] /\ UNCHANGED <<net, srv, noise>>

\* A card opens its workspace.
Select(w) ==
  /\ Click /\ ui.auth = "in" /\ ui.path = Workspaces /\ w \in Known(ui)
  /\ Becomes(net, Selects(At([ui EXCEPT !.current = w, !.kept = w], Page(ui.list[w]))))
  /\ UNCHANGED <<srv, noise>>

ToWorkspaces == Click /\ ui.auth = "in" /\ ui.path.at = "w" /\ Becomes(net, At(ui, Workspaces)) /\ UNCHANGED <<srv, noise>>

Create ==
  /\ Click /\ ui.auth = "in" /\ ui.path = Workspaces /\ ui.busy = "no"
  /\ ui' = [ui EXCEPT !.busy = "create"] /\ net' = Ask(net, ui, "create", 3)
  /\ UNCHANGED <<srv, noise>>

\* The workspace the page is about.
Shown == {w \in Known(ui) : ui.path.at = "w" /\ ui.list[w] = ui.path.slug}

\* The settings page sends what differs.
Rename(slug) ==
  /\ Click /\ ui.auth = "in" /\ ui.busy = "no" /\ slug # ui.path.slug
  /\ \E w \in Shown : net' = Ask(net, ui, "rename", [ws |-> w, slug |-> slug])
  /\ ui' = [ui EXCEPT !.busy = "rename"]
  /\ UNCHANGED <<srv, noise>>

Delete ==
  /\ Click /\ ui.auth = "in" /\ ui.busy = "no"
  /\ \E w \in Shown : net' = Ask(net, ui, "delete", w)
  /\ ui' = [ui EXCEPT !.busy = "delete"]
  /\ UNCHANGED <<srv, noise>>

\* Each is followed by a read of the list; Save is free again before that.
ChangeBack(k, list, what) ==
  /\ Returned(k)
  /\ IF Ok(k) THEN ui' = (IF k = "rename" THEN Freed(ui, k) ELSE ui) /\ net' = Ask(Closed(k), ui, list, what)
     ELSE Becomes(Closed(k), Freed(IF Refused(k) THEN Dropped(ui, k) ELSE ui, k))
  /\ noise' = IF Rejected(k) THEN noise \cup {"stale list"} ELSE With401(k, noise)
  /\ UNCHANGED <<srv, clicks>>

------------------------------------------------------------------------------
(* The server, and the other tab *)

\* The answer to a request that needs a token.
Gives(k, state, value) ==
  /\ Out(k)
  /\ IF Live(net[k].arg.token) THEN Handles(k, state, [code |-> 200, value |-> value])
     ELSE Handles(k, srv, [code |-> 401, value |-> {}])

Issued(user) == IF UserOf(srv.issued + 1) = user THEN srv.issued + 1 ELSE srv.issued + 2

Serve ==
  \/ Out("me") /\ Gives("me", srv, UserOf(net["me"].arg.token))
  \/ /\ Out("login") /\ Issued(net["login"].arg.what) <= MaxToken
     /\ LET token == Issued(net["login"].arg.what) IN Handles("login", [srv EXCEPT !.issued = token], [code |-> 200, value |-> token])
  \/ Out("login") /\ Handles("login", srv, [code |-> 401, value |-> {}])
  \/ Gives("logout", srv, {}) \/ Gives("page", srv, {})
  \/ \E k \in Lists : Out(k) /\ Gives(k, srv, Sees(UserOf(net[k].arg.token)))
  \/ 3 \notin DOMAIN srv.ws /\ Gives("create", [srv EXCEPT !.ws = [w \in DOMAIN @ \cup {3} |-> IF w = 3 THEN "c" ELSE @[w]]], {})
  \/ /\ Out("rename") /\ net["rename"].arg.what.ws \in DOMAIN srv.ws
     /\ LET asked == net["rename"].arg.what
        IN  /\ \A w \in DOMAIN srv.ws : srv.ws[w] # asked.slug
            /\ Gives("rename", [srv EXCEPT !.ws[asked.ws] = asked.slug], {})
  \/ Out("delete") /\ Gives("delete", [srv EXCEPT !.ws = Restrict(@, DOMAIN @ \ {net["delete"].arg.what})], {})

Expire ==
  /\ srv.expired = {}
  /\ \E t \in 1..srv.issued : srv' = [srv EXCEPT !.expired = {t}]
  /\ UNCHANGED <<ui, net, clicks, noise>>

\* The other tab signs out, or in.
OtherTab ==
  /\ "other tab" \notin noise
  /\ \/ ui' = [ui EXCEPT !.token = NoToken] /\ UNCHANGED srv
     \/ srv.issued < MaxToken /\ srv' = [srv EXCEPT !.issued = @ + 1] /\ ui' = [ui EXCEPT !.token = srv.issued + 1]
  /\ noise' = noise \cup {"other tab"} /\ UNCHANGED <<net, clicks>>

Returns ==
  \/ MeBack \/ LogInBack \/ SignOutBack \/ BrowseBack \/ \E k \in Lists : ListBack(k)
  \/ Out("create") /\ ChangeBack("create", "list created", net["create"].arg.what)
  \/ Out("rename") /\ ChangeBack("rename", "list saved", net["rename"].arg.what.slug)
  \/ ChangeBack("delete", "list deleted", {})
Clicks ==
  \/ SignOut \/ Browse \/ ToWorkspaces \/ Create \/ Delete
  \/ \E user \in {"ann", "bob"} : LogIn(user)
  \/ \E w \in 1..3 : Select(w) \/ Switch(w)
  \/ Rename("d")
Next == Serve \/ Returns \/ Clicks \/ Expire \/ OtherTab \/ \E k \in DOMAIN net : Breaks(k)

TypeOK ==
  /\ ui.auth \in {"loading", "anonymous", "in"} /\ ui.token \in 0..MaxToken /\ ui.path.at \in {"login", "workspaces", "w"}
  /\ ui.current \in 0..3 /\ Known(ui) \subseteq 1..3 /\ ui.busy \in {"no", "login", "create", "rename", "delete"}

(* Whoever is not signed in is on the login page and has no workspaces on the
   screen, unless a list of the former session came late: it may lead away from
   the form in the middle of a sign-in, too.  Whoever is, has a token that is
   theirs, unless another tab changed it or a late answer (a 401, a logout) took
   it from a later session or in the middle of a sign-in; and at rest has their
   own workspaces and, having any, no page of another. *)
ShowsServer ==
  /\ ui.auth = "anonymous" => ui.path = Login /\ ("late list" \notin noise => ui.list = <<>>)
  /\ ui.auth = "in" /\ noise \cap {"late list", "other tab", "taken"} = {} => ui.token # NoToken /\ UserOf(ui.token) = ui.user
  /\ ui.auth = "in" /\ Quiet /\ noise \cap {"stale list", "late list", "other tab", "taken"} = {} =>
       /\ ui.list = Sees(ui.user)
       /\ ui.path.at = "w" /\ ui.list # <<>> => Shown # {}

SpinnersHaveRequests ==
  /\ ui.busy = "login" => Out("login") \/ Out("me")
  /\ ui.busy = "create" => Out("create") \/ Out("list created")
  /\ ui.busy = "delete" => Out("delete") \/ Out("list deleted")
=============================================================================
