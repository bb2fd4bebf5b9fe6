--------------------------- MODULE WebPagesProofs ---------------------------
(***************************************************************************)
(* Proofs about the other pages of the web client, for any rows, queries    *)
(* and bounds: ...Spins, ...Rules and ...Show are what they are in          *)
(* WebListsProofs; of a run's page, RunKnows says that whoever has read its *)
(* end knows it, and RunFollows which lines are on the screen.              *)
(***************************************************************************)
EXTENDS WebPages, TLAPS, FiniteSetTheorems, WellFoundedInduction

------------------------------------------------------------------------------
(* The session and the page shell *)

\* What the effects of a change do to a busy button: it goes with its page.
Carried(u, v) ==
  /\ DOMAIN v = DOMAIN u
  /\ v.busy = "no" \/ (v.busy = u.busy /\ v.path = u.path)

\* What these effects read of the page.
HasPage(u) == {"busy", "path"} \subseteq DOMAIN u

\* One effect after another.
LEMMA CarriedTransitive ==
  ASSUME NEW u, NEW v, NEW w, Carried(u, v), Carried(v, w)
  PROVE  Carried(u, w)
  BY DEF Carried

\* Going to a page leaves the busy button of another behind (router.push).
LEMMA AtCarries ==
  ASSUME NEW u, NEW path, HasPage(u)
  PROVE  Carried(u, OnSession!At(u, path)) /\ HasPage(OnSession!At(u, path)) /\ OnSession!At(u, path).path = path
  BY DEF OnSession!At, Carried, HasPage

\* So does choosing the workspace of the path, or leaving for the list.
LEMMA SelectsCarries ==
  ASSUME NEW u, HasPage(u)
  PROVE  Carried(u, OnSession!Selects(u)) /\ HasPage(OnSession!Selects(u))
<1>1. CASE u.path.at # "w" \/ u.list = <<>>
  BY <1>1 DEF OnSession!Selects, Carried
<1>2. CASE ~(u.path.at # "w" \/ u.list = <<>>)
  <2>1. CASE \E w \in OnSession!Known(u) : u.list[w] = u.path.slug
    <3> DEFINE w == CHOOSE v \in OnSession!Known(u) : u.list[v] = u.path.slug
    <3>1. OnSession!Selects(u) = [u EXCEPT !.current = w, !.kept = w]
      BY <1>2, <2>1 DEF OnSession!Selects
    <3> HIDE DEF w
    <3> QED
      BY <3>1 DEF Carried, HasPage
  <2>2. CASE ~ \E w \in OnSession!Known(u) : u.list[w] = u.path.slug
    <3>1. OnSession!Selects(u) = OnSession!At(u, OnSession!Workspaces)
      BY <1>2, <2>2 DEF OnSession!Selects
    <3> QED
      BY <3>1, AtCarries
  <2> QED
    BY <2>1, <2>2
<1> QED
  BY <1>1, <1>2

\* So does being signed out.
LEMMA AnonymousCarries ==
  ASSUME NEW u, HasPage(u)
  PROVE  Carried(u, OnSession!Anonymous(u)) /\ HasPage(OnSession!Anonymous(u))
<1> DEFINE gone == IF u.auth = "anonymous" THEN u
                   ELSE [u EXCEPT !.auth = "anonymous", !.user = OnSession!Nobody, !.list = <<>>, !.current = OnSession!NoWs]
<1>1. Carried(u, gone) /\ HasPage(gone)
  BY DEF Carried, HasPage
<1>2. OnSession!Anonymous(u) = IF u.path = OnSession!Login THEN gone ELSE [OnSession!At(gone, OnSession!Login) EXCEPT !.next = u.path]
  BY DEF OnSession!Anonymous
<1> HIDE DEF gone
<1> DEFINE there == OnSession!At(gone, OnSession!Login)
<1>3. Carried(u, there) /\ HasPage(there)
  BY <1>1, AtCarries, CarriedTransitive
<1>4. Carried(there, [there EXCEPT !.next = u.path]) /\ HasPage([there EXCEPT !.next = u.path])
  BY <1>3 DEF Carried, HasPage
<1>5. CASE u.path = OnSession!Login
  BY <1>1, <1>2, <1>5
<1>6. CASE u.path # OnSession!Login
  BY <1>2, <1>3, <1>4, <1>6, CarriedTransitive
<1> QED
  BY <1>5, <1>6

\* So does being signed in, which leaves the login form.
LEMMA SignedInCarries ==
  ASSUME NEW u, NEW user, HasPage(u)
  PROVE  /\ Carried(u, OnSession!SignedIn(u, user)) /\ HasPage(OnSession!SignedIn(u, user))
         /\ u.path = OnSession!Login => OnSession!SignedIn(u, user).busy = "no"
<1> DEFINE in == [u EXCEPT !.auth = "in", !.user = user]
           to == IF u.path = OnSession!Login THEN OnSession!At(in, OnSession!Workspaces) ELSE in
<1>1. Carried(u, in) /\ HasPage(in) /\ in.path = u.path
  BY DEF Carried, HasPage
<1>2. OnSession!SignedIn(u, user) = OnSession!Selects(to)
  BY DEF OnSession!SignedIn
<1>3. OnSession!Login # OnSession!Workspaces
  BY DEF OnSession!Login, OnSession!Workspaces
<1> HIDE DEF in
<1>4. Carried(u, to) /\ HasPage(to) /\ (u.path = OnSession!Login => to.busy = "no")
  <2>1. CASE u.path = OnSession!Login
    <3>1. Carried(u, to) /\ HasPage(to)
      BY <1>1, <2>1, AtCarries, CarriedTransitive
    <3>2. to.busy = "no"
      BY <1>1, <1>3, <2>1 DEF OnSession!At, HasPage
    <3> QED
      BY <3>1, <3>2
  <2>2. CASE u.path # OnSession!Login
    BY <1>1, <2>2
  <2> QED
    BY <2>1, <2>2
<1> HIDE DEF to
<1>5. Carried(to, OnSession!Selects(to)) /\ HasPage(OnSession!Selects(to))
  BY <1>4, SelectsCarries
<1> QED
  BY <1>2, <1>4, <1>5, CarriedTransitive DEF Carried

\* So does the token being dropped.
LEMMA DroppedCarries ==
  ASSUME NEW u, NEW k, HasPage(u)
  PROVE  Carried(u, OnSession!Dropped(u, k)) /\ HasPage(OnSession!Dropped(u, k))
<1> DEFINE out == [u EXCEPT !.token = OnSession!NoToken]
<1>1. Carried(u, out) /\ HasPage(out)
  BY DEF Carried, HasPage
<1> HIDE DEF out
<1>2. Carried(out, OnSession!Anonymous(out)) /\ HasPage(OnSession!Anonymous(out))
  BY <1>1, AnonymousCarries
<1>3. OnSession!Dropped(u, k) = IF net[k].arg.token # OnSession!NoToken THEN OnSession!Anonymous(out) ELSE u
  BY DEF OnSession!Dropped, out
<1>4. Carried(u, u)
  BY DEF Carried
<1> QED
  BY <1>1, <1>2, <1>3, <1>4, CarriedTransitive

\* So does the list of workspaces being read.
LEMMA ListedCarries ==
  ASSUME NEW u, NEW list, HasPage(u)
  PROVE  Carried(u, OnSession!Listed(u, list)) /\ HasPage(OnSession!Listed(u, list))
<1> DEFINE first == IF u.kept \in DOMAIN list THEN u.kept ELSE IF list = <<>> THEN OnSession!NoWs ELSE OnSession!Least(DOMAIN list)
<1>1. OnSession!Listed(u, list) = [u EXCEPT !.list = list, !.current = first]
  BY DEF OnSession!Listed
<1> HIDE DEF first
<1> QED
  BY <1>1 DEF Carried, HasPage

\* So does an operation that ends, and its button is not busy.
LEMMA FreedCarries ==
  ASSUME NEW u, NEW k, HasPage(u), k # "no"
  PROVE  Carried(u, OnSession!Freed(u, k)) /\ HasPage(OnSession!Freed(u, k)) /\ OnSession!Freed(u, k).busy # k
  BY DEF OnSession!Freed, Carried, HasPage

\* So does any change of the state with its effects.
LEMMA BecomesCarries ==
  ASSUME NEW requests, NEW v, HasPage(v), OnSession!Becomes(requests, v)
  PROVE  Carried(v, ui') /\ HasPage(ui') /\ DOMAIN requests \subseteq DOMAIN net'
<1> DEFINE u == IF v.auth = "anonymous" /\ v.path # OnSession!Login THEN [OnSession!At(v, OnSession!Login) EXCEPT !.next = v.path] ELSE v
           entered == u.auth = "in" /\ ui.auth # "in"
           read == IF entered THEN OnSession!Ask(requests, u, "list signed in", {}) ELSE requests
           mounted == u.auth = "in" /\ u.path = OnSession!Workspaces /\ (ui.path # OnSession!Workspaces \/ entered)
<1>1. ui' = u /\ net' = IF mounted THEN OnSession!Ask(read, u, "list mounted", {}) ELSE read
  BY DEF OnSession!Becomes
<1>2. Carried(v, u) /\ HasPage(u)
  <2> DEFINE there == OnSession!At(v, OnSession!Login)
  <2>1. Carried(v, there) /\ HasPage(there)
    BY AtCarries
  <2> HIDE DEF there
  <2>2. Carried(there, [there EXCEPT !.next = v.path]) /\ HasPage([there EXCEPT !.next = v.path])
    BY <2>1 DEF Carried, HasPage
  <2>3. Carried(v, v)
    BY DEF Carried
  <2> QED
    BY <2>1, <2>2, <2>3, CarriedTransitive DEF there
<1>3. DOMAIN requests \subseteq DOMAIN read
  <2> HIDE DEF u
  <2> QED
    BY DEF OnSession!Ask, OnSession!With
<1>4. DOMAIN read \subseteq DOMAIN net'
  <2> HIDE DEF u, read
  <2> QED
    BY <1>1 DEF OnSession!Ask, OnSession!With
<1> QED
  BY <1>1, <1>2, <1>3, <1>4

\* With it, a page that is busy signing in is the login page.
SessionSpins ==
  /\ HasPage(ui)
  /\ ui.busy # "none" /\ (ui.busy = "login" => ui.path = OnSession!Login)
  /\ OnSession!SpinnersHaveRequests

\* It holds when the page opens.
LEMMA SessionInit == OnSession!Init => SessionSpins
<1> SUFFICES ASSUME OnSession!Init PROVE SessionSpins
  OBVIOUS
<1>1. HasPage(ui) /\ ui.busy = "no"
  <2>1. PICK path \in {OnSession!Workspaces, OnSession!Page("a")} :
          \/ ui = [auth |-> "loading", user |-> OnSession!Nobody, token |-> 1, kept |-> 2, path |-> path, next |-> OnSession!Workspaces,
                     list |-> <<>>, current |-> OnSession!NoWs, busy |-> "no"]
          \/ ui = [auth |-> "anonymous", user |-> OnSession!Nobody, token |-> OnSession!NoToken, kept |-> OnSession!NoWs,
                     path |-> OnSession!Login, next |-> path, list |-> <<>>, current |-> OnSession!NoWs, busy |-> "no"]
    BY Zenon DEF OnSession!Init
  <2>2. CASE ui = [auth |-> "loading", user |-> OnSession!Nobody, token |-> 1, kept |-> 2, path |-> path, next |-> OnSession!Workspaces,
                   list |-> <<>>, current |-> OnSession!NoWs, busy |-> "no"]
    BY <2>2 DEF HasPage
  <2>3. CASE ui = [auth |-> "anonymous", user |-> OnSession!Nobody, token |-> OnSession!NoToken, kept |-> OnSession!NoWs,
                   path |-> OnSession!Login, next |-> path, list |-> <<>>, current |-> OnSession!NoWs, busy |-> "no"]
    BY <2>3 DEF HasPage
  <2> QED
    BY <2>1, <2>2, <2>3
<1> QED
  BY <1>1 DEF SessionSpins, OnSession!SpinnersHaveRequests

\* The button that waits for request k, in the end.
Waiting(k) ==
  CASE k \in {"login", "me"} -> "login" [] k \in {"create", "list created"} -> "create"
    [] k \in {"delete", "list deleted"} -> "delete" [] OTHER -> "none"

\* The answer to k is taken: what keeps the page, unless its button is busy with
\* k, or clears it, keeps the invariant.
LEMMA SessionTakes ==
  ASSUME SessionSpins, NEW k, NEW v, HasPage(v), OnSession!Becomes(OnSession!Closed(k), v),
         v.busy = "no" \/ (Carried(ui, v) /\ v.busy # Waiting(k))
  PROVE  SessionSpins'
<1>0. DOMAIN OnSession!Closed(k) = DOMAIN net \ {k}
  BY DEF OnSession!Closed, OnSession!Without, OnSession!Restrict
<1>1. Carried(v, ui') /\ HasPage(ui') /\ DOMAIN net \ {k} \subseteq DOMAIN net'
  BY <1>0, BecomesCarries
<1>2. CASE v.busy = "no"
  BY <1>1, <1>2 DEF Carried, SessionSpins, HasPage, OnSession!SpinnersHaveRequests
<1>3. CASE Carried(ui, v) /\ v.busy # Waiting(k)
  <2>1. ui'.busy = "no" \/ (ui'.busy = ui.busy /\ ui'.path = ui.path /\ ui.busy # Waiting(k))
    BY <1>1, <1>3 DEF Carried
  <2> QED
    BY <1>1, <2>1 DEF SessionSpins, OnSession!SpinnersHaveRequests, OnSession!Out, Waiting
<1> QED
  BY <1>2, <1>3

\* The answer to a change of the workspaces.
LEMMA SessionChanges ==
  ASSUME SessionSpins, NEW k, NEW list, NEW what, OnSession!ChangeBack(k, list, what),
         \/ k = "create" /\ list = "list created"
         \/ k = "rename" /\ list = "list saved"
         \/ k = "delete" /\ list = "list deleted"
  PROVE  SessionSpins'
<1> DEFINE after == IF OnSession!Refused(k) THEN OnSession!Dropped(ui, k) ELSE ui
           v == OnSession!Freed(after, k)
<1>1. Carried(ui, after) /\ HasPage(after)
  BY DroppedCarries DEF SessionSpins, Carried
<1>2. CASE OnSession!Ok(k)
  <2>1. /\ ui' = IF k = "rename" THEN OnSession!Freed(ui, k) ELSE ui
        /\ net' = OnSession!Ask(OnSession!Closed(k), ui, list, what)
    BY <1>2 DEF OnSession!ChangeBack
  <2>2. HasPage(ui') /\ Carried(ui, ui')
    BY <2>1, FreedCarries DEF SessionSpins, Carried
  <2>3. DOMAIN net' = (DOMAIN net \ {k}) \cup {list}
    BY <2>1 DEF OnSession!Ask, OnSession!With, OnSession!Closed, OnSession!Without, OnSession!Restrict
  <2> QED
    BY <2>2, <2>3 DEF Carried, SessionSpins, OnSession!SpinnersHaveRequests, OnSession!Out
<1>3. CASE ~OnSession!Ok(k)
  <2>1. OnSession!Becomes(OnSession!Closed(k), v)
    BY <1>3 DEF OnSession!ChangeBack
  <2> HIDE DEF after
  <2>2. Carried(after, v) /\ HasPage(v) /\ v.busy # k
    BY <1>1, FreedCarries
  <2>3. Carried(ui, v)
    BY <1>1, <2>2, CarriedTransitive
  <2>4. v.busy = "no" \/ v.busy # Waiting(k)
    <3>1. CASE k = "rename"
      <4>1. Waiting(k) = "none"
        BY <3>1 DEF Waiting
      <4>2. v.busy = "no" \/ v.busy = ui.busy
        BY <2>3 DEF Carried
      <4>3. ui.busy # "none"
        BY DEF SessionSpins, OnSession!SpinnersHaveRequests
      <4> QED
        BY <4>1, <4>2, <4>3
    <3>2. CASE k # "rename"
      BY <2>2, <3>2 DEF Waiting
    <3> QED
      BY <3>1, <3>2
  <2> HIDE DEF v
  <2> QED
    BY <2>1, <2>2, <2>3, <2>4, SessionTakes
<1> QED
  BY <1>2, <1>3

\* Every step of the page keeps it.
LEMMA SessionStep == SessionSpins /\ OnSession!Next => SessionSpins'
<1> SUFFICES ASSUME SessionSpins, OnSession!Next PROVE SessionSpins'
  OBVIOUS
<1>p. HasPage(ui) /\ Carried(ui, ui)
  BY DEF SessionSpins, Carried
<1>n. ui.busy # "none"
  BY DEF SessionSpins
<1>1. CASE OnSession!Serve
  <2>1. ui' = ui /\ DOMAIN net' = DOMAIN net
    BY <1>1 DEF OnSession!Serve, OnSession!Gives, OnSession!Handles
  <2> QED
    BY <2>1 DEF SessionSpins, HasPage, OnSession!SpinnersHaveRequests, OnSession!Out
<1>2. CASE OnSession!MeBack
  <2> DEFINE in == OnSession!SignedIn(ui, net["me"].got.value)
             next == IF OnSession!Ok("me") THEN in ELSE IF OnSession!Refused("me") THEN OnSession!Anonymous(OnSession!Dropped(ui, "me")) ELSE OnSession!Anonymous(ui)
             v == OnSession!Freed(next, "login")
             to == OnSession!At(in, ui.next)
  <2>1. Carried(ui, in) /\ HasPage(in) /\ (ui.path = OnSession!Login => in.busy = "no")
    BY <1>p, SignedInCarries
  <2>2. Carried(ui, next) /\ HasPage(next)
    BY <1>p, <2>1, DroppedCarries, AnonymousCarries, CarriedTransitive
  <2>3. CASE OnSession!Becomes(OnSession!Closed("me"), v)
    <3> HIDE DEF next
    <3>1. Carried(next, v) /\ HasPage(v) /\ v.busy # Waiting("me")
      BY <2>2, FreedCarries DEF Waiting
    <3>2. Carried(ui, v)
      BY <2>2, <3>1, CarriedTransitive
    <3> HIDE DEF v
    <3> QED
      BY <2>3, <3>1, <3>2, SessionTakes
  <2>4. CASE OnSession!Becomes(OnSession!Closed("me"), OnSession!Selects(to))
    <3> HIDE DEF in
    <3>1. Carried(in, to) /\ HasPage(to)
      BY <2>1, AtCarries
    <3> HIDE DEF to
    <3>2. Carried(to, OnSession!Selects(to)) /\ HasPage(OnSession!Selects(to))
      BY <3>1, SelectsCarries
    <3>3. Carried(in, ui') /\ HasPage(ui') /\ DOMAIN net \ {"me"} \subseteq DOMAIN net'
      BY <2>4, <3>1, <3>2, BecomesCarries, CarriedTransitive DEF OnSession!Closed, OnSession!Without, OnSession!Restrict
    <3>4. ui'.busy = "no" \/ (ui'.busy = ui.busy /\ ui'.path = ui.path /\ ui.path # OnSession!Login)
      BY <2>1, <3>3 DEF Carried
    <3> QED
      BY <3>3, <3>4 DEF SessionSpins, OnSession!SpinnersHaveRequests, OnSession!Out
  <2> HIDE DEF v, to
  <2> QED
    BY <1>2, <2>3, <2>4 DEF OnSession!MeBack, v, to
<1>3. CASE OnSession!LogInBack
  <2>1. CASE OnSession!Ok("login")
    <3>1. DOMAIN ui' = DOMAIN ui /\ ui'.busy = ui.busy /\ ui'.path = ui.path
      BY <1>3, <2>1 DEF OnSession!LogInBack, SessionSpins, HasPage
    <3>2. DOMAIN net' = (DOMAIN net \ {"login"}) \cup {"me"}
      BY <1>3, <2>1 DEF OnSession!LogInBack, OnSession!With, OnSession!Closed, OnSession!Without, OnSession!Restrict
    <3> QED
      BY <3>1, <3>2 DEF SessionSpins, HasPage, OnSession!SpinnersHaveRequests, OnSession!Out
  <2>2. CASE ~OnSession!Ok("login")
    <3> DEFINE after == IF OnSession!Refused("login") THEN OnSession!Dropped(ui, "login") ELSE ui
               v == OnSession!Freed(after, "login")
    <3>1. Carried(ui, after) /\ HasPage(after)
      BY <1>p, DroppedCarries
    <3>2. OnSession!Becomes(OnSession!Closed("login"), v)
      BY <1>3, <2>2 DEF OnSession!LogInBack
    <3> HIDE DEF after
    <3>3. Carried(after, v) /\ HasPage(v) /\ v.busy # Waiting("login")
      BY <3>1, FreedCarries DEF Waiting
    <3>4. Carried(ui, v)
      BY <3>1, <3>3, CarriedTransitive
    <3> HIDE DEF v
    <3> QED
      BY <3>2, <3>3, <3>4, SessionTakes
  <2> QED
    BY <2>1, <2>2
<1>4. CASE OnSession!SignOutBack
  <2> DEFINE out == [ui EXCEPT !.token = OnSession!NoToken]
             gone == OnSession!Anonymous(out)
             v == [gone EXCEPT !.next = OnSession!Workspaces]
  <2>1. Carried(ui, out) /\ HasPage(out)
    BY <1>p DEF Carried, HasPage
  <2>2. Carried(ui, gone) /\ HasPage(gone)
    <3> HIDE DEF out
    <3> QED
      BY <2>1, AnonymousCarries, CarriedTransitive
  <2>3. OnSession!Becomes(OnSession!Closed("logout"), gone) \/ OnSession!Becomes(OnSession!Closed("logout"), v)
    BY <1>4 DEF OnSession!SignOutBack
  <2> HIDE DEF gone
  <2>4. Carried(ui, v) /\ HasPage(v)
    BY <2>2 DEF Carried, HasPage
  <2> HIDE DEF v
  <2>5. (gone.busy = "no" \/ gone.busy # Waiting("logout")) /\ (v.busy = "no" \/ v.busy # Waiting("logout"))
    BY <1>n, <2>2, <2>4 DEF Carried, Waiting
  <2> QED
    BY <2>2, <2>3, <2>4, <2>5, SessionTakes
<1>5. CASE OnSession!BrowseBack
  <2> DEFINE v == IF OnSession!Refused("page") THEN OnSession!Dropped(ui, "page") ELSE ui
  <2>1. Carried(ui, v) /\ HasPage(v)
    BY <1>p, DroppedCarries
  <2>2. OnSession!Becomes(OnSession!Closed("page"), v)
    BY <1>5 DEF OnSession!BrowseBack
  <2> HIDE DEF v
  <2>3. v.busy = "no" \/ v.busy # Waiting("page")
    BY <1>n, <2>1 DEF Carried, Waiting
  <2> QED
    BY <2>1, <2>2, <2>3, SessionTakes
<1>6. ASSUME NEW k \in OnSession!Lists, OnSession!ListBack(k) PROVE SessionSpins'
  <2> DEFINE listed == IF OnSession!Ok(k) THEN OnSession!Listed(ui, net[k].got.value) ELSE IF OnSession!Refused(k) THEN OnSession!Dropped(ui, k) ELSE ui
             idle == CASE k = "list created" -> OnSession!Freed(listed, "create")
                       [] k = "list deleted" -> OnSession!Freed(listed, "delete") [] OTHER -> listed
             made == net[k].arg.what
             chosen == [idle EXCEPT !.current = made, !.kept = made]
             moved == OnSession!At(idle, OnSession!Page(made))
  <2>1. Carried(ui, listed) /\ HasPage(listed)
    BY <1>p, DroppedCarries, ListedCarries
  <2>2. /\ Carried(ui, idle) /\ HasPage(idle)
        /\ idle.busy = "no" \/ idle.busy # Waiting(k)
    <3> HIDE DEF listed
    <3>1. CASE k = "list created"
      <4>1. idle = OnSession!Freed(listed, "create") /\ Waiting(k) = "create"
        BY <3>1 DEF Waiting
      <4> QED
        BY <2>1, <4>1, FreedCarries, CarriedTransitive
    <3>2. CASE k = "list deleted"
      <4>1. idle = OnSession!Freed(listed, "delete") /\ Waiting(k) = "delete"
        BY <3>2 DEF Waiting
      <4> QED
        BY <2>1, <4>1, FreedCarries, CarriedTransitive
    <3>3. CASE k \notin {"list created", "list deleted"}
      <4>1. idle = listed /\ Waiting(k) = "none"
        BY <3>3 DEF Waiting, OnSession!Lists
      <4> QED
        BY <1>n, <2>1, <4>1 DEF Carried
    <3> QED
      BY <3>1, <3>2, <3>3
  <2>3. \E v : /\ HasPage(v) /\ Carried(idle, v) /\ OnSession!Becomes(OnSession!Closed(k), v)
    <3>1. \/ OnSession!Becomes(OnSession!Closed(k), idle)
          \/ OnSession!Becomes(OnSession!Closed(k), OnSession!Selects(chosen))
          \/ OnSession!Becomes(OnSession!Closed(k), OnSession!At(idle, OnSession!Workspaces))
          \/ OnSession!Becomes(OnSession!Closed(k), OnSession!Selects(idle))
          \/ OnSession!Becomes(OnSession!Closed(k), OnSession!Selects(moved))
      <4> HIDE DEF idle
      <4> QED
        BY <1>6 DEF OnSession!ListBack, OnSession!Lists, idle
    <3> HIDE DEF idle
    <3>2. Carried(idle, idle) /\ Carried(idle, chosen) /\ HasPage(chosen)
      BY <2>2 DEF Carried, HasPage
    <3>3. Carried(idle, moved) /\ HasPage(moved)
      BY <2>2, AtCarries
    <3>4. Carried(idle, OnSession!At(idle, OnSession!Workspaces)) /\ HasPage(OnSession!At(idle, OnSession!Workspaces))
      BY <2>2, AtCarries
    <3> HIDE DEF chosen, moved
    <3>5. Carried(idle, OnSession!Selects(chosen)) /\ HasPage(OnSession!Selects(chosen))
      BY <3>2, SelectsCarries, CarriedTransitive
    <3>6. Carried(idle, OnSession!Selects(moved)) /\ HasPage(OnSession!Selects(moved))
      BY <3>3, SelectsCarries, CarriedTransitive
    <3>7. Carried(idle, OnSession!Selects(idle)) /\ HasPage(OnSession!Selects(idle))
      BY <2>2, SelectsCarries
    <3> QED
      BY <2>2, <3>1, <3>2, <3>4, <3>5, <3>6, <3>7
  <2> HIDE DEF idle
  <2>4. PICK v : HasPage(v) /\ Carried(idle, v) /\ OnSession!Becomes(OnSession!Closed(k), v)
    BY <2>3
  <2>5. Carried(ui, v)
    BY <2>2, <2>4, CarriedTransitive
  <2>6. v.busy = "no" \/ v.busy # Waiting(k)
    BY <2>2, <2>4 DEF Carried
  <2> QED
    BY <2>4, <2>5, <2>6, SessionTakes
<1>7. CASE OnSession!ChangeBack("create", "list created", net["create"].arg.what)
  BY <1>7, SessionChanges
<1>8. CASE OnSession!ChangeBack("rename", "list saved", net["rename"].arg.what.slug)
  BY <1>8, SessionChanges
<1>9. CASE OnSession!ChangeBack("delete", "list deleted", {})
  BY <1>9, SessionChanges
<1>10. CASE OnSession!Clicks
  <2> USE DEF SessionSpins, HasPage, OnSession!SpinnersHaveRequests, OnSession!Out, OnSession!Ask, OnSession!With
  <2>1. CASE OnSession!SignOut
    BY <2>1 DEF OnSession!SignOut
  <2>2. CASE OnSession!Browse
    BY <2>2 DEF OnSession!Browse
  <2>3. CASE OnSession!ToWorkspaces
    <3> HIDE DEF SessionSpins, HasPage, OnSession!SpinnersHaveRequests, OnSession!Out, OnSession!Ask, OnSession!With
    <3>1. Carried(ui, ui') /\ HasPage(ui') /\ DOMAIN net \subseteq DOMAIN net'
      BY <1>p, <2>3, AtCarries, BecomesCarries, CarriedTransitive DEF OnSession!ToWorkspaces
    <3> QED
      BY <3>1 DEF Carried, SessionSpins, OnSession!SpinnersHaveRequests, OnSession!Out
  <2>4. CASE OnSession!Create
    BY <2>4 DEF OnSession!Create
  <2>5. CASE OnSession!Delete
    <3>1. DOMAIN ui' = DOMAIN ui /\ ui'.busy = "delete" /\ DOMAIN net' = DOMAIN net \cup {"delete"}
      BY <2>5 DEF OnSession!Delete
    <3> QED
      BY <3>1
  <2>6. ASSUME NEW user, OnSession!LogIn(user) PROVE SessionSpins'
    BY <2>6 DEF OnSession!LogIn
  <2>7. ASSUME NEW w, OnSession!Select(w) PROVE SessionSpins'
    <3> HIDE DEF SessionSpins, HasPage, OnSession!SpinnersHaveRequests, OnSession!Out, OnSession!Ask, OnSession!With
    <3> DEFINE chosen == [ui EXCEPT !.current = w, !.kept = w]
               to == OnSession!At(chosen, OnSession!Page(ui.list[w]))
    <3>1. Carried(ui, chosen) /\ HasPage(chosen)
      BY <1>p DEF Carried, HasPage
    <3>2. OnSession!Becomes(net, OnSession!Selects(to))
      BY <2>7 DEF OnSession!Select
    <3> HIDE DEF chosen
    <3>3. Carried(ui, to) /\ HasPage(to)
      BY <3>1, AtCarries, CarriedTransitive
    <3> HIDE DEF to
    <3>4. Carried(ui, OnSession!Selects(to)) /\ HasPage(OnSession!Selects(to))
      BY <3>3, SelectsCarries, CarriedTransitive
    <3>5. Carried(ui, ui') /\ HasPage(ui') /\ DOMAIN net \subseteq DOMAIN net'
      BY <3>2, <3>4, BecomesCarries, CarriedTransitive
    <3> QED
      BY <3>5 DEF Carried, SessionSpins, OnSession!SpinnersHaveRequests, OnSession!Out
  <2>8. ASSUME NEW w, OnSession!Switch(w) PROVE SessionSpins'
    BY <2>8 DEF OnSession!Switch
  <2>9. CASE OnSession!Rename("d")
    <3>1. DOMAIN ui' = DOMAIN ui /\ ui'.busy = "rename" /\ DOMAIN net \subseteq DOMAIN net'
      BY <2>9 DEF OnSession!Rename
    <3> QED
      BY <3>1
  <2> QED
    BY <1>10, <2>1, <2>2, <2>3, <2>4, <2>5, <2>6, <2>7, <2>8, <2>9 DEF OnSession!Clicks
<1>11. CASE OnSession!Expire
  BY <1>11 DEF OnSession!Expire, SessionSpins, HasPage, OnSession!SpinnersHaveRequests, OnSession!Out
<1>12. CASE OnSession!OtherTab
  BY <1>12 DEF OnSession!OtherTab, SessionSpins, HasPage, OnSession!SpinnersHaveRequests, OnSession!Out
<1>13. ASSUME NEW k \in DOMAIN net, OnSession!Breaks(k) PROVE SessionSpins'
  BY <1>13 DEF OnSession!Breaks, OnSession!Fails, SessionSpins, HasPage, OnSession!SpinnersHaveRequests, OnSession!Out
<1> QED
  BY <1>1, <1>2, <1>3, <1>4, <1>5, <1>6, <1>7, <1>8, <1>9, <1>10, <1>11, <1>12, <1>13 DEF OnSession!Next, OnSession!Returns

(* What it shows *)

\* Pages, lists of workspaces, and what the shell remembers: their types.
IsPath(p) == DOMAIN p = {"at", "slug"} /\ p.at \in {"login", "workspaces", "w"}
IsList(list) == list = [w \in DOMAIN list |-> list[w]] /\ DOMAIN list \subseteq 1..3
IsShell(u) ==
  /\ DOMAIN u = {"auth", "user", "token", "kept", "path", "next", "list", "current", "busy"}
  /\ u.auth \in {"loading", "anonymous", "in"} /\ u.token \in 0..Bound.token
  /\ IsPath(u.path) /\ IsPath(u.next) /\ IsList(u.list) /\ u.current \in 0..3
  /\ u.busy \in {"no", "login", "create", "rename", "delete"}

\* Whoever has workspaces is on no page of another.
Fits(u) == u.path.at = "w" /\ u.list # <<>> => \E w \in DOMAIN u.list : u.list[w] = u.path.slug

\* The same session; the form of a sign-in stays as it is.
Keeps(u, v) == v.auth = u.auth /\ v.user = u.user /\ v.token = u.token /\ v.list = u.list
Stays(u, v) == u.path = OnSession!Login => v.path = OnSession!Login /\ (u.busy = "login" => v.busy = "login")

\* The pages are told from each other, and no list is a list.
LEMMA SessionPaths ==
  /\ IsPath(OnSession!Login) /\ IsPath(OnSession!Workspaces) /\ \A slug : IsPath(OnSession!Page(slug)) /\ OnSession!Page(slug).slug = slug
  /\ OnSession!Login.at = "login" /\ OnSession!Workspaces.at = "workspaces" /\ OnSession!Login # OnSession!Workspaces
  /\ IsList(<<>>)
<1>1. OnSession!Login.at = "login" /\ OnSession!Workspaces.at = "workspaces"
  BY DEF OnSession!Login, OnSession!Workspaces
<1>2. IsList(<<>>)
  <2>1. DOMAIN <<>> = {}
    OBVIOUS
  <2>2. <<>> = [w \in {} |-> <<>>[w]]
    OBVIOUS
  <2> QED
    BY <2>1, <2>2 DEF IsList
<1> QED
  BY <1>1, <1>2 DEF IsPath, OnSession!Login, OnSession!Workspaces, OnSession!Page

\* Going to a page.
LEMMA ShellAt ==
  ASSUME NEW u, NEW path, IsShell(u), IsPath(path)
  PROVE  LET v == OnSession!At(u, path) IN IsShell(v) /\ Keeps(u, v) /\ v.path = path /\ (path = u.path => v.busy = u.busy)
  BY DEF OnSession!At, IsShell, Keeps

\* A button that is free again.
LEMMA ShellFreed ==
  ASSUME NEW u, NEW k, IsShell(u)
  PROVE  LET v == OnSession!Freed(u, k)
         IN  IsShell(v) /\ Keeps(u, v) /\ v.path = u.path /\ v.current = u.current /\ (Fits(u) => Fits(v)) /\ (k # "login" => Stays(u, v))
  BY DEF OnSession!Freed, IsShell, Keeps, Fits, Stays

\* The workspace of the page is selected, or the page given up.
LEMMA ShellSelects ==
  ASSUME NEW u, IsShell(u)
  PROVE  LET v == OnSession!Selects(u) IN IsShell(v) /\ Keeps(u, v) /\ Fits(v) /\ Stays(u, v) /\ v.path \in {u.path, OnSession!Workspaces}
<1>1. CASE u.path.at # "w" \/ u.list = <<>>
  BY <1>1 DEF OnSession!Selects, Keeps, Fits, Stays
<1>2. CASE u.path.at = "w" /\ u.list # <<>>
  <2>0. u.path # OnSession!Login
    BY <1>2, SessionPaths
  <2>1. CASE \E w \in OnSession!Known(u) : u.list[w] = u.path.slug
    <3> DEFINE w == CHOOSE v \in OnSession!Known(u) : u.list[v] = u.path.slug
    <3>1. OnSession!Selects(u) = [u EXCEPT !.current = w, !.kept = w] /\ w \in OnSession!Known(u) /\ u.list[w] = u.path.slug
      BY <1>2, <2>1 DEF OnSession!Selects
    <3> HIDE DEF w
    <3>2. w \in 1..3
      BY <3>1 DEF IsShell, IsList, OnSession!Known
    <3> QED
      BY <2>0, <3>1, <3>2 DEF IsShell, Keeps, Fits, Stays, OnSession!Known
  <2>2. CASE ~ \E w \in OnSession!Known(u) : u.list[w] = u.path.slug
    <3>1. OnSession!Selects(u) = OnSession!At(u, OnSession!Workspaces)
      BY <1>2, <2>2 DEF OnSession!Selects
    <3> QED
      BY <2>0, <3>1, ShellAt, SessionPaths DEF Fits, Stays
  <2> QED
    BY <2>1, <2>2
<1> QED
  BY <1>1, <1>2

\* Nobody is signed in any more.
LEMMA ShellAnonymous ==
  ASSUME NEW u, IsShell(u)
  PROVE  LET v == OnSession!Anonymous(u)
         IN  /\ IsShell(v) /\ v.auth = "anonymous" /\ v.path = OnSession!Login /\ v.token = u.token
             /\ IF u.auth = "anonymous" THEN Keeps(u, v) ELSE v.user = OnSession!Nobody /\ v.list = <<>>
             /\ u.path = OnSession!Login => v.busy = u.busy
<1> DEFINE gone == IF u.auth = "anonymous" THEN u
                   ELSE [u EXCEPT !.auth = "anonymous", !.user = OnSession!Nobody, !.list = <<>>, !.current = OnSession!NoWs]
           there == OnSession!At(gone, OnSession!Login)
<1>1. OnSession!Anonymous(u) = IF u.path = OnSession!Login THEN gone ELSE [there EXCEPT !.next = u.path]
  BY DEF OnSession!Anonymous
<1>2. /\ IsShell(gone) /\ gone.auth = "anonymous" /\ gone.path = u.path /\ gone.token = u.token /\ gone.busy = u.busy
      /\ IF u.auth = "anonymous" THEN Keeps(u, gone) ELSE gone.user = OnSession!Nobody /\ gone.list = <<>>
  BY SessionPaths DEF IsShell, Keeps, OnSession!NoWs
<1> HIDE DEF gone
<1>3. IsShell(there) /\ Keeps(gone, there) /\ there.path = OnSession!Login
  BY <1>2, ShellAt, SessionPaths
<1> HIDE DEF there
<1>4. IsPath(u.path)
  BY DEF IsShell
<1>5. CASE u.path = OnSession!Login
  BY <1>1, <1>2, <1>5
<1>6. CASE u.path # OnSession!Login
  <2>1. OnSession!Anonymous(u) = [there EXCEPT !.next = u.path]
    BY <1>1, <1>6
  <2>2. IsShell([there EXCEPT !.next = u.path]) /\ Keeps(there, [there EXCEPT !.next = u.path]) /\ [there EXCEPT !.next = u.path].path = there.path
    BY <1>3, <1>4 DEF IsShell, Keeps
  <2> HIDE DEF OnSession!Anonymous
  <2> QED
    BY <1>2, <1>3, <1>6, <2>1, <2>2 DEF Keeps
<1> QED
  BY <1>5, <1>6

\* Someone is.
LEMMA ShellSignedIn ==
  ASSUME NEW u, NEW user, IsShell(u)
  PROVE  LET v == OnSession!SignedIn(u, user)
         IN  IsShell(v) /\ v.auth = "in" /\ v.user = user /\ v.token = u.token /\ v.list = u.list
<1> DEFINE in == [u EXCEPT !.auth = "in", !.user = user]
           to == IF u.path = OnSession!Login THEN OnSession!At(in, OnSession!Workspaces) ELSE in
<1>1. IsShell(in) /\ in.auth = "in" /\ in.user = user /\ in.token = u.token /\ in.list = u.list
  BY DEF IsShell
<1>2. OnSession!SignedIn(u, user) = OnSession!Selects(to)
  BY DEF OnSession!SignedIn
<1> HIDE DEF in
<1>3. IsShell(to) /\ Keeps(in, to)
  <2>1. Keeps(in, in)
    BY DEF Keeps
  <2> QED
    BY <1>1, <2>1, ShellAt, SessionPaths
<1> HIDE DEF to
<1> QED
  BY <1>1, <1>2, <1>3, ShellSelects DEF Keeps

\* The list of workspaces is read.
LEMMA ShellListed ==
  ASSUME NEW u, NEW list, IsShell(u), IsList(list)
  PROVE  LET v == OnSession!Listed(u, list)
         IN  /\ IsShell(v) /\ v.auth = u.auth /\ v.user = u.user /\ v.token = u.token /\ v.list = list
             /\ v.path = u.path /\ v.busy = u.busy
<1> DEFINE first == IF u.kept \in DOMAIN list THEN u.kept ELSE IF list = <<>> THEN OnSession!NoWs ELSE OnSession!Least(DOMAIN list)
<1>1. OnSession!Listed(u, list) = [u EXCEPT !.list = list, !.current = first]
  BY DEF OnSession!Listed
<1>2. DOMAIN list = {} => list = <<>>
  <2>1. <<>> = [w \in {} |-> list[w]]
    OBVIOUS
  <2> QED
    BY <2>1 DEF IsList
<1>3. ASSUME DOMAIN list # {} PROVE OnSession!Least(DOMAIN list) \in DOMAIN list
  <2>1. \E w \in DOMAIN list : \A v \in DOMAIN list : w <= v
    <3>1. DOMAIN list \subseteq {1, 2, 3}
      BY DEF IsList
    <3> QED
      BY <1>3, <3>1
  <2> QED
    BY <2>1 DEF OnSession!Least
<1>4. first \in 0..3
  <2>1. DOMAIN list \subseteq 0..3
    BY DEF IsList
  <2>2. CASE u.kept \in DOMAIN list
    BY <2>1, <2>2
  <2>3. CASE u.kept \notin DOMAIN list /\ list = <<>>
    BY <2>3 DEF OnSession!NoWs
  <2>4. CASE u.kept \notin DOMAIN list /\ list # <<>>
    <3>1. first = OnSession!Least(DOMAIN list) /\ DOMAIN list # {}
      BY <1>2, <2>4
    <3> HIDE DEF first
    <3> QED
      BY <1>3, <2>1, <3>1
  <2> QED
    BY <2>2, <2>3, <2>4
<1> HIDE DEF first
<1> QED
  BY <1>1, <1>4 DEF IsShell

\* What the shell has to do with.
SessionChanging == {"create", "rename", "delete"}
SessionTokens == {"other tab", "taken", "late list"}
SessionExcuses == SessionTokens \cup {"stale list"}

\* What the answers bring.
SessionBrought ==
  /\ \A k \in DOMAIN net :
       /\ DOMAIN net[k] = {"arg", "stage", "got"}
       /\ net[k].stage = "answered" => net[k].got.code \in {200, 401}
       /\ k \in {"create", "list created"} => net[k].arg.what = 3
  /\ \A k \in OnSession!Lists : OnSession!Ok(k) => IsList(net[k].got.value)
  /\ OnSession!Ok("login") => net["login"].got.value \in 1..Bound.token
  /\ OnSession!Ok("me") => net["me"].got.value = OnSession!UserOf(net["me"].arg.token)
SessionServer ==
  DOMAIN srv = {"ws", "issued", "expired"} /\ IsList(srv.ws) /\ srv.issued \in 1..Bound.token

\* Whoever is not signed in is nobody, and has no list.
Nameless(u, happened) == u.auth # "in" => u.user = OnSession!Nobody /\ ("late list" \notin happened => u.list = <<>>)

\* A sign-in is about the token there is; whoever is signed in, or made a change,
\* has or had one.
Tokened(requests, u) ==
  /\ "me" \in DOMAIN requests =>
       /\ u.auth # "in" /\ u.token # OnSession!NoToken /\ requests["me"].arg.token = u.token
       /\ u.auth = "anonymous" => u.busy = "login"
  /\ "login" \in DOMAIN requests => u.auth = "anonymous" /\ "me" \notin DOMAIN requests /\ u.busy = "login"
  /\ u.auth = "in" => u.token # OnSession!NoToken /\ OnSession!UserOf(u.token) = u.user
  /\ \A k \in SessionChanging \cap DOMAIN requests : requests[k].arg.token # OnSession!NoToken

\* When no list is read and nothing about the workspaces is changing, the list is
\* theirs, and so is the page.
Rested(requests, u) ==
  u.auth = "in" /\ (OnSession!Lists \cup SessionChanging) \cap DOMAIN requests = {} =>
    u.list = OnSession!Sees(u.user) /\ Fits(u)

SessionShow ==
  /\ IsShell(ui) /\ SessionBrought /\ SessionServer
  /\ ui.auth = "loading" => DOMAIN net = {"me"} /\ ui.path # OnSession!Login
  /\ ui.auth = "anonymous" => ui.path = OnSession!Login
  /\ Nameless(ui, noise)
  /\ noise \cap SessionTokens = {} => Tokened(net, ui)
  /\ noise \cap SessionExcuses = {} => Rested(net, ui)

\* It holds when the page opens.
LEMMA SessionShowInit == OnSession!Init => SessionShow
<1> SUFFICES ASSUME OnSession!Init PROVE SessionShow
  OBVIOUS
<1>0. Bound.token \in Nat /\ 1 \in 0..Bound.token /\ 0 \in 0..Bound.token /\ 1 \in 1..Bound.token
  BY BoundAssumption
<1>1. SessionServer
  <2>1. srv = [ws |-> [w \in {1, 2} |-> OnSession!FirstSlug(w)], issued |-> 1, expired |-> {}]
    BY DEF OnSession!Init
  <2>2. IsList([w \in {1, 2} |-> OnSession!FirstSlug(w)])
    BY DEF IsList
  <2> QED
    BY <1>0, <2>1, <2>2 DEF SessionServer
<1>2. noise = {}
  BY DEF OnSession!Init
<1>3. PICK path \in {OnSession!Workspaces, OnSession!Page("a")} :
       \/ /\ ui = [auth |-> "loading", user |-> OnSession!Nobody, token |-> 1, kept |-> 2, path |-> path, next |-> OnSession!Workspaces,
                   list |-> <<>>, current |-> OnSession!NoWs, busy |-> "no"]
          /\ net = OnSession!With(<<>>, "me", [token |-> 1, login |-> FALSE])
       \/ /\ ui = [auth |-> "anonymous", user |-> OnSession!Nobody, token |-> OnSession!NoToken, kept |-> OnSession!NoWs,
                   path |-> OnSession!Login, next |-> path, list |-> <<>>, current |-> OnSession!NoWs, busy |-> "no"]
          /\ net = <<>>
  BY Zenon DEF OnSession!Init
<1>4. IsPath(path) /\ path # OnSession!Login
  <2>1. path.at # OnSession!Login.at
    BY SessionPaths DEF OnSession!Page
  <2> QED
    BY <2>1, SessionPaths
<1>5. CASE /\ ui = [auth |-> "loading", user |-> OnSession!Nobody, token |-> 1, kept |-> 2, path |-> path, next |-> OnSession!Workspaces,
                   list |-> <<>>, current |-> OnSession!NoWs, busy |-> "no"]
           /\ net = OnSession!With(<<>>, "me", [token |-> 1, login |-> FALSE])
  <2>1. DOMAIN net = {"me"} /\ net["me"] = [arg |-> [token |-> 1, login |-> FALSE], stage |-> "sent", got |-> "nothing"]
    BY <1>5, DOMAIN <<>> = {} DEF OnSession!With
  <2>2. IsShell(ui)
    BY <1>0, <1>4, <1>5, SessionPaths DEF IsShell, OnSession!NoWs
  <2>3. SessionBrought
    BY <2>1 DEF SessionBrought, OnSession!Ok, OnSession!Answered, OnSession!Out
  <2>4. Nameless(ui, noise) /\ Tokened(net, ui) /\ Rested(net, ui)
    BY <1>5, <2>1 DEF Nameless, Tokened, Rested, OnSession!NoToken, SessionChanging
  <2> QED
    BY <1>1, <1>4, <1>5, <2>1, <2>2, <2>3, <2>4 DEF SessionShow
<1>6. CASE /\ ui = [auth |-> "anonymous", user |-> OnSession!Nobody, token |-> OnSession!NoToken, kept |-> OnSession!NoWs,
                   path |-> OnSession!Login, next |-> path, list |-> <<>>, current |-> OnSession!NoWs, busy |-> "no"]
           /\ net = <<>>
  <2>1. DOMAIN net = {}
    BY <1>6
  <2>2. IsShell(ui)
    BY <1>0, <1>4, <1>6, SessionPaths DEF IsShell, OnSession!NoWs, OnSession!NoToken
  <2>3. SessionBrought
    BY <2>1 DEF SessionBrought, OnSession!Ok, OnSession!Answered, OnSession!Out
  <2>4. Nameless(ui, noise) /\ Tokened(net, ui) /\ Rested(net, ui)
    BY <1>6, <2>1 DEF Nameless, Tokened, Rested
  <2> QED
    BY <1>1, <1>6, <2>1, <2>2, <2>3, <2>4 DEF SessionShow
<1> QED
  BY <1>3, <1>5, <1>6

\* It is what the page promises.
LEMMA SessionShowEnough == SessionShow => OnSession!ShowsServer /\ OnSession!TypeOK
<1> SUFFICES ASSUME SessionShow PROVE OnSession!ShowsServer /\ OnSession!TypeOK
  OBVIOUS
<1>1. OnSession!TypeOK
  BY DEF SessionShow, IsShell, IsPath, IsList, OnSession!TypeOK, OnSession!Known
<1>2. ui.auth = "anonymous" => ui.path = OnSession!Login /\ ("late list" \notin noise => ui.list = <<>>)
  BY DEF SessionShow, Nameless
<1>3. ui.auth = "in" /\ noise \cap {"late list", "other tab", "taken"} = {} => ui.token # OnSession!NoToken /\ OnSession!UserOf(ui.token) = ui.user
  BY DEF SessionShow, Tokened, SessionTokens
<1>4. ASSUME ui.auth = "in", DOMAIN net = {}, noise \cap {"stale list", "late list", "other tab", "taken"} = {}
      PROVE  ui.list = OnSession!Sees(ui.user) /\ (ui.path.at = "w" /\ ui.list # <<>> => OnSession!Shown # {})
  <2>1. ui.list = OnSession!Sees(ui.user) /\ Fits(ui)
    BY <1>4 DEF SessionShow, SessionExcuses, SessionTokens, Rested
  <2> QED
    BY <2>1 DEF Fits, OnSession!Shown, OnSession!Known
<1> QED
  BY <1>1, <1>2, <1>3, <1>4 DEF OnSession!ShowsServer, OnSession!Quiet

\* What is kept needs of the requests left and of the state that comes.
Suits(requests, v, happened) ==
  /\ IsShell(v) /\ v.auth # "loading" /\ Nameless(v, happened)
  /\ v.auth = "anonymous" /\ happened \cap SessionTokens = {} => v.path = OnSession!Login
  /\ happened \cap SessionTokens = {} => Tokened(requests, v)
  /\ happened \cap SessionExcuses = {} /\ v.auth = "in" => ui.auth # "in" \/ Rested(requests, v)

\* Requests some of which are over.
Some(requests) == \A k \in DOMAIN requests : k \in DOMAIN net /\ requests[k] = net[k]

\* What the effects add to the requests: reads of the list.
LEMMA SessionReads ==
  ASSUME NEW requests, NEW u
  PROVE  LET entered == u.auth = "in" /\ ui.auth # "in"
             mounted == u.auth = "in" /\ u.path = OnSession!Workspaces /\ (ui.path # OnSession!Workspaces \/ entered)
             read == IF entered THEN OnSession!Ask(requests, u, "list signed in", {}) ELSE requests
             all == IF mounted THEN OnSession!Ask(read, u, "list mounted", {}) ELSE read
         IN  /\ \A k \in DOMAIN requests : k \in DOMAIN all
             /\ \A k \in DOMAIN all :
                  \/ k \in DOMAIN requests /\ all[k] = requests[k]
                  \/ k \in {"list signed in", "list mounted"} /\ DOMAIN all[k] = {"arg", "stage", "got"} /\ all[k].stage = "sent"
             /\ entered => "list signed in" \in DOMAIN all
<1> DEFINE entered == u.auth = "in" /\ ui.auth # "in"
           mounted == u.auth = "in" /\ u.path = OnSession!Workspaces /\ (ui.path # OnSession!Workspaces \/ entered)
           read == IF entered THEN OnSession!Ask(requests, u, "list signed in", {}) ELSE requests
           all == IF mounted THEN OnSession!Ask(read, u, "list mounted", {}) ELSE read
<1> HIDE DEF entered, mounted
<1>1. /\ \A k \in DOMAIN requests : k \in DOMAIN read
      /\ \A k \in DOMAIN read :
           \/ k \in DOMAIN requests /\ read[k] = requests[k]
           \/ k = "list signed in" /\ DOMAIN read[k] = {"arg", "stage", "got"} /\ read[k].stage = "sent"
      /\ entered => "list signed in" \in DOMAIN read
  BY DEF OnSession!Ask, OnSession!With
<1> HIDE DEF read
<1>2. /\ \A k \in DOMAIN read : k \in DOMAIN all
      /\ \A k \in DOMAIN all :
           \/ k \in DOMAIN read /\ all[k] = read[k]
           \/ k = "list mounted" /\ DOMAIN all[k] = {"arg", "stage", "got"} /\ all[k].stage = "sent"
  BY DEF OnSession!Ask, OnSession!With
<1> HIDE DEF all
<1>3. /\ \A k \in DOMAIN requests : k \in DOMAIN all
      /\ \A k \in DOMAIN all :
           \/ k \in DOMAIN requests /\ all[k] = requests[k]
           \/ k \in {"list signed in", "list mounted"} /\ DOMAIN all[k] = {"arg", "stage", "got"} /\ all[k].stage = "sent"
      /\ entered => "list signed in" \in DOMAIN all
  BY <1>1, <1>2
<1> QED
  BY <1>3 DEF entered, mounted, read, all

\* Where nobody is signed in there is but the login page; else what comes is there.
LEMMA SessionArrives ==
  ASSUME NEW requests, NEW v, IsShell(v), OnSession!Becomes(requests, v)
  PROVE  /\ IsShell(ui') /\ Keeps(v, ui')
         /\ v.auth = "anonymous" => ui'.path = OnSession!Login
         /\ v.auth # "anonymous" \/ v.path = OnSession!Login => ui' = v
         /\ \A k \in DOMAIN requests : k \in DOMAIN net'
         /\ \A k \in DOMAIN net' :
              \/ k \in DOMAIN requests /\ net'[k] = requests[k]
              \/ k \in {"list signed in", "list mounted"} /\ DOMAIN net'[k] = {"arg", "stage", "got"} /\ net'[k].stage = "sent"
         /\ v.auth = "in" /\ ui.auth # "in" => "list signed in" \in DOMAIN net'
<1> DEFINE there == OnSession!At(v, OnSession!Login)
           u == IF v.auth = "anonymous" /\ v.path # OnSession!Login THEN [there EXCEPT !.next = v.path] ELSE v
           entered == u.auth = "in" /\ ui.auth # "in"
           mounted == u.auth = "in" /\ u.path = OnSession!Workspaces /\ (ui.path # OnSession!Workspaces \/ entered)
           read == IF entered THEN OnSession!Ask(requests, u, "list signed in", {}) ELSE requests
           all == IF mounted THEN OnSession!Ask(read, u, "list mounted", {}) ELSE read
<1>1. ui' = u /\ net' = all
  BY DEF OnSession!Becomes
<1>2. IsShell(there) /\ Keeps(v, there) /\ there.path = OnSession!Login
  BY ShellAt, SessionPaths
<1> HIDE DEF there
<1>3. IsPath(v.path)
  BY DEF IsShell
<1>4. /\ IsShell(u) /\ Keeps(v, u) /\ (v.auth = "anonymous" => u.path = OnSession!Login)
      /\ v.auth # "anonymous" \/ v.path = OnSession!Login => u = v
  BY <1>2, <1>3 DEF IsShell, Keeps
<1> HIDE DEF u
<1>5. /\ \A k \in DOMAIN requests : k \in DOMAIN all
      /\ \A k \in DOMAIN all :
           \/ k \in DOMAIN requests /\ all[k] = requests[k]
           \/ k \in {"list signed in", "list mounted"} /\ DOMAIN all[k] = {"arg", "stage", "got"} /\ all[k].stage = "sent"
      /\ entered => "list signed in" \in DOMAIN all
  BY SessionReads
<1>6. entered <=> v.auth = "in" /\ ui.auth # "in"
  BY <1>4 DEF Keeps
<1> HIDE DEF all, entered
<1> QED
  BY <1>1, <1>4, <1>5, <1>6

\* Reads of the list change nothing about the other requests.
LEMMA SessionAdds ==
  ASSUME SessionBrought,
         \A k \in DOMAIN net' :
           \/ k \in DOMAIN net /\ net'[k] = net[k]
           \/ k \in {"list signed in", "list mounted"} /\ DOMAIN net'[k] = {"arg", "stage", "got"} /\ net'[k].stage = "sent"
  PROVE  SessionBrought'
<1>1. \A k \in DOMAIN net : DOMAIN net[k] = {"arg", "stage", "got"}
  BY DEF SessionBrought
<1>2. \A k \in DOMAIN net : net[k].stage = "answered" => net[k].got.code \in {200, 401}
  BY DEF SessionBrought
<1>3. \A k \in DOMAIN net : k \in {"create", "list created"} => net[k].arg.what = 3
  BY DEF SessionBrought
<1>4. /\ \A k \in OnSession!Lists : OnSession!Ok(k) => IsList(net[k].got.value)
      /\ OnSession!Ok("login") => net["login"].got.value \in 1..Bound.token
      /\ OnSession!Ok("me") => net["me"].got.value = OnSession!UserOf(net["me"].arg.token)
  BY DEF SessionBrought
<1>5. \A k \in DOMAIN net' : DOMAIN net'[k] = {"arg", "stage", "got"}
  BY <1>1
<1>6. \A k \in DOMAIN net' : net'[k].stage = "answered" => k \in DOMAIN net /\ net'[k] = net[k]
  OBVIOUS
<1>7. ASSUME NEW k \in DOMAIN net', net'[k].stage = "answered" PROVE net'[k].got.code \in {200, 401}
  <2>1. k \in DOMAIN net /\ net'[k] = net[k]
    BY <1>6, <1>7
  <2>2. net[k].got.code \in {200, 401}
    <3>1. net[k].stage = "answered"
      BY <1>7, <2>1
    <3>2. k \in DOMAIN net
      BY <2>1
    <3> QED
      BY <1>2, <3>1, <3>2, Zenon
  <2> QED
    BY <2>1, <2>2
<1>8. \A k \in DOMAIN net' : k \in {"create", "list created"} => net'[k].arg.what = 3
  BY <1>3
<1>9. /\ \A k \in OnSession!Lists : OnSession!Ok(k)' => IsList(net'[k].got.value)
      /\ OnSession!Ok("login")' => net'["login"].got.value \in 1..Bound.token
      /\ OnSession!Ok("me")' => net'["me"].got.value = OnSession!UserOf(net'["me"].arg.token)
  <2>1. ASSUME NEW k, OnSession!Ok(k)' PROVE OnSession!Ok(k) /\ net'[k] = net[k]
    <3>1. k \in DOMAIN net' /\ net'[k].stage = "answered" /\ net'[k].got.code = 200
      BY <2>1 DEF OnSession!Ok, OnSession!Answered, OnSession!Out
    <3>2. k \in DOMAIN net /\ net'[k] = net[k]
      BY <1>6, <3>1
    <3> QED
      BY <3>1, <3>2 DEF OnSession!Ok, OnSession!Answered, OnSession!Out
  <2>2. ASSUME NEW k \in OnSession!Lists, OnSession!Ok(k)' PROVE IsList(net'[k].got.value)
    BY <1>4, <2>1, <2>2
  <2>3. ASSUME OnSession!Ok("login")' PROVE net'["login"].got.value \in 1..Bound.token
    BY <1>4, <2>1, <2>3
  <2>4. ASSUME OnSession!Ok("me")' PROVE net'["me"].got.value = OnSession!UserOf(net'["me"].arg.token)
    <3>1. OnSession!Ok("me") /\ net'["me"] = net["me"]
      BY <2>1, <2>4
    <3> QED
      BY <1>4, <3>1
  <2> QED
    BY <2>2, <2>3, <2>4
<1> QED
  BY <1>5, <1>7, <1>8, <1>9, ZenonT(60) DEF SessionBrought

\* So it is kept when a state comes that suits the requests left.
LEMMA SessionBecomes ==
  ASSUME SessionShow, NEW requests, NEW v, OnSession!Becomes(requests, v), Some(requests),
         Suits(requests, v, noise'),
         srv' = srv, noise \subseteq noise'
  PROVE  SessionShow'
<1>0. /\ IsShell(ui') /\ Keeps(v, ui')
      /\ v.auth = "anonymous" => ui'.path = OnSession!Login
      /\ v.auth # "anonymous" \/ v.path = OnSession!Login => ui' = v
      /\ \A k \in DOMAIN requests : k \in DOMAIN net'
      /\ \A k \in DOMAIN net' :
           \/ k \in DOMAIN requests /\ net'[k] = requests[k]
           \/ k \in {"list signed in", "list mounted"} /\ DOMAIN net'[k] = {"arg", "stage", "got"} /\ net'[k].stage = "sent"
      /\ v.auth = "in" /\ ui.auth # "in" => "list signed in" \in DOMAIN net'
  BY SessionArrives DEF Suits
<1>1. \A k \in DOMAIN net' :
        \/ k \in DOMAIN net /\ net'[k] = net[k]
        \/ k \in {"list signed in", "list mounted"} /\ DOMAIN net'[k] = {"arg", "stage", "got"} /\ net'[k].stage = "sent"
  BY <1>0 DEF Some
<1>a. SessionServer'
  BY DEF SessionShow, SessionServer
<1>b. SessionBrought'
  BY <1>1, SessionAdds DEF SessionShow
<1>2. SessionBrought' /\ SessionServer'
  BY <1>a, <1>b
<1>3. ui'.auth # "loading" /\ Nameless(ui', noise')
  BY <1>0 DEF Suits, Keeps, Nameless
<1>4. ASSUME noise' \cap SessionTokens = {} PROVE Tokened(net', ui')
  <2>1. ui' = v /\ Tokened(requests, v)
    BY <1>0, <1>4 DEF Suits
  <2>2. \A k \in {"me", "login"} \cup SessionChanging : k \in DOMAIN net' => k \in DOMAIN requests /\ net'[k] = requests[k]
    BY <1>0 DEF SessionChanging
  <2> QED
    BY <2>1, <2>2 DEF Tokened
<1>5. ASSUME noise' \cap SessionExcuses = {} PROVE Rested(net', ui')
  <2>1. ui' = v
    BY <1>0, <1>5 DEF Suits, SessionExcuses
  <2>2. CASE v.auth = "in" /\ ui.auth # "in"
    BY <1>0, <2>2 DEF Rested, OnSession!Lists
  <2>3. CASE v.auth = "in" /\ ui.auth = "in"
    <3>1. Rested(requests, v)
      BY <1>5, <2>3 DEF Suits
    <3>3. (OnSession!Lists \cup SessionChanging) \cap DOMAIN net' = {} => (OnSession!Lists \cup SessionChanging) \cap DOMAIN requests = {}
      BY <1>0
    <3> QED
      BY <2>1, <3>1, <3>3 DEF Rested
  <2>4. CASE v.auth # "in"
    BY <2>1, <2>4 DEF Rested
  <2> QED
    BY <2>2, <2>3, <2>4
<1>6. Rested(net', ui') <=> Rested(net, ui)'
  BY DEF Rested, OnSession!Sees, OnSession!Member, OnSession!Restrict
<1> QED
  BY <1>0, <1>2, <1>3, <1>4, <1>5, <1>6 DEF SessionShow

\* A sign-in that goes on keeps its form.
Formal(requests, v, happened) ==
  ui.auth = "anonymous" /\ happened \cap SessionTokens = {} =>
    v.path = OnSession!Login /\ ({"me", "login"} \cap DOMAIN requests # {} /\ ui.busy = "login" => v.busy = "login")

\* The session goes on.
LEMMA SessionGoesOn ==
  ASSUME SessionShow, ui.auth # "loading", NEW requests, NEW v, NEW happened, Some(requests), IsShell(v), Keeps(ui, v),
         Formal(requests, v, happened), noise \subseteq happened,
         happened \cap SessionExcuses = {} /\ v.auth = "in" => Rested(requests, v)
  PROVE  Suits(requests, v, happened)
<1>1. Nameless(v, happened)
  BY DEF SessionShow, Nameless, Keeps
<1>2. ASSUME happened \cap SessionTokens = {} PROVE Tokened(requests, v)
  <2>1. Tokened(net, ui)
    BY <1>2 DEF SessionShow
  <2>2. v.auth = "anonymous" => v.path = OnSession!Login /\ ({"me", "login"} \cap DOMAIN requests # {} /\ ui.busy = "login" => v.busy = "login")
    BY <1>2 DEF Keeps, Formal
  <2> QED
    BY <2>1, <2>2 DEF Tokened, Some, Keeps, SessionChanging
<1> QED
  BY <1>1, <1>2 DEF Suits, Keeps, Formal

\* The session is over.
LEMMA SessionEnds ==
  ASSUME SessionShow, NEW requests, NEW v, NEW happened, Some(requests), IsShell(v), v.auth = "anonymous", v.path = OnSession!Login,
         IF ui.auth = "anonymous" THEN v.user = ui.user /\ v.list = ui.list ELSE v.user = OnSession!Nobody /\ v.list = <<>>,
         Formal(requests, v, happened), noise \subseteq happened,
         "me" \in DOMAIN requests /\ happened \cap SessionTokens = {} => v.token = ui.token /\ ui.auth # "loading"
  PROVE  Suits(requests, v, happened)
<1>1. Nameless(v, happened)
  BY DEF SessionShow, Nameless
<1>2. ASSUME happened \cap SessionTokens = {} PROVE Tokened(requests, v)
  <2>1. Tokened(net, ui)
    BY <1>2 DEF SessionShow
  <2>2. ui.auth \in {"loading", "anonymous", "in"}
    BY DEF SessionShow, IsShell
  <2>3. ui.auth = "anonymous" /\ {"me", "login"} \cap DOMAIN requests # {} /\ ui.busy = "login" => v.busy = "login"
    BY <1>2 DEF Formal
  <2> QED
    BY <1>2, <2>1, <2>2, <2>3 DEF Tokened, Some, SessionChanging
<1> QED
  BY <1>1, <1>2 DEF Suits

\* Requests that are not waited for any more.
LEMMA SessionClosed == \A k : Some(OnSession!Closed(k)) /\ DOMAIN OnSession!Closed(k) = DOMAIN net \ {k}
  BY DEF Some, OnSession!Closed, OnSession!Without, OnSession!Restrict

\* Someone else's requests do not take the token of a sign-in, or it is known.
LEMMA SessionDrops ==
  ASSUME SessionShow, NEW k \in DOMAIN net, OnSession!Refused(k), NEW happened, OnSession!With401(k, noise) \subseteq happened
  PROVE  LET v == OnSession!Dropped(ui, k)
         IN  /\ IsShell(v)
             /\ \/ v = ui /\ net[k].arg.token = OnSession!NoToken
                \/ /\ v.auth = "anonymous" /\ v.path = OnSession!Login
                   /\ IF ui.auth = "anonymous" THEN v.user = ui.user /\ v.list = ui.list ELSE v.user = OnSession!Nobody /\ v.list = <<>>
                   /\ ui.path = OnSession!Login => v.busy = ui.busy
                   /\ k # "me" /\ "me" \in DOMAIN net /\ happened \cap SessionTokens = {} => v.token = ui.token
<1>0. IsShell(ui)
  BY DEF SessionShow
<1>1. CASE net[k].arg.token = OnSession!NoToken
  BY <1>0, <1>1 DEF OnSession!Dropped
<1>2. CASE net[k].arg.token # OnSession!NoToken
  <2> DEFINE out == [ui EXCEPT !.token = OnSession!NoToken]
  <2>1. IsShell(out) /\ out.auth = ui.auth /\ out.user = ui.user /\ out.list = ui.list /\ out.path = ui.path /\ out.busy = ui.busy
    <3>1. 0 \in 0..Bound.token
      BY BoundAssumption
    <3> QED
      BY <1>0, <3>1 DEF IsShell, OnSession!NoToken
  <2>2. OnSession!Dropped(ui, k) = OnSession!Anonymous(out)
    BY <1>2 DEF OnSession!Dropped
  <2> HIDE DEF out
  <2>3. k # "me" /\ "me" \in DOMAIN net /\ happened \cap SessionTokens = {} => ui.token = OnSession!NoToken
    BY <1>2 DEF OnSession!With401, OnSession!Empties, OnSession!Out, SessionTokens
  <2>4. OnSession!Anonymous(out).token = OnSession!NoToken
    <3>1. out.token = OnSession!NoToken
      BY <1>0 DEF out, IsShell
    <3> QED
      BY <2>1, <3>1, ShellAnonymous
  <2> DEFINE w == OnSession!Anonymous(out)
  <2>5. /\ IsShell(w) /\ w.auth = "anonymous" /\ w.path = OnSession!Login /\ w.token = out.token
        /\ IF out.auth = "anonymous" THEN Keeps(out, w) ELSE w.user = OnSession!Nobody /\ w.list = <<>>
        /\ out.path = OnSession!Login => w.busy = out.busy
    BY <2>1, ShellAnonymous
  <2>6. OnSession!Dropped(ui, k) = w /\ w.token = OnSession!NoToken
    BY <2>2, <2>4
  <2> HIDE DEF w
  <2> QED
    BY <2>1, <2>3, <2>5, <2>6 DEF Keeps
<1> QED
  BY <1>1, <1>2

\* Whose page and list are as they were is at rest as before.
LEMMA SessionRests ==
  ASSUME NEW requests, NEW u, NEW v, Rested(requests, u), Keeps(u, v), Fits(u) => Fits(v)
  PROVE  Rested(requests, v)
  BY DEF Rested, Keeps

\* While it is not known who is there, nothing else is asked.
LEMMA SessionLoads == ASSUME SessionShow, NEW k \in DOMAIN net, k # "me" PROVE ui.auth # "loading"
  BY DEF SessionShow

\* A request that did not do what it was for; a 401 may end the session.
LEMMA SessionFails ==
  ASSUME SessionShow, NEW k \in DOMAIN net, k # "me", NEW v, NEW x, x = "login" => k = "login",
         LET w == IF OnSession!Refused(k) THEN OnSession!Dropped(ui, k) ELSE ui IN v = w \/ v = OnSession!Freed(w, x),
         OnSession!Becomes(OnSession!Closed(k), v), srv' = srv, OnSession!With401(k, noise) \subseteq noise',
         /\ ui.auth = "in" /\ noise' \cap SessionExcuses = {} /\ (OnSession!Refused(k) => net[k].arg.token = OnSession!NoToken)
              => Rested(OnSession!Closed(k), ui)
  PROVE  SessionShow'
<1> DEFINE w == IF OnSession!Refused(k) THEN OnSession!Dropped(ui, k) ELSE ui
           r == OnSession!Closed(k)
<1>1. ui.auth # "loading" /\ IsShell(ui) /\ Some(r) /\ DOMAIN r = DOMAIN net \ {k}
  BY SessionLoads, SessionClosed DEF SessionShow
<1>2. noise \subseteq noise'
  BY DEF OnSession!With401
<1>3. /\ IsShell(w)
      /\ \/ w = ui /\ (OnSession!Refused(k) => net[k].arg.token = OnSession!NoToken)
         \/ /\ w.auth = "anonymous" /\ w.path = OnSession!Login
            /\ IF ui.auth = "anonymous" THEN w.user = ui.user /\ w.list = ui.list ELSE w.user = OnSession!Nobody /\ w.list = <<>>
            /\ ui.path = OnSession!Login => w.busy = ui.busy
            /\ "me" \in DOMAIN net /\ noise' \cap SessionTokens = {} => w.token = ui.token
  <2>1. CASE OnSession!Refused(k)
    BY <2>1, SessionDrops
  <2>2. CASE ~OnSession!Refused(k)
    BY <1>1, <2>2
  <2> QED
    BY <2>1, <2>2
<1>4. v = w \/ v = OnSession!Freed(w, x)
  OBVIOUS
<1> HIDE DEF w
<1>5. IsShell(v) /\ Keeps(w, v) /\ v.path = w.path /\ (Fits(w) => Fits(v)) /\ (x # "login" => Stays(w, v)) /\ (v = w \/ x # "login" \/ k = "login")
  <2>1. CASE v = w
    BY <1>3, <2>1 DEF Keeps, Stays
  <2>2. CASE v = OnSession!Freed(w, x)
    BY <1>3, <2>2, ShellFreed
  <2> QED
    BY <1>4, <2>1, <2>2
<1>a. ui.auth = "anonymous" => ui.path = OnSession!Login
  BY DEF SessionShow
<1>b. k = "login" /\ noise' \cap SessionTokens = {} => {"me", "login"} \cap DOMAIN r = {}
  <2>1. noise' \cap SessionTokens = {} => Tokened(net, ui)
    BY <1>2 DEF SessionShow
  <2> QED
    BY <1>1, <2>1 DEF Tokened
<1> HIDE DEF r
<1>6. Formal(r, v, noise')
  <2>1. ui.auth = "anonymous" => w.path = OnSession!Login /\ w.busy = ui.busy
    BY <1>3, <1>a
  <2> QED
    BY <1>5, <1>b, <2>1 DEF Formal, Stays
<1>7. CASE w = ui /\ (OnSession!Refused(k) => net[k].arg.token = OnSession!NoToken)
  <2>1. noise' \cap SessionExcuses = {} /\ v.auth = "in" => Rested(r, v)
    <3>1. noise' \cap SessionExcuses = {} /\ v.auth = "in" => Rested(r, ui)
      BY <1>5, <1>7 DEF Keeps, r
    <3> QED
      BY <1>5, <1>7, <3>1, SessionRests
  <2>2. Suits(r, v, noise')
    BY <1>1, <1>2, <1>5, <1>6, <1>7, <2>1, SessionGoesOn
  <2> QED
    BY <1>1, <1>2, <2>2, SessionBecomes DEF r
<1>8. CASE ~(w = ui /\ (OnSession!Refused(k) => net[k].arg.token = OnSession!NoToken))
  <2>1. /\ v.auth = "anonymous" /\ v.path = OnSession!Login
        /\ IF ui.auth = "anonymous" THEN v.user = ui.user /\ v.list = ui.list ELSE v.user = OnSession!Nobody /\ v.list = <<>>
        /\ "me" \in DOMAIN net /\ noise' \cap SessionTokens = {} => v.token = ui.token
    BY <1>3, <1>5, <1>8 DEF Keeps
  <2>2. "me" \in DOMAIN r => "me" \in DOMAIN net
    BY <1>1 DEF Some
  <2>3. Suits(r, v, noise')
    BY <1>1, <1>2, <1>5, <1>6, <2>1, <2>2, SessionEnds
  <2> QED
    BY <1>1, <1>2, <2>3, SessionBecomes DEF r
<1> QED
  BY <1>7, <1>8

\* What becomes of the requests when one is sent with the token there is.
LEMMA SessionAsks ==
  ASSUME NEW requests, NEW u, NEW k, NEW what
  PROVE  /\ \A j : j \in DOMAIN OnSession!Ask(requests, u, k, what) <=> j \in DOMAIN requests \/ j = k
         /\ \A j \in DOMAIN requests : j # k => OnSession!Ask(requests, u, k, what)[j] = requests[j]
         /\ LET request == OnSession!Ask(requests, u, k, what)[k]
            IN  DOMAIN request = {"arg", "stage", "got"} /\ request.stage = "sent" /\ request.arg.token = u.token /\ request.arg.what = what
  BY DEF OnSession!Ask, OnSession!With

\* A request that is sent or gone has brought nothing.
LEMMA SessionBrings ==
  ASSUME SessionBrought, NEW k,
         \A j \in DOMAIN net' : j # k => j \in DOMAIN net /\ net'[j] = net[j],
         k \in DOMAIN net' => DOMAIN net'[k] = {"arg", "stage", "got"} /\ net'[k].stage # "answered",
         k \in DOMAIN net' /\ k \in {"create", "list created"} => net'[k].arg.what = 3
  PROVE  SessionBrought'
<1>1. ASSUME NEW j \in DOMAIN net', j # k
      PROVE  /\ j \in DOMAIN net /\ net'[j] = net[j] /\ DOMAIN net'[j] = {"arg", "stage", "got"}
             /\ j \in {"create", "list created"} => net'[j].arg.what = 3
  <2>1. j \in DOMAIN net /\ net'[j] = net[j]
    BY <1>1
  <2>2. DOMAIN net[j] = {"arg", "stage", "got"} /\ (j \in {"create", "list created"} => net[j].arg.what = 3)
    BY <2>1 DEF SessionBrought
  <2> QED
    BY <2>1, <2>2
<1>2. ASSUME NEW j \in DOMAIN net', net'[j].stage = "answered" PROVE net'[j].got.code \in {200, 401}
  <2>1. j \in DOMAIN net /\ net'[j] = net[j]
    BY <1>2
  <2>2. net[j].stage = "answered"
    BY <1>2, <2>1
  <2>3. net[j].got.code \in {200, 401}
    BY <2>1, <2>2 DEF SessionBrought
  <2> QED
    BY <2>1, <2>3
<1>3. ASSUME NEW j, OnSession!Ok(j)' PROVE OnSession!Ok(j) /\ net'[j] = net[j]
  <2>1. j \in DOMAIN net' /\ net'[j].stage = "answered" /\ net'[j].got.code = 200
    BY <1>3 DEF OnSession!Ok, OnSession!Answered, OnSession!Out
  <2>2. j \in DOMAIN net /\ net'[j] = net[j]
    BY <2>1, ZenonT(60)
  <2> QED
    BY <2>1, <2>2 DEF OnSession!Ok, OnSession!Answered, OnSession!Out
<1>4. ASSUME NEW j \in OnSession!Lists, OnSession!Ok(j)' PROVE IsList(net'[j].got.value)
  BY <1>3, <1>4, ZenonT(60) DEF SessionBrought
<1>5. ASSUME OnSession!Ok("login")' PROVE net'["login"].got.value \in 1..Bound.token
  BY <1>3, <1>5 DEF SessionBrought
<1>6. ASSUME OnSession!Ok("me")' PROVE net'["me"].got.value = OnSession!UserOf(net'["me"].arg.token)
  <2>1. OnSession!Ok("me") /\ net'["me"] = net["me"]
    BY <1>3, <1>6
  <2> QED
    BY <2>1 DEF SessionBrought
<1>7. ASSUME NEW j \in DOMAIN net' PROVE DOMAIN net'[j] = {"arg", "stage", "got"}
  BY <1>1
<1>8. ASSUME NEW j \in DOMAIN net', j \in {"create", "list created"} PROVE net'[j].arg.what = 3
  <2>1. CASE j = k
    BY <1>8, <2>1
  <2>2. CASE j # k
    BY <1>1, <1>8, <2>2
  <2> QED
    BY <2>1, <2>2
<1> QED
  BY <1>2, <1>4, <1>5, <1>6, <1>7, <1>8, ZenonT(60) DEF SessionBrought

\* A click that sends a request.
LEMMA SessionSends ==
  ASSUME SessionShow, ui.auth # "loading", NEW k, NEW what, net' = OnSession!Ask(net, ui, k, what),
         k \notin OnSession!Lists \cup {"me"}, k = "create" => what = 3,
         IsShell(ui'), Keeps(ui, ui'), ui'.path = ui.path, ui.busy = "login" /\ ui.auth = "anonymous" => ui'.busy = "login",
         k = "login" => ui.auth = "anonymous" /\ ui'.busy = "login" /\ ui.busy = "no",
         k \in SessionChanging => ui.auth = "in", srv' = srv, noise' = noise
  PROVE  SessionShow'
<1>1. /\ \A j : j \in DOMAIN net' <=> j \in DOMAIN net \/ j = k
      /\ \A j \in DOMAIN net : j # k => net'[j] = net[j]
      /\ DOMAIN net'[k] = {"arg", "stage", "got"} /\ net'[k].stage = "sent" /\ net'[k].arg.token = ui.token /\ net'[k].arg.what = what
  BY SessionAsks
<1>2. SessionBrought' /\ SessionServer'
  <2>1. k # "list created"
    BY DEF OnSession!Lists
  <2>2. k \in DOMAIN net' => DOMAIN net'[k] = {"arg", "stage", "got"} /\ net'[k].stage # "answered"
    BY <1>1
  <2>a. net'[k].arg.what = what
    BY <1>1
  <2>3. k \in DOMAIN net' /\ k \in {"create", "list created"} => net'[k].arg.what = 3
    BY <2>1, <2>a
  <2>4. \A j \in DOMAIN net' : j # k => j \in DOMAIN net /\ net'[j] = net[j]
    BY <1>1
  <2>5. SessionBrought'
    BY <2>2, <2>3, <2>4, SessionBrings DEF SessionShow
  <2> QED
    BY <2>5 DEF SessionShow, SessionServer
<1>3. Nameless(ui', noise') /\ ui'.auth # "loading" /\ (ui'.auth = "anonymous" => ui'.path = OnSession!Login)
  BY DEF SessionShow, Nameless, Keeps
<1>4. ASSUME noise' \cap SessionTokens = {} PROVE Tokened(net', ui')
  <2>1. Tokened(net, ui)
    BY <1>4 DEF SessionShow
  <2>2. "me" \in DOMAIN net' => "me" \in DOMAIN net /\ net'["me"] = net["me"]
    BY <1>1
  <2>3. k = "login" => "me" \notin DOMAIN net
    BY <2>1 DEF Tokened
  <2>4. \A j \in SessionChanging \cap DOMAIN net' : net'[j].arg.token # OnSession!NoToken
    <3>1. k \in SessionChanging => ui.token # OnSession!NoToken
      BY <2>1 DEF Tokened
    <3> QED
      BY <1>1, <2>1, <3>1 DEF Tokened
  <2>5. "login" \in DOMAIN net' => ui'.auth = "anonymous" /\ "me" \notin DOMAIN net' /\ ui'.busy = "login"
    BY <1>1, <2>1, <2>2, <2>3 DEF Tokened, Keeps
  <2>6. "me" \in DOMAIN net' =>
          /\ ui'.auth # "in" /\ ui'.token # OnSession!NoToken /\ net'["me"].arg.token = ui'.token
          /\ ui'.auth = "anonymous" => ui'.busy = "login"
    BY <2>1, <2>2 DEF Tokened, Keeps
  <2> QED
    BY <2>1, <2>4, <2>5, <2>6 DEF Tokened, Keeps
<1>5. ASSUME noise' \cap SessionExcuses = {} PROVE Rested(net, ui)'
  <2>1. Rested(net, ui)
    BY <1>5 DEF SessionShow
  <2>2. Fits(ui')  <=> Fits(ui)
    BY DEF Fits, Keeps
  <2>3. OnSession!Sees(ui.user)' = OnSession!Sees(ui.user)
    BY DEF Keeps, OnSession!Sees, OnSession!Member, OnSession!Restrict
  <2> QED
    BY <1>1, <2>1, <2>2, <2>3 DEF Rested, Keeps
<1> QED
  BY <1>2, <1>3, <1>4, <1>5 DEF SessionShow

\* A request as it is sent.
LEMMA SessionRequest ==
  ASSUME NEW r, NEW token, NEW what, r = [arg |-> [token |-> token, what |-> what], stage |-> "sent", got |-> "nothing"]
  PROVE  r.arg.what = what /\ DOMAIN r = {"arg", "stage", "got"} /\ r.stage = "sent"
  OBVIOUS

\* The list is read after a change of the workspaces.
LEMMA SessionChanged ==
  ASSUME SessionShow, NEW k \in SessionChanging \cap DOMAIN net, NEW list \in OnSession!Lists, NEW what,
         k = "create" <=> list = "list created", k = "create" => what = net["create"].arg.what,
         net' = OnSession!Ask(OnSession!Closed(k), ui, list, what), OnSession!ChangeBack(k, list, what), OnSession!Ok(k)
  PROVE  SessionShow'
<1>0. /\ ui' = IF k = "rename" THEN OnSession!Freed(ui, k) ELSE ui
      /\ srv' = srv /\ noise \subseteq noise' /\ k # "login"
  BY DEF OnSession!ChangeBack, OnSession!With401, SessionChanging
<1>1. IsShell(ui') /\ Keeps(ui, ui') /\ Stays(ui, ui') /\ ui'.path = ui.path /\ ui.auth # "loading"
  <2>1. IsShell(ui)
    BY DEF SessionShow
  <2>2. Keeps(ui, ui) /\ Stays(ui, ui)
    BY DEF Keeps, Stays
  <2>3. k \in DOMAIN net /\ k # "me"
    BY DEF SessionChanging
  <2>4. ui.auth # "loading"
    BY <2>3, SessionLoads
  <2> QED
    BY <1>0, <2>1, <2>2, <2>4, ShellFreed
<1>2. DOMAIN OnSession!Closed(k) = DOMAIN net \ {k} /\ Some(OnSession!Closed(k))
  BY SessionClosed
<1>3. /\ \A j : j \in DOMAIN net' <=> j \in DOMAIN OnSession!Closed(k) \/ j = list
      /\ \A j \in DOMAIN OnSession!Closed(k) : j # list => net'[j] = OnSession!Closed(k)[j]
      /\ net'[list].arg.what = what /\ DOMAIN net'[list] = {"arg", "stage", "got"} /\ net'[list].stage = "sent"
  <2> DEFINE old == OnSession!Closed(k)
  <2>1. net' = OnSession!Ask(old, ui, list, what)
    OBVIOUS
  <2> HIDE DEF old
  <2>2. net' = [j \in DOMAIN old \cup {list} |->
                 IF j = list THEN [arg |-> [token |-> ui.token, what |-> what], stage |-> "sent", got |-> "nothing"] ELSE old[j]]
    BY <2>1 DEF OnSession!Ask, OnSession!With
  <2>3. /\ \A j : j \in DOMAIN net' <=> j \in DOMAIN old \/ j = list
        /\ \A j \in DOMAIN old : j # list => net'[j] = old[j]
        /\ net'[list] = [arg |-> [token |-> ui.token, what |-> what], stage |-> "sent", got |-> "nothing"]
    BY <2>2, Zenon
  <2>4. net'[list].arg.what = what /\ DOMAIN net'[list] = {"arg", "stage", "got"} /\ net'[list].stage = "sent"
    <3> DEFINE r == [arg |-> [token |-> ui.token, what |-> what], stage |-> "sent", got |-> "nothing"]
    <3>1. net'[list] = r
      BY <2>3
    <3>2. r.arg.what = what /\ DOMAIN r = {"arg", "stage", "got"} /\ r.stage = "sent"
      BY SessionRequest
    <3> HIDE DEF r
    <3> QED
      BY <3>1, <3>2
  <2> QED
    BY <2>3, <2>4 DEF old
<1>4. \A j \in DOMAIN net' : j # list => j \in DOMAIN net /\ j # k /\ net'[j] = net[j]
  BY <1>2, <1>3 DEF Some
<1>5. SessionBrought' /\ SessionServer'
  <2>1. list \in DOMAIN net' => DOMAIN net'[list] = {"arg", "stage", "got"} /\ net'[list].stage # "answered"
    BY <1>3
  <2>2. list # "create"
    BY DEF OnSession!Lists
  <2>3. k = "create" => net["create"].arg.what = 3
    <3>1. \A j \in DOMAIN net : j \in {"create", "list created"} => net[j].arg.what = 3
      BY DEF SessionShow, SessionBrought
    <3>2. k \in DOMAIN net
      OBVIOUS
    <3> QED
      BY <3>1, <3>2, Zenon
  <2>4. net'[list].arg.what = what
    BY <1>3, Zenon
  <2>5. list \in DOMAIN net' /\ list \in {"create", "list created"} => net'[list].arg.what = 3
    BY <2>2, <2>3, <2>4
  <2>6. SessionBrought'
    BY <1>4, <2>1, <2>5, SessionBrings DEF SessionShow
  <2> QED
    BY <1>0, <2>6 DEF SessionShow, SessionServer
<1>6. Nameless(ui', noise') /\ ui'.auth # "loading" /\ (ui'.auth = "anonymous" => ui'.path = OnSession!Login)
  BY <1>0, <1>1 DEF SessionShow, Nameless, Keeps
<1>7. ASSUME noise' \cap SessionTokens = {} PROVE Tokened(net', ui')
  <2>1. Tokened(net, ui)
    BY <1>0, <1>7 DEF SessionShow
  <2>2. \A j \in {"me", "login"} \cup SessionChanging : j \in DOMAIN net' => j \in DOMAIN net /\ net'[j] = net[j]
    BY <1>4 DEF SessionChanging, OnSession!Lists
  <2>3. ui.auth = "anonymous" /\ ui.busy = "login" => ui'.busy = "login"
    BY <1>1 DEF SessionShow, Stays
  <2>4. "login" \in DOMAIN net' => ui'.auth = "anonymous" /\ "me" \notin DOMAIN net' /\ ui'.busy = "login"
    BY <1>1, <2>1, <2>2, <2>3 DEF Tokened, Keeps
  <2>5. "me" \in DOMAIN net' =>
          /\ ui'.auth # "in" /\ ui'.token # OnSession!NoToken /\ net'["me"].arg.token = ui'.token
          /\ ui'.auth = "anonymous" => ui'.busy = "login"
    BY <1>1, <2>1, <2>2, <2>3 DEF Tokened, Keeps
  <2>6. \A j \in SessionChanging \cap DOMAIN net' : net'[j].arg.token # OnSession!NoToken
    BY <2>1, <2>2, ZenonT(60) DEF Tokened
  <2>7. ui'.auth = "in" => ui'.token # OnSession!NoToken /\ OnSession!UserOf(ui'.token) = ui'.user
    BY <1>1, <2>1 DEF Tokened, Keeps
  <2> QED
    BY <2>4, <2>5, <2>6, <2>7, Zenon DEF Tokened
<1>8. Rested(net, ui)'
  BY <1>3 DEF Rested
<1> QED
  BY <1>1, <1>5, <1>6, <1>7, <1>8 DEF SessionShow

\* The answer to a change of the workspaces.
LEMMA SessionChangeBack ==
  ASSUME SessionShow, NEW k \in SessionChanging, NEW list \in OnSession!Lists, NEW what,
         k = "create" <=> list = "list created", k = "create" => what = net["create"].arg.what,
         OnSession!ChangeBack(k, list, what)
  PROVE  SessionShow'
<1>1. k \in DOMAIN net /\ k \notin {"me", "login"}
  BY DEF OnSession!ChangeBack, OnSession!Returned, OnSession!Answered, OnSession!Rejected, OnSession!Out, SessionChanging
<1>2. CASE OnSession!Ok(k)
  <2>1. net' = OnSession!Ask(OnSession!Closed(k), ui, list, what)
    BY <1>2 DEF OnSession!ChangeBack
  <2> QED
    BY <1>1, <1>2, <2>1, SessionChanged
<1>3. CASE ~OnSession!Ok(k)
  <2> DEFINE w == IF OnSession!Refused(k) THEN OnSession!Dropped(ui, k) ELSE ui
             v == OnSession!Freed(w, k)
  <2>1. OnSession!Becomes(OnSession!Closed(k), v)
    BY <1>3 DEF OnSession!ChangeBack
  <2>2. srv' = srv /\ noise' = IF OnSession!Rejected(k) THEN noise \cup {"stale list"} ELSE OnSession!With401(k, noise)
    BY <1>3 DEF OnSession!ChangeBack
  <2>3. OnSession!With401(k, noise) \subseteq noise'
    BY <1>1, <2>2 DEF OnSession!With401, OnSession!Empties, OnSession!Rejected, OnSession!Refused, OnSession!Answered, SessionChanging
  <2>4. ui.auth = "in" /\ noise' \cap SessionExcuses = {} /\ (OnSession!Refused(k) => net[k].arg.token = OnSession!NoToken)
          => Rested(OnSession!Closed(k), ui)
    <3> SUFFICES ASSUME noise' \cap SessionExcuses = {}, OnSession!Refused(k) => net[k].arg.token = OnSession!NoToken PROVE FALSE
      OBVIOUS
    <3>1. ~OnSession!Rejected(k)
      BY <2>2 DEF SessionExcuses
    <3>2. net[k].stage = "answered"
      BY <3>1 DEF OnSession!ChangeBack, OnSession!Returned, OnSession!Answered
    <3>3. net[k].got.code \in {200, 401}
      BY <1>1, <3>2, Zenon DEF SessionShow, SessionBrought
    <3>4. OnSession!Refused(k)
      BY <1>1, <1>3, <3>2, <3>3 DEF OnSession!Ok, OnSession!Refused, OnSession!Answered, OnSession!Out
    <3>5. noise \cap SessionTokens = {}
      BY <2>2, <3>1 DEF OnSession!With401, SessionExcuses
    <3>6. Tokened(net, ui)
      BY <3>5 DEF SessionShow
    <3> QED
      BY <1>1, <3>4, <3>6 DEF Tokened
  <2> HIDE DEF v
  <2>5. v = w \/ v = OnSession!Freed(w, k)
    BY DEF v
  <2> QED
    BY <1>1, <2>1, <2>2, <2>3, <2>4, <2>5, SessionFails
<1> QED
  BY <1>2, <1>3

\* An answer about who it is.
LEMMA SessionMeBack == ASSUME SessionShow, OnSession!MeBack PROVE SessionShow'
<1> DEFINE r == OnSession!Closed("me")
           who == net["me"].got.value
           in == OnSession!SignedIn(ui, who)
           dropped == IF OnSession!Refused("me") THEN OnSession!Dropped(ui, "me") ELSE ui
           next == IF OnSession!Ok("me") THEN in ELSE IF OnSession!Refused("me") THEN OnSession!Anonymous(OnSession!Dropped(ui, "me")) ELSE OnSession!Anonymous(ui)
<1>1. /\ "me" \in DOMAIN net /\ srv' = srv /\ noise' = OnSession!With401("me", noise)
      /\ \/ OnSession!Becomes(r, OnSession!Freed(next, "login"))
         \/ OnSession!Ok("me") /\ OnSession!Becomes(r, OnSession!Selects(OnSession!At(in, ui.next)))
  BY DEF OnSession!MeBack, OnSession!Returned, OnSession!Answered, OnSession!Rejected, OnSession!Out
<1>2. noise \subseteq noise' /\ OnSession!With401("me", noise) \subseteq noise'
  BY <1>1 DEF OnSession!With401
<1>3. IsShell(ui) /\ Some(r) /\ DOMAIN r = DOMAIN net \ {"me"} /\ IsPath(ui.next) /\ (ui.auth = "anonymous" => ui.path = OnSession!Login)
  BY SessionClosed DEF SessionShow, IsShell
<1>4. noise' \cap SessionTokens = {} => Tokened(net, ui) /\ ui.auth # "in" /\ "login" \notin DOMAIN net
  BY <1>1, <1>2 DEF SessionShow, Tokened
<1>5. OnSession!Ok("me") => who = OnSession!UserOf(net["me"].arg.token)
  BY DEF SessionShow, SessionBrought
<1>6. IsShell(in) /\ in.auth = "in" /\ in.user = who /\ in.token = ui.token
  BY <1>3, ShellSignedIn
<1> HIDE DEF in, who, r
<1>7. ASSUME OnSession!Ok("me"), NEW v, IsShell(v), Keeps(in, v), OnSession!Becomes(r, v) PROVE SessionShow'
  <2>1. v.auth = "in" /\ v.user = who /\ v.token = ui.token
    BY <1>6, <1>7 DEF Keeps
  <2>2. ASSUME noise' \cap SessionTokens = {} PROVE Tokened(r, v) /\ ui.auth # "in"
    <3>1. /\ Tokened(net, ui) /\ ui.auth # "in" /\ "me" \notin DOMAIN r /\ "login" \notin DOMAIN r
          /\ ui.token # OnSession!NoToken /\ net["me"].arg.token = ui.token
      BY <1>1, <1>3, <1>4, <2>2 DEF Tokened
    <3>2. who = OnSession!UserOf(ui.token)
      BY <1>5, <1>7, <3>1
    <3>3. \A k \in SessionChanging \cap DOMAIN r : r[k].arg.token # OnSession!NoToken
      BY <1>3, <3>1 DEF Tokened, Some
    <3> QED
      BY <2>1, <3>1, <3>2, <3>3 DEF Tokened
  <2>3. Suits(r, v, noise')
    BY <1>7, <2>1, <2>2 DEF Suits, Nameless, SessionExcuses
  <2> QED
    BY <1>1, <1>2, <1>3, <1>7, <2>3, SessionBecomes
<1>8. CASE OnSession!Ok("me")
  <2>1. next = in
    BY <1>8
  <2>2. IsShell(OnSession!Freed(in, "login")) /\ Keeps(in, OnSession!Freed(in, "login"))
    BY <1>6, ShellFreed
  <2>3. IsShell(OnSession!At(in, ui.next)) /\ Keeps(in, OnSession!At(in, ui.next))
    BY <1>3, <1>6, ShellAt
  <2>4. IsShell(OnSession!Selects(OnSession!At(in, ui.next))) /\ Keeps(OnSession!At(in, ui.next), OnSession!Selects(OnSession!At(in, ui.next)))
    BY <2>3, ShellSelects
  <2>5. Keeps(in, OnSession!Selects(OnSession!At(in, ui.next)))
    BY <2>3, <2>4 DEF Keeps
  <2> HIDE DEF next
  <2> QED
    BY <1>1, <1>7, <1>8, <2>1, <2>2, <2>4, <2>5
<1>9. CASE ~OnSession!Ok("me")
  <2> DEFINE gone == OnSession!Anonymous(dropped)
             v == OnSession!Freed(gone, "login")
  <2>1. next = gone /\ OnSession!Becomes(r, v)
    BY <1>1, <1>9
  <2>2. /\ IsShell(dropped)
        /\ \/ dropped = ui
           \/ /\ dropped.auth = "anonymous"
              /\ IF ui.auth = "anonymous" THEN dropped.user = ui.user /\ dropped.list = ui.list
                 ELSE dropped.user = OnSession!Nobody /\ dropped.list = <<>>
    BY <1>1, <1>2, <1>3, SessionDrops
  <2> HIDE DEF dropped, next
  <2>3. /\ IsShell(gone) /\ gone.auth = "anonymous" /\ gone.path = OnSession!Login
        /\ IF dropped.auth = "anonymous" THEN Keeps(dropped, gone) ELSE gone.user = OnSession!Nobody /\ gone.list = <<>>
    BY <2>2, ShellAnonymous
  <2> HIDE DEF gone
  <2>4. IsShell(v) /\ Keeps(gone, v) /\ v.path = gone.path
    BY <2>3, ShellFreed
  <2> HIDE DEF v
  <2>5. /\ IsShell(v) /\ v.auth = "anonymous" /\ v.path = OnSession!Login
        /\ IF ui.auth = "anonymous" THEN v.user = ui.user /\ v.list = ui.list ELSE v.user = OnSession!Nobody /\ v.list = <<>>
    BY <2>2, <2>3, <2>4 DEF Keeps
  <2>6. Formal(r, v, noise')
    BY <1>3, <1>4, <2>5 DEF Formal
  <2>7. Suits(r, v, noise')
    BY <1>2, <1>3, <2>5, <2>6, SessionEnds
  <2> QED
    BY <1>1, <1>2, <1>3, <2>1, <2>7, SessionBecomes
<1> QED
  BY <1>8, <1>9

\* A sign-in goes on to ask who it is.
LEMMA SessionLogsIn == ASSUME SessionShow, OnSession!LogInBack, OnSession!Ok("login") PROVE SessionShow'
<1> DEFINE token == net["login"].got.value
           old == OnSession!Closed("login")
<1>1. /\ "login" \in DOMAIN net /\ srv' = srv /\ ui' = [ui EXCEPT !.token = token]
      /\ net' = OnSession!With(old, "me", [token |-> token, login |-> TRUE])
  BY DEF OnSession!LogInBack, OnSession!Returned, OnSession!Answered, OnSession!Rejected, OnSession!Out
<1>2. noise' = noise
  <2>1. ~OnSession!Empties("login")
    BY DEF OnSession!Empties, OnSession!Refused, OnSession!Ok
  <2> QED
    BY <2>1 DEF OnSession!LogInBack, OnSession!With401
<1>3. token \in 1..Bound.token
  BY DEF SessionShow, SessionBrought
<1>4. IsShell(ui) /\ Some(old) /\ DOMAIN old = DOMAIN net \ {"login"} /\ ui.auth # "loading"
  BY <1>1, SessionClosed, SessionLoads DEF SessionShow
<1> HIDE DEF token, old
<1>5. /\ \A j : j \in DOMAIN net' <=> j \in DOMAIN old \/ j = "me"
      /\ \A j \in DOMAIN old : j # "me" => net'[j] = old[j]
      /\ net'["me"] = [arg |-> [token |-> token, login |-> TRUE], stage |-> "sent", got |-> "nothing"]
  BY <1>1 DEF OnSession!With
<1>6. \A j \in DOMAIN net' : j # "me" => j \in DOMAIN net /\ j # "login" /\ net'[j] = net[j]
  BY <1>4, <1>5 DEF Some
<1>7. /\ IsShell(ui') /\ ui'.auth = ui.auth /\ ui'.user = ui.user /\ ui'.list = ui.list /\ ui'.path = ui.path /\ ui'.busy = ui.busy
      /\ ui'.token = token
  <2>1. 1..Bound.token \subseteq 0..Bound.token
    BY BoundAssumption
  <2> QED
    BY <1>1, <1>3, <1>4, <2>1 DEF IsShell
<1>8. DOMAIN net'["me"] = {"arg", "stage", "got"} /\ net'["me"].stage # "answered" /\ net'["me"].arg.token = token
  BY <1>5
<1>9. SessionBrought' /\ SessionServer'
  <2>1. SessionBrought'
    BY <1>6, <1>8, SessionBrings DEF SessionShow
  <2> QED
    BY <1>1, <2>1 DEF SessionShow, SessionServer
<1>10. ASSUME noise' \cap SessionTokens = {} PROVE Tokened(net', ui') /\ ui'.auth = "anonymous"
  <2>1. Tokened(net, ui)
    BY <1>2, <1>10 DEF SessionShow
  <2>2. ui.auth = "anonymous" /\ ui.busy = "login"
    BY <1>1, <2>1 DEF Tokened
  <2>3. token # OnSession!NoToken
    BY <1>3 DEF OnSession!NoToken
  <2>4. \A k \in SessionChanging \cap DOMAIN net' : net'[k].arg.token # OnSession!NoToken
    BY <1>6, <2>1 DEF Tokened, SessionChanging
  <2>5. "login" \notin DOMAIN net'
    BY <1>6
  <2> QED
    BY <1>7, <1>8, <2>2, <2>3, <2>4, <2>5 DEF Tokened
<1>11. noise' \cap SessionExcuses = {} => Rested(net, ui)'
  <2>1. noise' \cap SessionExcuses = {} => ui'.auth = "anonymous"
    BY <1>10 DEF SessionExcuses
  <2> QED
    BY <2>1 DEF Rested
<1>12. Nameless(ui', noise') /\ ui'.auth # "loading" /\ (ui'.auth = "anonymous" => ui'.path = OnSession!Login)
  BY <1>2, <1>4, <1>7 DEF SessionShow, Nameless
<1> QED
  BY <1>7, <1>9, <1>10, <1>11, <1>12 DEF SessionShow

\* The answer to a sign-in.
LEMMA SessionLogInBack == ASSUME SessionShow, OnSession!LogInBack PROVE SessionShow'
<1>1. CASE OnSession!Ok("login")
  BY <1>1, SessionLogsIn
<1>2. CASE ~OnSession!Ok("login")
  <2> DEFINE w == IF OnSession!Refused("login") THEN OnSession!Dropped(ui, "login") ELSE ui
  <2>1. "login" \in DOMAIN net /\ srv' = srv /\ noise' = OnSession!With401("login", noise) /\ OnSession!Becomes(OnSession!Closed("login"), OnSession!Freed(w, "login"))
    BY <1>2 DEF OnSession!LogInBack, OnSession!Returned, OnSession!Answered, OnSession!Rejected, OnSession!Out
  <2>2. noise' \cap SessionExcuses = {} => ui.auth # "in"
    BY <2>1 DEF SessionShow, Tokened, OnSession!With401, SessionExcuses
  <2> QED
    BY <2>1, <2>2, SessionFails
<1> QED
  BY <1>1, <1>2

\* The answer to a sign-out.
LEMMA SessionSignOutBack == ASSUME SessionShow, OnSession!SignOutBack PROVE SessionShow'
<1> DEFINE out == [ui EXCEPT !.token = OnSession!NoToken]
           gone == OnSession!Anonymous(out)
           forgot == [gone EXCEPT !.next = OnSession!Workspaces]
           r == OnSession!Closed("logout")
<1>1. /\ "logout" \in DOMAIN net /\ srv' = srv /\ noise' = OnSession!With401("logout", noise)
      /\ OnSession!Becomes(r, gone) \/ OnSession!Becomes(r, forgot)
  BY DEF OnSession!SignOutBack, OnSession!Returned, OnSession!Answered, OnSession!Rejected, OnSession!Out
<1>2. IsShell(ui) /\ Some(r) /\ DOMAIN r = DOMAIN net \ {"logout"} /\ ui.auth # "loading" /\ (ui.auth = "anonymous" => ui.path = OnSession!Login)
  BY <1>1, SessionClosed, SessionLoads DEF SessionShow
<1>3. noise \subseteq noise' /\ ("me" \in DOMAIN net /\ noise' \cap SessionTokens = {} => ui.token = OnSession!NoToken)
  BY <1>1 DEF OnSession!With401, OnSession!Empties, OnSession!Out, SessionTokens
<1>4. /\ IsShell(out) /\ out.auth = ui.auth /\ out.user = ui.user /\ out.list = ui.list /\ out.path = ui.path /\ out.busy = ui.busy
      /\ out.token = OnSession!NoToken
  <2>1. 0 \in 0..Bound.token
    BY BoundAssumption
  <2> QED
    BY <1>2, <2>1 DEF IsShell, OnSession!NoToken
<1> HIDE DEF out, r
<1>5. /\ IsShell(gone) /\ gone.auth = "anonymous" /\ gone.path = OnSession!Login /\ gone.token = out.token
      /\ IF out.auth = "anonymous" THEN Keeps(out, gone) ELSE gone.user = OnSession!Nobody /\ gone.list = <<>>
      /\ out.path = OnSession!Login => gone.busy = out.busy
  BY <1>4, ShellAnonymous
<1> HIDE DEF gone
<1>6. IsShell(forgot) /\ Keeps(gone, forgot) /\ forgot.path = gone.path /\ forgot.busy = gone.busy
  BY <1>5, SessionPaths DEF IsShell, Keeps
<1> HIDE DEF forgot
<1>7. ASSUME NEW v, IsShell(v), Keeps(gone, v), v.path = gone.path, v.busy = gone.busy, OnSession!Becomes(r, v) PROVE SessionShow'
  <2>1. /\ IsShell(v) /\ v.auth = "anonymous" /\ v.path = OnSession!Login /\ v.token = OnSession!NoToken
        /\ IF ui.auth = "anonymous" THEN v.user = ui.user /\ v.list = ui.list ELSE v.user = OnSession!Nobody /\ v.list = <<>>
        /\ ui.path = OnSession!Login => v.busy = ui.busy
    BY <1>4, <1>5, <1>7 DEF Keeps
  <2>2. Formal(r, v, noise')
    BY <1>2, <2>1 DEF Formal
  <2>3. Suits(r, v, noise')
    BY <1>2, <1>3, <2>1, <2>2, SessionEnds
  <2> QED
    BY <1>1, <1>2, <1>3, <1>7, <2>3, SessionBecomes
<1>8. Keeps(gone, gone)
  BY DEF Keeps
<1> QED
  BY <1>1, <1>5, <1>6, <1>7, <1>8

\* The answer to anything else a page asked.
LEMMA SessionBrowseBack == ASSUME SessionShow, OnSession!BrowseBack PROVE SessionShow'
<1>1. /\ "page" \in DOMAIN net /\ srv' = srv /\ noise' = OnSession!With401("page", noise)
      /\ OnSession!Becomes(OnSession!Closed("page"), IF OnSession!Refused("page") THEN OnSession!Dropped(ui, "page") ELSE ui)
  BY DEF OnSession!BrowseBack, OnSession!Returned, OnSession!Answered, OnSession!Rejected, OnSession!Out
<1>2. noise' \cap SessionExcuses = {} => Rested(OnSession!Closed("page"), ui)
  <2>1. noise' \cap SessionExcuses = {} => Rested(net, ui)
    BY <1>1 DEF SessionShow, OnSession!With401
  <2>2. DOMAIN OnSession!Closed("page") = DOMAIN net \ {"page"} /\ "page" \notin OnSession!Lists \cup SessionChanging
    BY SessionClosed DEF OnSession!Lists, SessionChanging
  <2> QED
    BY <2>1, <2>2 DEF Rested
<1> QED
  BY <1>1, <1>2, SessionFails

\* A workspace is chosen.
LEMMA ShellChosen ==
  ASSUME NEW u, NEW w \in 0..3, IsShell(u)
  PROVE  LET v == [u EXCEPT !.current = w, !.kept = w] IN IsShell(v) /\ Keeps(u, v) /\ v.path = u.path /\ v.busy = u.busy
  BY DEF IsShell, Keeps

\* A list of workspaces has been read.
LEMMA SessionListed ==
  ASSUME SessionShow, NEW k \in OnSession!Lists, OnSession!Ok(k), NEW v, IsShell(v),
         v.auth = ui.auth, v.user = ui.user, v.token = ui.token, v.list = net[k].got.value, Fits(v),
         OnSession!Becomes(OnSession!Closed(k), v), srv' = srv, noise \subseteq noise',
         net[k].got.value # OnSession!Sees(OnSession!UserOf(net[k].arg.token)) => "stale list" \in noise',
         OnSession!UserOf(net[k].arg.token) # ui.user => "late list" \in noise'
  PROVE  SessionShow'
<1> DEFINE r == OnSession!Closed(k)
<1>1. k \in DOMAIN net /\ k # "me"
  BY DEF OnSession!Ok, OnSession!Answered, OnSession!Out, OnSession!Lists
<1>2. Some(r) /\ DOMAIN r = DOMAIN net \ {k} /\ ui.auth # "loading"
  BY <1>1, SessionClosed, SessionLoads
<1>3. ui.auth # "in" => "late list" \in noise'
  <2>1. ui.auth # "in" => ui.user = OnSession!Nobody
    BY DEF SessionShow, Nameless
  <2>2. OnSession!UserOf(net[k].arg.token) # OnSession!Nobody
    BY DEF OnSession!UserOf, OnSession!Nobody
  <2> QED
    BY <2>1, <2>2
<1> HIDE DEF r
<1>4. Nameless(v, noise')
  BY <1>3 DEF SessionShow, Nameless
<1>5. ASSUME noise' \cap SessionTokens = {} PROVE Tokened(r, v)
  <2>1. Tokened(net, ui) /\ ui.auth = "in"
    BY <1>3, <1>5 DEF SessionShow, SessionTokens
  <2>2. \A j \in SessionChanging \cap DOMAIN r : r[j].arg.token # OnSession!NoToken
    BY <1>2, <2>1 DEF Tokened, Some
  <2> QED
    BY <1>2, <2>1, <2>2 DEF Tokened
<1>6. ASSUME noise' \cap SessionExcuses = {} PROVE Rested(r, v)
  <2>1. net[k].got.value = OnSession!Sees(OnSession!UserOf(net[k].arg.token)) /\ OnSession!UserOf(net[k].arg.token) = ui.user
    BY <1>6 DEF SessionExcuses, SessionTokens
  <2>2. v.list = OnSession!Sees(v.user)
    BY <2>1
  <2> QED
    BY <2>2 DEF Rested
<1>7. Suits(r, v, noise')
  BY <1>2, <1>3, <1>4, <1>5, <1>6 DEF Suits, SessionTokens
<1> QED
  BY <1>2, <1>7, SessionBecomes DEF r

\* The answer to a read of the list.
LEMMA SessionListBack == ASSUME SessionShow, NEW k \in OnSession!Lists, OnSession!ListBack(k) PROVE SessionShow'
<1> DEFINE value == net[k].got.value
           read == OnSession!Listed(ui, value)
           listed == IF OnSession!Ok(k) THEN read ELSE IF OnSession!Refused(k) THEN OnSession!Dropped(ui, k) ELSE ui
           idle == CASE k = "list created" -> OnSession!Freed(listed, "create")
                     [] k = "list deleted" -> OnSession!Freed(listed, "delete") [] OTHER -> listed
           made == net[k].arg.what
           r == OnSession!Closed(k)
           opened == [idle EXCEPT !.current = made, !.kept = made]
<1>1. /\ IF ~OnSession!Ok(k) THEN OnSession!Becomes(r, idle)
         ELSE CASE k = "list created" -> OnSession!Becomes(r, OnSession!Selects(opened))
           [] k = "list deleted" -> OnSession!Becomes(r, OnSession!At(idle, OnSession!Workspaces))
           [] k = "list saved" ->
                OnSession!Becomes(r, OnSession!Selects(idle)) \/ OnSession!Becomes(r, OnSession!Selects(OnSession!At(idle, OnSession!Page(made))))
           [] OTHER -> OnSession!Becomes(r, OnSession!Selects(idle))
      /\ noise' = OnSession!With401(k, noise)
                    \cup (IF OnSession!Ok(k) /\ value = OnSession!Sees(OnSession!UserOf(net[k].arg.token)) THEN {} ELSE {"stale list"})
                    \cup (IF OnSession!Ok(k) /\ OnSession!UserOf(net[k].arg.token) # ui.user THEN {"late list"} ELSE {})
      /\ srv' = srv /\ k \in DOMAIN net /\ k \notin {"me", "login"}
  BY DEF OnSession!ListBack, OnSession!Returned, OnSession!Answered, OnSession!Rejected, OnSession!Out, OnSession!Lists
<1>2. IsShell(ui)
  BY DEF SessionShow
<1>3. CASE ~OnSession!Ok(k)
  <2> DEFINE w == IF OnSession!Refused(k) THEN OnSession!Dropped(ui, k) ELSE ui
  <2>1. listed = w
    BY <1>3
  <2>2. idle = w \/ idle = OnSession!Freed(w, "create") \/ idle = OnSession!Freed(w, "delete")
    BY <2>1
  <2>3. OnSession!Becomes(r, idle) /\ "stale list" \in noise' /\ OnSession!With401(k, noise) \subseteq noise'
    <3>1. OnSession!Becomes(r, idle)
      <4> HIDE DEF idle, listed, r, opened, read, value, made
      <4> QED
        BY <1>1, <1>3
    <3> HIDE DEF idle, listed, r
    <3>2. noise' = OnSession!With401(k, noise) \cup {"stale list"} \cup {}
      BY <1>1, <1>3
    <3> QED
      BY <3>1, <3>2
  <2>4. noise' \cap SessionExcuses # {}
    BY <2>3 DEF SessionExcuses
  <2> HIDE DEF idle, listed
  <2>5. ASSUME NEW x, x # "login", idle = w \/ idle = OnSession!Freed(w, x) PROVE SessionShow'
    <3>1. srv' = srv /\ k \in DOMAIN net /\ k # "me"
      BY <1>1
    <3> QED
      BY <2>3, <2>4, <2>5, <3>1, SessionFails
  <2> HIDE DEF w
  <2> QED
    BY <2>2, <2>5
<1>4. CASE OnSession!Ok(k)
  <2>1. /\ noise \subseteq noise'
        /\ value # OnSession!Sees(OnSession!UserOf(net[k].arg.token)) => "stale list" \in noise'
        /\ OnSession!UserOf(net[k].arg.token) # ui.user => "late list" \in noise'
    BY <1>1, <1>4 DEF OnSession!With401
  <2>2. IsList(value) /\ listed = read
    BY <1>4 DEF SessionShow, SessionBrought
  <2>3. IsShell(read) /\ read.auth = ui.auth /\ read.user = ui.user /\ read.token = ui.token /\ read.list = value
    BY <1>2, <2>2, ShellListed
  <2> HIDE DEF read
  <2>4. IsShell(idle) /\ Keeps(read, idle)
    <3>1. idle = read \/ idle = OnSession!Freed(read, "create") \/ idle = OnSession!Freed(read, "delete")
      BY <2>2
    <3>2. Keeps(read, read)
      BY DEF Keeps
    <3> HIDE DEF idle
    <3> QED
      BY <2>3, <3>1, <3>2, ShellFreed
  <2>5. k = "list created" => made = 3
    BY <1>1 DEF SessionShow, SessionBrought
  <2> HIDE DEF idle, listed, value, made, r
  <2>6. ASSUME NEW v, IsShell(v), Keeps(idle, v), Fits(v), OnSession!Becomes(r, v) PROVE SessionShow'
    <3>1. v.auth = ui.auth /\ v.user = ui.user /\ v.token = ui.token /\ v.list = value
      BY <2>3, <2>4, <2>6 DEF Keeps
    <3> QED
      BY <1>1, <1>4, <2>1, <2>6, <3>1, SessionListed DEF r, value
  <2>7. ASSUME NEW u, IsShell(u), Keeps(idle, u), OnSession!Becomes(r, OnSession!Selects(u)) PROVE SessionShow'
    <3>1. IsShell(OnSession!Selects(u)) /\ Keeps(u, OnSession!Selects(u)) /\ Fits(OnSession!Selects(u))
      BY <2>7, ShellSelects
    <3>2. Keeps(idle, OnSession!Selects(u))
      BY <2>7, <3>1 DEF Keeps
    <3> QED
      BY <2>6, <2>7, <3>1, <3>2
  <2>8. Keeps(idle, idle)
    BY DEF Keeps
  <2>9. CASE k = "list created"
    <3>1. IsShell(opened) /\ Keeps(idle, opened)
      <4>1. made = 3
        BY <2>5, <2>9, Zenon
      <4>2. made \in 0..3
        BY <4>1
      <4> QED
        BY <2>4, <4>2, ShellChosen
    <3>2. OnSession!Becomes(r, OnSession!Selects(opened))
      BY <1>1, <1>4, <2>9
    <3> HIDE DEF opened
    <3> QED
      BY <2>7, <3>1, <3>2
  <2>10. CASE k = "list deleted"
    <3>1. OnSession!Becomes(r, OnSession!At(idle, OnSession!Workspaces))
      BY <1>1, <1>4, <2>10
    <3> DEFINE v == OnSession!At(idle, OnSession!Workspaces)
    <3>2. IsShell(v) /\ Keeps(idle, v) /\ v.path = OnSession!Workspaces
      BY <2>4, ShellAt, SessionPaths
    <3> HIDE DEF v
    <3>3. Fits(v)
      BY <3>2, SessionPaths DEF Fits
    <3> QED
      BY <2>6, <3>1, <3>2, <3>3 DEF v
  <2>11. CASE k = "list saved"
    <3> DEFINE there == OnSession!At(idle, OnSession!Page(made))
    <3>1. OnSession!Becomes(r, OnSession!Selects(idle)) \/ OnSession!Becomes(r, OnSession!Selects(there))
      BY <1>1, <1>4, <2>11
    <3>2. IsPath(OnSession!Page(made))
      BY SessionPaths
    <3>3. IsShell(there) /\ Keeps(idle, there)
      BY <2>4, <3>2, ShellAt
    <3> HIDE DEF there
    <3> QED
      BY <2>4, <2>7, <2>8, <3>1, <3>3
  <2>12. CASE k \notin {"list created", "list deleted", "list saved"}
    <3>1. OnSession!Becomes(r, OnSession!Selects(idle))
      BY <1>1, <1>4, <2>12
    <3> QED
      BY <2>4, <2>7, <2>8, <3>1
  <2> QED
    BY <2>9, <2>10, <2>11, <2>12
<1> QED
  BY <1>3, <1>4

\* Nothing but what is selected changes.
LEMMA SessionStays ==
  ASSUME SessionShow, IsShell(ui'), Keeps(ui, ui'), ui'.path = ui.path, ui'.busy = ui.busy, net' = net, srv' = srv, noise' = noise
  PROVE  SessionShow'
<1>1. SessionBrought' /\ SessionServer'
  BY ZenonT(60) DEF SessionShow, SessionBrought, SessionServer, OnSession!Ok, OnSession!Answered, OnSession!Out
<1>2. noise' \cap SessionTokens = {} => Tokened(net', ui')
  BY DEF SessionShow, Tokened, Keeps
<1>3. noise' \cap SessionExcuses = {} => Rested(net, ui)'
  BY DEF SessionShow, Rested, Keeps, Fits, OnSession!Sees, OnSession!Member, OnSession!Restrict
<1>4. /\ ui'.auth = "loading" => DOMAIN net' = {"me"} /\ ui'.path # OnSession!Login
      /\ ui'.auth = "anonymous" => ui'.path = OnSession!Login
      /\ Nameless(ui', noise')
  BY DEF SessionShow, Keeps, Nameless
<1> QED
  BY <1>1, <1>2, <1>3, <1>4 DEF SessionShow

\* A page is opened.
LEMMA SessionOpens ==
  ASSUME SessionShow, ui.auth = "in", NEW v, IsShell(v), Keeps(ui, v), Fits(v), OnSession!Becomes(net, v), srv' = srv, noise' = noise
  PROVE  SessionShow'
<1>1. Some(net) /\ Formal(net, v, noise')
  BY DEF Some, Formal
<1>2. noise' \cap SessionExcuses = {} => Rested(net, v)
  <2>1. noise' \cap SessionExcuses = {} => Rested(net, ui)
    BY DEF SessionShow
  <2> QED
    BY <2>1, SessionRests
<1>3. Suits(net, v, noise')
  BY <1>1, <1>2, SessionGoesOn
<1> QED
  BY <1>1, <1>3, SessionBecomes

\* A click keeps it.
LEMMA SessionClicks == ASSUME SessionShow, OnSession!Clicks PROVE SessionShow'
<1>0. IsShell(ui) /\ Keeps(ui, ui)
  BY DEF SessionShow, Keeps
<1>n. \A k \in {"login", "logout", "page", "create", "rename", "delete"} : k \notin OnSession!Lists \cup {"me"}
  BY DEF OnSession!Lists
<1>1. CASE OnSession!SignOut
  <2>1. ui' = ui /\ srv' = srv /\ noise' = noise /\ net' = OnSession!Ask(net, ui, "logout", {}) /\ ui.auth = "in"
    BY <1>1 DEF OnSession!SignOut
  <2>2. IsShell(ui') /\ Keeps(ui, ui') /\ ui'.path = ui.path
    BY <1>0, <2>1
  <2> QED
    BY <1>n, <2>1, <2>2, SessionSends DEF SessionChanging
<1>2. CASE OnSession!Browse
  <2>1. ui' = ui /\ srv' = srv /\ noise' = noise /\ net' = OnSession!Ask(net, ui, "page", {}) /\ ui.auth = "in"
    BY <1>2 DEF OnSession!Browse
  <2>2. IsShell(ui') /\ Keeps(ui, ui') /\ ui'.path = ui.path
    BY <1>0, <2>1
  <2> QED
    BY <1>n, <2>1, <2>2, SessionSends DEF SessionChanging
<1>b. ASSUME NEW b \in {"login", "create", "rename", "delete"}, ui' = [ui EXCEPT !.busy = b]
      PROVE  IsShell(ui') /\ Keeps(ui, ui') /\ ui'.path = ui.path /\ ui'.busy = b
  BY <1>0, <1>b DEF IsShell, Keeps
<1>3. CASE OnSession!ToWorkspaces
  <2> DEFINE v == OnSession!At(ui, OnSession!Workspaces)
  <2>1. ui.auth = "in" /\ OnSession!Becomes(net, v) /\ srv' = srv /\ noise' = noise
    BY <1>3 DEF OnSession!ToWorkspaces
  <2>2. IsShell(v) /\ Keeps(ui, v) /\ v.path = OnSession!Workspaces
    BY <1>0, ShellAt, SessionPaths
  <2> HIDE DEF v
  <2>3. Fits(v)
    BY <2>2, SessionPaths DEF Fits
  <2> QED
    BY <2>1, <2>2, <2>3, SessionOpens
<1>4. CASE OnSession!Create
  <2>1. /\ ui' = [ui EXCEPT !.busy = "create"] /\ srv' = srv /\ noise' = noise /\ net' = OnSession!Ask(net, ui, "create", 3)
        /\ ui.auth = "in" /\ ui.busy = "no"
    BY <1>4 DEF OnSession!Create
  <2>2. IsShell(ui') /\ Keeps(ui, ui') /\ ui'.path = ui.path
    BY <1>b, <2>1
  <2> QED
    BY <1>n, <2>1, <2>2, SessionSends
<1>5. CASE OnSession!Delete
  <2>1. PICK w \in OnSession!Shown : net' = OnSession!Ask(net, ui, "delete", w)
    BY <1>5 DEF OnSession!Delete
  <2>2. ui' = [ui EXCEPT !.busy = "delete"] /\ srv' = srv /\ noise' = noise /\ ui.auth = "in" /\ ui.busy = "no"
    BY <1>5 DEF OnSession!Delete
  <2>3. IsShell(ui') /\ Keeps(ui, ui') /\ ui'.path = ui.path
    BY <1>b, <2>2
  <2> QED
    BY <1>n, <2>1, <2>2, <2>3, SessionSends
<1>6. ASSUME NEW user \in {"ann", "bob"}, OnSession!LogIn(user) PROVE SessionShow'
  <2>1. /\ ui' = [ui EXCEPT !.busy = "login"] /\ srv' = srv /\ noise' = noise /\ net' = OnSession!Ask(net, ui, "login", user)
        /\ ui.auth = "anonymous" /\ ui.busy = "no"
    BY <1>6 DEF OnSession!LogIn
  <2>2. IsShell(ui') /\ Keeps(ui, ui') /\ ui'.path = ui.path /\ ui'.busy = "login"
    BY <1>b, <2>1
  <2> QED
    BY <1>n, <2>1, <2>2, SessionSends DEF SessionChanging
<1>7. ASSUME NEW w \in 1..3, OnSession!Select(w) PROVE SessionShow'
  <2> DEFINE chosen == [ui EXCEPT !.current = w, !.kept = w]
             there == OnSession!At(chosen, OnSession!Page(ui.list[w]))
             v == OnSession!Selects(there)
  <2>1. ui.auth = "in" /\ OnSession!Becomes(net, v) /\ srv' = srv /\ noise' = noise
    BY <1>7 DEF OnSession!Select
  <2>2. IsShell(chosen) /\ Keeps(ui, chosen)
    BY <1>0 DEF IsShell, Keeps
  <2> HIDE DEF chosen
  <2>3. IsPath(OnSession!Page(ui.list[w]))
    BY SessionPaths
  <2>4. IsShell(there) /\ Keeps(chosen, there)
    BY <2>2, <2>3, ShellAt
  <2> HIDE DEF there
  <2>5. IsShell(v) /\ Keeps(there, v) /\ Fits(v)
    BY <2>4, ShellSelects
  <2> HIDE DEF v
  <2>6. Keeps(ui, v)
    BY <2>2, <2>4, <2>5 DEF Keeps
  <2> QED
    BY <2>1, <2>5, <2>6, SessionOpens
<1>8. ASSUME NEW w \in 1..3, OnSession!Switch(w) PROVE SessionShow'
  <2>1. ui' = [ui EXCEPT !.current = w, !.kept = w] /\ net' = net /\ srv' = srv /\ noise' = noise
    BY <1>8 DEF OnSession!Switch
  <2>2. IsShell(ui') /\ Keeps(ui, ui') /\ ui'.path = ui.path /\ ui'.busy = ui.busy
    BY <1>0, <2>1 DEF IsShell, Keeps
  <2> QED
    BY <2>1, <2>2, SessionStays
<1>9. CASE OnSession!Rename("d")
  <2>1. PICK w \in OnSession!Shown : net' = OnSession!Ask(net, ui, "rename", [ws |-> w, slug |-> "d"])
    BY <1>9 DEF OnSession!Rename
  <2>2. ui' = [ui EXCEPT !.busy = "rename"] /\ srv' = srv /\ noise' = noise /\ ui.auth = "in" /\ ui.busy = "no"
    BY <1>9 DEF OnSession!Rename
  <2>3. IsShell(ui') /\ Keeps(ui, ui') /\ ui'.path = ui.path
    BY <1>b, <2>2
  <2> QED
    BY <1>n, <2>1, <2>2, <2>3, SessionSends
<1> QED
  BY <1>1, <1>2, <1>3, <1>4, <1>5, <1>6, <1>7, <1>8, <1>9 DEF OnSession!Clicks

\* A request turns: its answer comes, or it fails.
LEMMA SessionTurned ==
  ASSUME SessionShow, NEW k \in DOMAIN net, DOMAIN net' = DOMAIN net, \A j \in DOMAIN net : j # k => net'[j] = net[j],
         DOMAIN net'[k] = {"arg", "stage", "got"}, net'[k].arg = net[k].arg,
         net'[k].stage = "answered" =>
           /\ net'[k].got.code \in {200, 401}
           /\ net'[k].got.code = 200 =>
                /\ k \in OnSession!Lists => IsList(net'[k].got.value)
                /\ k = "login" => net'[k].got.value \in 1..Bound.token
                /\ k = "me" => net'[k].got.value = OnSession!UserOf(net[k].arg.token),
         SessionServer', srv'.ws = srv.ws \/ k \in SessionChanging, ui' = ui, noise' = noise
  PROVE  SessionShow'
<1>1. \A j \in DOMAIN net : net'[j].arg = net[j].arg
  OBVIOUS
<1>2. SessionBrought'
  <2>1. ASSUME NEW j \in DOMAIN net
        PROVE  /\ DOMAIN net'[j] = {"arg", "stage", "got"} /\ (net'[j].stage = "answered" => net'[j].got.code \in {200, 401})
               /\ j \in {"create", "list created"} => net'[j].arg.what = 3
    <3>1. /\ DOMAIN net[j] = {"arg", "stage", "got"} /\ (net[j].stage = "answered" => net[j].got.code \in {200, 401})
          /\ j \in {"create", "list created"} => net[j].arg.what = 3
      BY ZenonT(60) DEF SessionShow, SessionBrought
    <3>2. j \in {"create", "list created"} => net'[j].arg.what = 3
      BY <1>1, <3>1
    <3>3. CASE j = k
      BY <3>2, <3>3
    <3>4. CASE j # k
      <4>1. net'[j] = net[j]
        BY <3>4
      <4> QED
        BY <3>1, <3>2, <4>1
    <3> QED
      BY <3>3, <3>4
  <2>2. ASSUME NEW j, OnSession!Ok(j)'
        PROVE  /\ j \in DOMAIN net
               /\ IF j = k THEN net'[k].stage = "answered" /\ net'[k].got.code = 200 ELSE OnSession!Ok(j) /\ net'[j] = net[j]
    <3>1. j \in DOMAIN net' /\ net'[j].stage = "answered" /\ net'[j].got.code = 200
      BY <2>2 DEF OnSession!Ok, OnSession!Answered, OnSession!Out
    <3>2. j # k => net'[j] = net[j]
      BY <3>1
    <3> QED
      BY <3>1, <3>2 DEF OnSession!Ok, OnSession!Answered, OnSession!Out
  <2>3. ASSUME NEW j \in OnSession!Lists, OnSession!Ok(j)' PROVE IsList(net'[j].got.value)
    <3>1. CASE j = k
      BY <2>2, <2>3, <3>1
    <3>2. CASE j # k
      <4>1. OnSession!Ok(j) /\ net'[j] = net[j]
        BY <2>2, <2>3, <3>2
      <4>2. IsList(net[j].got.value)
        BY <4>1 DEF SessionShow, SessionBrought
      <4> QED
        BY <4>1, <4>2
    <3> QED
      BY <3>1, <3>2
  <2>4. ASSUME OnSession!Ok("login")' PROVE net'["login"].got.value \in 1..Bound.token
    <3>1. CASE k = "login"
      BY <2>2, <2>4, <3>1
    <3>2. CASE k # "login"
      BY <2>2, <2>4, <3>2, ZenonT(60) DEF SessionShow, SessionBrought
    <3> QED
      BY <3>1, <3>2
  <2>5. ASSUME OnSession!Ok("me")' PROVE net'["me"].got.value = OnSession!UserOf(net'["me"].arg.token)
    <3>1. "me" \in DOMAIN net /\ net'["me"].arg = net["me"].arg
      BY <1>1, <2>2, <2>5
    <3>2. CASE k = "me"
      BY <2>2, <2>5, <3>1, <3>2
    <3>3. CASE k # "me"
      <4>1. OnSession!Ok("me") /\ net'["me"] = net["me"]
        BY <2>2, <2>5, <3>3
      <4> QED
        BY <4>1 DEF SessionShow, SessionBrought
    <3> QED
      BY <3>2, <3>3
  <2> QED
    BY <2>1, <2>3, <2>4, <2>5, ZenonT(60) DEF SessionBrought
<1>3. noise' \cap SessionTokens = {} => Tokened(net', ui')
  <2> SUFFICES ASSUME noise' \cap SessionTokens = {} PROVE Tokened(net', ui')
    OBVIOUS
  <2>1. Tokened(net, ui)
    BY DEF SessionShow
  <2> QED
    BY <1>1, <2>1 DEF Tokened
<1>4. ASSUME noise' \cap SessionExcuses = {} PROVE Rested(net, ui)'
  <2>1. Rested(net, ui)
    BY <1>4 DEF SessionShow
  <2>2. CASE k \in SessionChanging
    BY <2>2 DEF Rested
  <2>3. CASE srv'.ws = srv.ws
    <3>1. OnSession!Sees(ui.user)' = OnSession!Sees(ui.user)
      BY <2>3 DEF OnSession!Sees, OnSession!Member, OnSession!Restrict
    <3> QED
      BY <2>1, <3>1 DEF Rested, Fits
  <2> QED
    BY <2>2, <2>3
<1> QED
  BY <1>2, <1>3, <1>4, ZenonT(60) DEF SessionShow, Nameless

\* A request fails.
LEMMA SessionBreaks == ASSUME SessionShow, NEW k \in DOMAIN net, OnSession!Breaks(k) PROVE SessionShow'
<1>1. net' = [net EXCEPT ![k].stage = "failed", ![k].got = "nothing"] /\ ui' = ui /\ srv' = srv /\ noise' = noise
  BY DEF OnSession!Breaks, OnSession!Fails
<1>2. DOMAIN net[k] = {"arg", "stage", "got"}
  BY DEF SessionShow, SessionBrought
<1>3. /\ DOMAIN net' = DOMAIN net /\ DOMAIN net'[k] = {"arg", "stage", "got"} /\ net'[k].arg = net[k].arg
      /\ net'[k].stage = "failed" /\ \A j \in DOMAIN net : j # k => net'[j] = net[j]
  BY <1>1, <1>2
<1>4. SessionServer'
  BY <1>1 DEF SessionShow, SessionServer
<1> QED
  BY <1>1, <1>3, <1>4, SessionTurned

\* The server takes a request.
LEMMA SessionHandles ==
  ASSUME SessionShow, NEW k, NEW state, NEW code \in {200, 401}, NEW value, OnSession!Handles(k, state, [code |-> code, value |-> value]),
         DOMAIN state = {"ws", "issued", "expired"}, IsList(state.ws), state.issued \in 1..Bound.token,
         state.ws = srv.ws \/ k \in SessionChanging,
         code = 200 =>
           /\ k \in OnSession!Lists => IsList(value)
           /\ k = "login" => value \in 1..Bound.token
           /\ k = "me" => value = OnSession!UserOf(net[k].arg.token)
  PROVE  SessionShow'
<1> DEFINE answer == [code |-> code, value |-> value]
<1>1. /\ net' = [net EXCEPT ![k].stage = "answered", ![k].got = answer] /\ k \in DOMAIN net
      /\ ui' = ui /\ srv' = state /\ noise' = noise
  BY DEF OnSession!Handles, OnSession!Out
<1>2. answer.code = code /\ answer.value = value
  OBVIOUS
<1> HIDE DEF answer
<1>3. DOMAIN net[k] = {"arg", "stage", "got"}
  BY <1>1 DEF SessionShow, SessionBrought
<1>4. /\ DOMAIN net' = DOMAIN net /\ DOMAIN net'[k] = {"arg", "stage", "got"} /\ net'[k].arg = net[k].arg
      /\ net'[k].stage = "answered" /\ net'[k].got = answer /\ \A j \in DOMAIN net : j # k => net'[j] = net[j]
  BY <1>1, <1>3
<1>5. SessionServer' /\ (srv'.ws = srv.ws \/ k \in SessionChanging)
  BY <1>1 DEF SessionServer
<1>6. /\ net'[k].got.code \in {200, 401}
      /\ net'[k].got.code = 200 =>
           /\ k \in OnSession!Lists => IsList(net'[k].got.value)
           /\ k = "login" => net'[k].got.value \in 1..Bound.token
           /\ k = "me" => net'[k].got.value = OnSession!UserOf(net[k].arg.token)
  BY <1>2, <1>4
<1> QED
  BY <1>1, <1>4, <1>5, <1>6, SessionTurned

\* It answers whom it knows.
LEMMA SessionGives ==
  ASSUME SessionShow, NEW k, NEW state, NEW value, OnSession!Gives(k, state, value), k # "login",
         DOMAIN state = {"ws", "issued", "expired"}, IsList(state.ws), state.issued \in 1..Bound.token,
         state.ws = srv.ws \/ k \in SessionChanging,
         k \in OnSession!Lists => IsList(value), k = "me" => value = OnSession!UserOf(net[k].arg.token)
  PROVE  SessionShow'
<1>1. CASE OnSession!Live(net[k].arg.token)
  <2>1. OnSession!Handles(k, state, [code |-> 200, value |-> value])
    BY <1>1 DEF OnSession!Gives
  <2> QED
    BY <2>1, SessionHandles
<1>2. CASE ~OnSession!Live(net[k].arg.token)
  <2>1. OnSession!Handles(k, srv, [code |-> 401, value |-> {}])
    BY <1>2 DEF OnSession!Gives
  <2>2. DOMAIN srv = {"ws", "issued", "expired"} /\ IsList(srv.ws) /\ srv.issued \in 1..Bound.token
    BY DEF SessionShow, SessionServer
  <2> QED
    BY <2>1, <2>2, SessionHandles
<1> QED
  BY <1>1, <1>2

\* The server keeps it.
LEMMA SessionServe == ASSUME SessionShow, OnSession!Serve PROVE SessionShow'
<1>0. DOMAIN srv = {"ws", "issued", "expired"} /\ IsList(srv.ws) /\ srv.issued \in 1..Bound.token
  BY DEF SessionShow, SessionServer
<1>n. \A k \in {"me", "login", "logout", "page", "create", "rename", "delete"} : k \notin OnSession!Lists
  BY DEF OnSession!Lists
<1>m. \A k \in OnSession!Lists : k # "me" /\ k # "login"
  BY DEF OnSession!Lists
<1>1. CASE OnSession!Out("me") /\ OnSession!Gives("me", srv, OnSession!UserOf(net["me"].arg.token))
  BY <1>0, <1>1, <1>n, SessionGives
<1>2. CASE /\ OnSession!Out("login") /\ OnSession!Issued(net["login"].arg.what) <= Bound.token
           /\ LET token == OnSession!Issued(net["login"].arg.what)
              IN OnSession!Handles("login", [srv EXCEPT !.issued = token], [code |-> 200, value |-> token])
  <2> DEFINE token == OnSession!Issued(net["login"].arg.what)
             state == [srv EXCEPT !.issued = token]
  <2>1. OnSession!Handles("login", state, [code |-> 200, value |-> token]) /\ token <= Bound.token
    BY <1>2
  <2>2. token = srv.issued + 1 \/ token = srv.issued + 2
    BY DEF OnSession!Issued
  <2> HIDE DEF token
  <2>3. token \in 1..Bound.token
    BY <1>0, <2>1, <2>2, BoundAssumption
  <2>4. DOMAIN state = {"ws", "issued", "expired"} /\ state.ws = srv.ws /\ state.issued = token
    BY <1>0
  <2> HIDE DEF state
  <2> QED
    BY <1>0, <1>n, <2>1, <2>3, <2>4, SessionHandles
<1>3. CASE OnSession!Out("login") /\ OnSession!Handles("login", srv, [code |-> 401, value |-> {}])
  BY <1>0, <1>3, <1>n, SessionHandles, SMTT(30)
<1>4. CASE OnSession!Gives("logout", srv, {}) \/ OnSession!Gives("page", srv, {})
  BY <1>0, <1>4, <1>n, SessionGives
<1>5. ASSUME NEW k \in OnSession!Lists, OnSession!Gives(k, srv, OnSession!Sees(OnSession!UserOf(net[k].arg.token))) PROVE SessionShow'
  <2> DEFINE list == OnSession!Sees(OnSession!UserOf(net[k].arg.token))
  <2>1. IsList(list)
    <3> DEFINE S == {w \in DOMAIN srv.ws : OnSession!Member(OnSession!UserOf(net[k].arg.token), w)}
    <3>1. list = [w \in S |-> srv.ws[w]] /\ S \subseteq DOMAIN srv.ws
      BY DEF OnSession!Sees, OnSession!Restrict
    <3> HIDE DEF S, list
    <3> QED
      BY <1>0, <3>1 DEF IsList
  <2> HIDE DEF list
  <2>2. OnSession!Gives(k, srv, list)
    BY <1>5 DEF list
  <2> QED
    BY <1>0, <1>m, <2>1, <2>2, SessionGives
<1>6. CASE 3 \notin DOMAIN srv.ws /\ OnSession!Gives("create", [srv EXCEPT !.ws = [w \in DOMAIN @ \cup {3} |-> IF w = 3 THEN "c" ELSE @[w]]], {})
  <2> DEFINE ws == [w \in DOMAIN srv.ws \cup {3} |-> IF w = 3 THEN "c" ELSE srv.ws[w]]
             state == [srv EXCEPT !.ws = ws]
  <2>1. OnSession!Gives("create", state, {})
    BY <1>6
  <2>2. IsList(ws)
    <3>1. DOMAIN ws = DOMAIN srv.ws \cup {3} /\ ws = [w \in DOMAIN ws |-> ws[w]] /\ 3 \in 1..3
      OBVIOUS
    <3> HIDE DEF ws
    <3> QED
      BY <1>0, <3>1 DEF IsList
  <2> HIDE DEF ws
  <2>3. DOMAIN state = {"ws", "issued", "expired"} /\ state.ws = ws /\ state.issued = srv.issued
    BY <1>0
  <2> HIDE DEF state
  <2> QED
    BY <1>0, <1>n, <2>1, <2>2, <2>3, SessionGives DEF SessionChanging
<1>7. CASE /\ OnSession!Out("rename") /\ net["rename"].arg.what.ws \in DOMAIN srv.ws
           /\ LET asked == net["rename"].arg.what
              IN  /\ \A w \in DOMAIN srv.ws : srv.ws[w] # asked.slug
                  /\ OnSession!Gives("rename", [srv EXCEPT !.ws[asked.ws] = asked.slug], {})
  <2> DEFINE asked == net["rename"].arg.what
             ws == [srv.ws EXCEPT ![asked.ws] = asked.slug]
             state == [srv EXCEPT !.ws[asked.ws] = asked.slug]
  <2>1. OnSession!Gives("rename", state, {})
    BY <1>7
  <2> HIDE DEF asked
  <2>2. IsList(ws)
    <3>1. DOMAIN ws = DOMAIN srv.ws /\ ws = [w \in DOMAIN ws |-> ws[w]]
      OBVIOUS
    <3> HIDE DEF ws
    <3> QED
      BY <1>0, <3>1 DEF IsList
  <2>3. DOMAIN state = {"ws", "issued", "expired"} /\ state.ws = ws /\ state.issued = srv.issued
    BY <1>0
  <2> HIDE DEF state, ws
  <2> QED
    BY <1>0, <1>n, <2>1, <2>2, <2>3, SessionGives DEF SessionChanging
<1>8. CASE OnSession!Out("delete") /\ OnSession!Gives("delete", [srv EXCEPT !.ws = OnSession!Restrict(@, DOMAIN @ \ {net["delete"].arg.what})], {})
  <2> DEFINE ws == OnSession!Restrict(srv.ws, DOMAIN srv.ws \ {net["delete"].arg.what})
             state == [srv EXCEPT !.ws = ws]
  <2>1. OnSession!Gives("delete", state, {})
    BY <1>8
  <2>2. IsList(ws)
    <3>1. DOMAIN ws \subseteq DOMAIN srv.ws /\ ws = [w \in DOMAIN ws |-> ws[w]]
      BY DEF OnSession!Restrict
    <3> HIDE DEF ws
    <3> QED
      BY <1>0, <3>1 DEF IsList
  <2> HIDE DEF ws
  <2>3. DOMAIN state = {"ws", "issued", "expired"} /\ state.ws = ws /\ state.issued = srv.issued
    BY <1>0
  <2> HIDE DEF state
  <2> QED
    BY <1>0, <1>n, <2>1, <2>2, <2>3, SessionGives DEF SessionChanging
<1> QED
  BY <1>1, <1>2, <1>3, <1>4, <1>5, <1>6, <1>7, <1>8 DEF OnSession!Serve

\* A token runs out, or another tab changes the one there is.
LEMMA SessionAround == ASSUME SessionShow, OnSession!Expire \/ OnSession!OtherTab PROVE SessionShow'
<1>0. DOMAIN srv = {"ws", "issued", "expired"} /\ IsList(srv.ws) /\ srv.issued \in 1..Bound.token /\ IsShell(ui)
  BY DEF SessionShow, SessionServer
<1>1. ASSUME net' = net PROVE SessionBrought'
  BY <1>1, ZenonT(60) DEF SessionShow, SessionBrought, OnSession!Ok, OnSession!Answered, OnSession!Out
<1>2. CASE OnSession!Expire
  <2>1. PICK t \in 1..srv.issued : srv' = [srv EXCEPT !.expired = {t}]
    BY <1>2 DEF OnSession!Expire
  <2>2. ui' = ui /\ net' = net /\ noise' = noise
    BY <1>2 DEF OnSession!Expire
  <2>3. SessionServer' /\ srv'.ws = srv.ws
    BY <1>0, <2>1 DEF SessionServer
  <2>4. Rested(net, ui)' <=> Rested(net, ui)
    BY <2>2, <2>3 DEF Rested, Fits, OnSession!Sees, OnSession!Member, OnSession!Restrict
  <2> QED
    BY <1>1, <2>2, <2>3, <2>4 DEF SessionShow, Nameless, Tokened
<1>3. CASE OnSession!OtherTab
  <2>1. net' = net /\ noise' = noise \cup {"other tab"}
    BY <1>3 DEF OnSession!OtherTab
  <2>2. noise' \cap SessionTokens # {} /\ noise' \cap SessionExcuses # {}
    BY <2>1 DEF SessionTokens, SessionExcuses
  <2>3. \E t \in 0..Bound.token : ui' = [ui EXCEPT !.token = t]
    <3>1. CASE ui' = [ui EXCEPT !.token = OnSession!NoToken]
      <4>1. 0 \in 0..Bound.token
        BY BoundAssumption
      <4> QED
        BY <3>1, <4>1 DEF OnSession!NoToken
    <3>2. CASE srv.issued < Bound.token /\ ui' = [ui EXCEPT !.token = srv.issued + 1]
      <4>1. srv.issued + 1 \in 0..Bound.token
        BY <1>0, <3>2, BoundAssumption
      <4> QED
        BY <3>2, <4>1
    <3> QED
      BY <1>3, <3>1, <3>2 DEF OnSession!OtherTab
  <2>4. SessionServer'
    <3>1. CASE srv' = srv
      BY <1>0, <3>1 DEF SessionServer
    <3>2. CASE srv.issued < Bound.token /\ srv' = [srv EXCEPT !.issued = @ + 1]
      <4>1. srv.issued + 1 \in 1..Bound.token
        BY <1>0, <3>2, BoundAssumption
      <4> QED
        BY <1>0, <3>2, <4>1 DEF SessionServer
    <3> QED
      BY <1>3, <3>1, <3>2 DEF OnSession!OtherTab
  <2>5. IsShell(ui') /\ ui'.auth = ui.auth /\ ui'.user = ui.user /\ ui'.list = ui.list /\ ui'.path = ui.path
    BY <1>0, <2>3 DEF IsShell
  <2>6. Nameless(ui', noise')
    BY <2>1, <2>5 DEF SessionShow, Nameless
  <2> QED
    BY <1>1, <2>1, <2>2, <2>4, <2>5, <2>6 DEF SessionShow
<1> QED
  BY <1>2, <1>3

\* Every step of the shell keeps it.
LEMMA SessionShowStep == SessionShow /\ OnSession!Next => SessionShow'
<1> SUFFICES ASSUME SessionShow, OnSession!Next PROVE SessionShow'
  OBVIOUS
<1>0. {"list created", "list saved", "list deleted"} \subseteq OnSession!Lists /\ {"create", "rename", "delete"} \subseteq SessionChanging
  BY DEF OnSession!Lists, SessionChanging
<1>1. CASE OnSession!Out("create") /\ OnSession!ChangeBack("create", "list created", net["create"].arg.what)
  BY <1>0, <1>1, SessionChangeBack
<1>2. CASE OnSession!Out("rename") /\ OnSession!ChangeBack("rename", "list saved", net["rename"].arg.what.slug)
  BY <1>0, <1>2, SessionChangeBack
<1>3. CASE OnSession!ChangeBack("delete", "list deleted", {})
  BY <1>0, <1>3, SessionChangeBack
<1>4. CASE OnSession!Returns
  BY <1>1, <1>2, <1>3, <1>4, SessionMeBack, SessionLogInBack, SessionSignOutBack, SessionBrowseBack, SessionListBack DEF OnSession!Returns
<1> QED
  BY <1>4, SessionServe, SessionClicks, SessionAround, SessionBreaks DEF OnSession!Next

------------------------------------------------------------------------------
(* A migration's page *)

\* What is kept on this page: the record has the flags.
MigrationSpins ==
  /\ {"submitting", "saving", "triggering", "deleting", "dry"} \subseteq DOMAIN ui
  /\ OnMigration!SpinnersHaveRequests

\* It holds when the page opens.
LEMMA MigrationInit == OnMigration!Init => MigrationSpins
<1> SUFFICES ASSUME OnMigration!Init PROVE MigrationSpins
  OBVIOUS
<1>1. ui = [pipeline |-> OnMigration!Unread, form |-> OnMigration!Unread, outside |-> FALSE, conns |-> {},
            schedule |-> OnMigration!NoSchedule, draft |-> "", loaded |-> FALSE, submitting |-> FALSE, saving |-> FALSE,
            triggering |-> FALSE, deleting |-> FALSE, dry |-> "no", dialog |-> "none", runs |-> OnMigration!Unpolled, left |-> FALSE]
  BY Zenon DEF OnMigration!Init
<1> QED
  BY <1>1 DEF MigrationSpins, OnMigration!SpinnersHaveRequests

\* Every step of the page keeps it.
LEMMA MigrationStep == MigrationSpins /\ OnMigration!Next => MigrationSpins'
<1> SUFFICES ASSUME MigrationSpins, OnMigration!Next PROVE MigrationSpins'
  OBVIOUS
<1> USE DEF MigrationSpins, OnMigration!SpinnersHaveRequests, OnMigration!Out
<1>1. CASE OnMigration!Serve
  BY <1>1 DEF OnMigration!Serve, OnMigration!Handles
<1>2. CASE OnMigration!NoSchedules
  BY <1>2 DEF OnMigration!NoSchedules
<1>3. CASE OnMigration!LoadBack
  BY <1>3 DEF OnMigration!LoadBack, OnMigration!Closed, OnMigration!Without, OnMigration!Restrict
<1>4. CASE OnMigration!PollBack
  BY <1>4 DEF OnMigration!PollBack, OnMigration!Closed, OnMigration!Without, OnMigration!Restrict
<1>5. CASE OnMigration!SubmitBack
  BY <1>5 DEF OnMigration!SubmitBack, OnMigration!Closed, OnMigration!Without, OnMigration!Restrict
<1>6. CASE OnMigration!RunNowBack
  BY <1>6 DEF OnMigration!RunNowBack, OnMigration!Closed, OnMigration!Without, OnMigration!Restrict
<1>7. CASE OnMigration!DryRunBack
  BY <1>7 DEF OnMigration!DryRunBack, OnMigration!Closed, OnMigration!Without, OnMigration!Restrict
<1>8. CASE OnMigration!ScheduleBack
  BY <1>8 DEF OnMigration!ScheduleBack, OnMigration!Closed, OnMigration!Without, OnMigration!Restrict
<1>9. CASE OnMigration!DeleteBack
  BY <1>9 DEF OnMigration!DeleteBack, OnMigration!Closed, OnMigration!Without, OnMigration!Restrict
<1>10. CASE OnMigration!ChangeLanguage
  BY <1>10 DEF OnMigration!ChangeLanguage, OnMigration!Sent, OnMigration!With
<1>11. CASE OnMigration!Submit
  BY <1>11 DEF OnMigration!Submit, OnMigration!Sent, OnMigration!With
<1>12. CASE OnMigration!RunNow
  BY <1>12 DEF OnMigration!RunNow, OnMigration!Sent, OnMigration!With
<1>13. CASE OnMigration!DryRun
  BY <1>13 DEF OnMigration!DryRun, OnMigration!Sent, OnMigration!With
<1>14. CASE OnMigration!Dismiss
  BY <1>14 DEF OnMigration!Dismiss
<1>15. CASE OnMigration!AskDelete
  BY <1>15 DEF OnMigration!AskDelete
<1>16. CASE OnMigration!LeaveDialog
  BY <1>16 DEF OnMigration!LeaveDialog
<1>17. CASE OnMigration!ConfirmDelete
  BY <1>17 DEF OnMigration!ConfirmDelete, OnMigration!Sent, OnMigration!With
<1>18. CASE OnMigration!SaveSchedule
  BY <1>18 DEF OnMigration!SaveSchedule, OnMigration!Sent, OnMigration!With
<1>19. CASE OnMigration!ToggleSchedule
  BY <1>19 DEF OnMigration!ToggleSchedule, OnMigration!Sent, OnMigration!With
<1>20. CASE OnMigration!AskClear
  BY <1>20 DEF OnMigration!AskClear
<1>21. CASE OnMigration!ConfirmClear
  BY <1>21 DEF OnMigration!ConfirmClear, OnMigration!Sent, OnMigration!With
<1>22. ASSUME NEW f, OnMigration!Change(f) PROVE MigrationSpins'
  BY <1>22 DEF OnMigration!Change
<1>23. ASSUME NEW c, OnMigration!Draft(c) PROVE MigrationSpins'
  BY <1>23 DEF OnMigration!Draft
<1>24. CASE OnMigration!PollFires
  BY <1>24 DEF OnMigration!PollFires, OnMigration!Sent, OnMigration!With
<1>25. ASSUME NEW k \in DOMAIN net, OnMigration!Breaks(k) PROVE MigrationSpins'
  BY <1>25 DEF OnMigration!Breaks, OnMigration!Fails
<1> QED
  BY <1>1, <1>2, <1>3, <1>4, <1>5, <1>6, <1>7, <1>8, <1>9, <1>10, <1>11, <1>12, <1>13, <1>14, <1>15, <1>16, <1>17, <1>18, <1>19, <1>20, <1>21, <1>22, <1>23, <1>24, <1>25 DEF OnMigration!Next, OnMigration!Returns, OnMigration!Clicks

\* A list of one.
LEMMA SingleSchedule == \A s : <<s>> # <<>> /\ <<s>>[1] = s /\ Len(<<s>>) = 1
  OBVIOUS

\* As long as nothing happened that OneSchedule excepts, the page knows whether
\* there is a schedule, or waits for the answer that will tell it.
KnowsSchedule ==
  /\ srv.schedules = <<>> \/ \E s : srv.schedules = <<s>> /\ DOMAIN s = {"cron", "active"} /\ s.cron # ""
  /\ ~ui.loaded => ui.schedule = OnMigration!NoSchedule
  /\ ui.saving <=> "schedule" \in DOMAIN net
  /\ ui.loaded /\ ~ui.saving => ui.schedule = OnMigration!First(srv.schedules)
  /\ "schedule" \in DOMAIN net =>
       /\ net["schedule"].arg.op \in {"create", "update", "toggle", "delete"}
       /\ net["schedule"].arg.op \in {"create", "update"} => net["schedule"].arg.cron # ""
       /\ net["schedule"].stage = "sent" /\ net["schedule"].arg.op = "create" => srv.schedules = <<>>
       /\ net["schedule"].stage = "answered" => net["schedule"].got = OnMigration!First(srv.schedules)
       /\ ui.loaded
Excepted == {"lost answer", "schedules unread", "stale load"}
MigrationRules ==
  /\ {"loaded", "schedule", "saving", "draft"} \subseteq DOMAIN ui
  /\ DOMAIN srv = {"config", "shape", "conns", "schedules", "runs", "exists"}
  /\ "schedule" \in DOMAIN net => DOMAIN net["schedule"] = {"arg", "stage", "got"}
  /\ noise \cap Excepted = {} => KnowsSchedule

\* It holds when the page opens.
LEMMA MigrationRulesInit == OnMigration!Init => MigrationRules
<1> SUFFICES ASSUME OnMigration!Init PROVE MigrationRules
  OBVIOUS
<1>1. PICK first \in {<<>>, <<[cron |-> "daily", active |-> TRUE]>>}, shape \in BOOLEAN, conns \in {{}, {"c"}, {"d"}} :
        srv = [config |-> 0, shape |-> shape, conns |-> conns, schedules |-> first, runs |-> 1, exists |-> TRUE]
  BY Zenon DEF OnMigration!Init
<1>2. DOMAIN srv = {"config", "shape", "conns", "schedules", "runs", "exists"} /\ srv.schedules = first
  BY <1>1
<1>3. first = <<>> \/ \E s : first = <<s>> /\ DOMAIN s = {"cron", "active"} /\ s.cron # ""
  <2>1. DOMAIN [cron |-> "daily", active |-> TRUE] = {"cron", "active"} /\ [cron |-> "daily", active |-> TRUE].cron # ""
    OBVIOUS
  <2> QED
    BY <1>1, <2>1
<1>4. /\ {"loaded", "schedule", "saving", "draft"} \subseteq DOMAIN ui
      /\ ui.loaded = FALSE /\ ui.saving = FALSE /\ ui.schedule = OnMigration!NoSchedule
  BY DEF OnMigration!Init
<1>5. "schedule" \notin DOMAIN net
  <2> DEFINE one == OnMigration!With(<<>>, "load", {})
  <2>1. DOMAIN one = {"load"}
    BY DEF OnMigration!With
  <2>2. net = OnMigration!With(one, "poll", {})
    BY Zenon DEF OnMigration!Init
  <2> HIDE DEF one
  <2>3. DOMAIN net = {"load", "poll"}
    BY <2>1, <2>2 DEF OnMigration!With
  <2> QED
    BY <2>3
<1> QED
  BY <1>2, <1>3, <1>4, <1>5, Zenon DEF MigrationRules, KnowsSchedule

\* It is kept by what leaves the schedule, what is known of it and its request alone.
LEMMA MigrationRulesFrame ==
  ASSUME MigrationRules, DOMAIN srv' = DOMAIN srv, srv'.schedules = srv.schedules, DOMAIN ui' = DOMAIN ui,
         ui'.loaded = ui.loaded, ui'.schedule = ui.schedule, ui'.saving = ui.saving, noise \subseteq noise',
         "schedule" \in DOMAIN net' <=> "schedule" \in DOMAIN net,
         "schedule" \in DOMAIN net => net'["schedule"] = net["schedule"]
  PROVE  MigrationRules'
  BY DEF MigrationRules, KnowsSchedule, OnMigration!First

\* Another request is sent, or another's answer taken.
LEMMA MigrationRulesNet ==
  ASSUME MigrationRules, srv' = srv, DOMAIN ui' = DOMAIN ui,
         ui'.loaded = ui.loaded, ui'.schedule = ui.schedule, ui'.saving = ui.saving, noise \subseteq noise',
         NEW k, NEW a, k # "schedule", net' = net \/ net' = OnMigration!Sent(k, a) \/ net' = OnMigration!Closed(k)
  PROVE  MigrationRules'
<1>1. /\ "schedule" \in DOMAIN net' <=> "schedule" \in DOMAIN net
      /\ "schedule" \in DOMAIN net => net'["schedule"] = net["schedule"]
  BY DEF OnMigration!Sent, OnMigration!With, OnMigration!Closed, OnMigration!Without, OnMigration!Restrict
<1> QED
  BY <1>1, MigrationRulesFrame

\* The one request about the schedule is sent.
LEMMA MigrationRulesSend ==
  ASSUME MigrationRules, srv' = srv, DOMAIN ui' = DOMAIN ui, noise' = noise, ui.loaded, ~ui.saving,
         ui'.loaded = ui.loaded, ui'.schedule = ui.schedule, ui'.saving = TRUE,
         NEW op \in {"create", "update", "toggle", "delete"}, NEW cron, op \in {"create", "update"} => cron # "",
         op = "create" => ui.schedule = OnMigration!NoSchedule,
         net' = OnMigration!Sent("schedule", [op |-> op, cron |-> cron])
  PROVE  MigrationRules'
<1>1. /\ "schedule" \in DOMAIN net' /\ DOMAIN net'["schedule"] = {"arg", "stage", "got"}
      /\ net'["schedule"].arg = [op |-> op, cron |-> cron] /\ net'["schedule"].stage = "sent"
  BY DEF OnMigration!Sent, OnMigration!With
<1>2. net'["schedule"].arg.op = op /\ net'["schedule"].arg.cron = cron
  <2>1. [op |-> op, cron |-> cron].op = op /\ [op |-> op, cron |-> cron].cron = cron
    OBVIOUS
  <2> QED
    BY <1>1, <2>1, Zenon
<1>3. ASSUME noise \cap Excepted = {} PROVE KnowsSchedule'
  <2>1. KnowsSchedule
    BY <1>3 DEF MigrationRules
  <2>2. op = "create" => srv.schedules = <<>>
    <3>1. ASSUME NEW s, srv.schedules = <<s>>, s.cron # "" PROVE OnMigration!First(srv.schedules) # OnMigration!NoSchedule
      <4>1. srv.schedules # <<>> /\ srv.schedules[1] = s
        BY <3>1, SingleSchedule, Zenon
      <4>2. OnMigration!NoSchedule.cron = ""
        BY DEF OnMigration!NoSchedule
      <4> QED
        BY <3>1, <4>1, <4>2 DEF OnMigration!First
    <3> QED
      BY <2>1, <3>1 DEF KnowsSchedule
  <2> QED
    BY <1>1, <1>2, <2>1, <2>2, Zenon DEF KnowsSchedule
<1> QED
  BY <1>1, <1>3 DEF MigrationRules

\* Every step of the page keeps it.
LEMMA MigrationRulesStep == MigrationRules /\ OnMigration!Next => MigrationRules'
<1> SUFFICES ASSUME MigrationRules, OnMigration!Next PROVE MigrationRules'
  OBVIOUS
<1>u. {"loaded", "schedule", "saving", "draft"} \subseteq DOMAIN ui
  BY DEF MigrationRules
<1>s. DOMAIN srv = {"config", "shape", "conns", "schedules", "runs", "exists"}
  BY DEF MigrationRules
<1>1. ASSUME NEW k, NEW s, NEW answer, OnMigration!Handles(k, s, answer), k # "schedule",
             DOMAIN s = DOMAIN srv, s.schedules = srv.schedules
      PROVE  MigrationRules'
  <2>1. /\ srv' = s /\ ui' = ui /\ noise' = noise /\ DOMAIN net' = DOMAIN net
        /\ net' = [net EXCEPT ![k].stage = "answered", ![k].got = answer]
    BY <1>1 DEF OnMigration!Handles
  <2>2. "schedule" \in DOMAIN net => net'["schedule"] = net["schedule"]
    BY <1>1, <2>1
  <2> QED
    BY <1>1, <2>1, <2>2, MigrationRulesFrame
<1>2. CASE OnMigration!Handles("load", srv, [config |-> srv.config, shape |-> srv.shape, conns |-> srv.conns, schedules |-> srv.schedules])
  BY <1>1, <1>2
<1>3. CASE OnMigration!Handles("poll", srv, OnMigration!Newest(srv.runs)) \/ OnMigration!Handles("dry run", srv, {})
  BY <1>1, <1>3
<1>4. CASE OnMigration!Handles("update", [srv EXCEPT !.config = net["update"].arg], net["update"].arg)
  <2>1. DOMAIN [srv EXCEPT !.config = net["update"].arg] = DOMAIN srv /\ [srv EXCEPT !.config = net["update"].arg].schedules = srv.schedules
    BY <1>s
  <2> QED
    BY <1>1, <1>4, <2>1
<1>5. CASE OnMigration!Handles("trigger", [srv EXCEPT !.runs = @ + 1], srv.runs + 1)
  <2>1. DOMAIN [srv EXCEPT !.runs = @ + 1] = DOMAIN srv /\ [srv EXCEPT !.runs = @ + 1].schedules = srv.schedules
    BY <1>s
  <2> QED
    BY <1>1, <1>5, <2>1
<1>6. CASE OnMigration!Handles("delete", [srv EXCEPT !.exists = FALSE], {})
  <2>1. DOMAIN [srv EXCEPT !.exists = FALSE] = DOMAIN srv /\ [srv EXCEPT !.exists = FALSE].schedules = srv.schedules
    BY <1>s
  <2> QED
    BY <1>1, <1>6, <2>1
<1>7. ASSUME OnMigration!Out("schedule"), net["schedule"].arg.op = "create" \/ srv.schedules # <<>>,
             NEW after, after = OnMigration!Schedules(net["schedule"].arg.op, net["schedule"].arg.cron),
             NEW answer, answer = CASE net["schedule"].arg.op = "create" -> after[Len(after)]
                                    [] net["schedule"].arg.op = "delete" -> OnMigration!NoSchedule [] OTHER -> after[1],
             OnMigration!Handles("schedule", [srv EXCEPT !.schedules = after], answer)
      PROVE  MigrationRules'
  <2>1. /\ DOMAIN srv' = DOMAIN srv /\ srv'.schedules = after /\ ui' = ui /\ noise' = noise
        /\ "schedule" \in DOMAIN net /\ net["schedule"].stage = "sent"
        /\ DOMAIN net' = DOMAIN net /\ net' = [net EXCEPT !["schedule"].stage = "answered", !["schedule"].got = answer]
    BY <1>7, <1>s DEF OnMigration!Handles, OnMigration!Out
  <2>2. /\ DOMAIN net'["schedule"] = {"arg", "stage", "got"} /\ net'["schedule"].arg = net["schedule"].arg
        /\ net'["schedule"].stage = "answered" /\ net'["schedule"].got = answer
    BY <2>1 DEF MigrationRules
  <2>3. ASSUME noise \cap Excepted = {} PROVE KnowsSchedule'
    <3>k. KnowsSchedule
      BY <2>3 DEF MigrationRules
    <3> DEFINE op == net["schedule"].arg.op
               cron == net["schedule"].arg.cron
    <3>0. /\ op \in {"create", "update", "toggle", "delete"} /\ (op \in {"create", "update"} => cron # "")
          /\ op = "create" => srv.schedules = <<>>
      BY <2>1, <3>k DEF KnowsSchedule
    <3>1. PICK s : op # "create" => srv.schedules = <<s>> /\ DOMAIN s = {"cron", "active"} /\ s.cron # ""
      BY <1>7, <3>k DEF KnowsSchedule
    <3> HIDE DEF op, cron
    <3>2. after = OnMigration!Schedules(op, cron)
      BY <1>7 DEF op, cron
    <3>3. answer = CASE op = "create" -> after[Len(after)] [] op = "delete" -> OnMigration!NoSchedule [] OTHER -> after[1]
      BY <1>7 DEF op
    <3>4. /\ after = <<>> \/ \E t : after = <<t>> /\ DOMAIN t = {"cron", "active"} /\ t.cron # ""
          /\ answer = OnMigration!First(after)
      <4>1. CASE op = "create"
        <5> DEFINE t == [cron |-> cron, active |-> TRUE]
        <5>1. after = Append(<<>>, t) /\ answer = after[Len(after)]
          BY <3>0, <3>2, <3>3, <4>1 DEF OnMigration!Schedules
        <5>2. DOMAIN t = {"cron", "active"} /\ t.cron # ""
          BY <3>0, <4>1
        <5> HIDE DEF t
        <5>3. after = <<t>> /\ answer = t /\ <<t>> # <<>>
          BY <5>1
        <5> QED
          BY <5>2, <5>3 DEF OnMigration!First
      <4>2. CASE op = "update"
        <5> DEFINE t == [s EXCEPT !.cron = cron]
        <5>1. after = [<<s>> EXCEPT ![1].cron = cron] /\ answer = after[1]
          BY <3>1, <3>2, <3>3, <4>2 DEF OnMigration!Schedules
        <5>2. DOMAIN t = {"cron", "active"} /\ t.cron # ""
          BY <3>0, <3>1, <4>2
        <5>3. after = <<t>> /\ <<t>> # <<>>
          BY <5>1
        <5> HIDE DEF t
        <5> QED
          BY <5>1, <5>2, <5>3 DEF OnMigration!First
      <4>3. CASE op = "toggle"
        <5> DEFINE t == [s EXCEPT !.active = ~@]
        <5>1. after = [<<s>> EXCEPT ![1].active = ~@] /\ answer = after[1]
          BY <3>1, <3>2, <3>3, <4>3 DEF OnMigration!Schedules
        <5>2. DOMAIN t = {"cron", "active"} /\ t.cron # ""
          BY <3>1, <4>3
        <5>3. after = <<t>> /\ <<t>> # <<>>
          BY <5>1
        <5> HIDE DEF t
        <5> QED
          BY <5>1, <5>2, <5>3 DEF OnMigration!First
      <4>4. CASE op = "delete"
        <5>1. after = Tail(<<s>>) /\ answer = OnMigration!NoSchedule
          BY <3>1, <3>2, <3>3, <4>4 DEF OnMigration!Schedules
        <5> QED
          BY <5>1 DEF OnMigration!First
      <4> QED
        BY <3>0, <4>1, <4>2, <4>3, <4>4
    <3>5. OnMigration!First(srv.schedules)' = OnMigration!First(after)
      BY <2>1 DEF OnMigration!First
    <3>6. ui.saving /\ ui.loaded
      BY <2>1, <3>k DEF KnowsSchedule
    <3> QED
      BY <2>1, <2>2, <3>0, <3>4, <3>5, <3>6, Zenon DEF KnowsSchedule, op, cron
  <2> QED
    BY <2>1, <2>2, <2>3 DEF MigrationRules
<1>8. CASE OnMigration!Serve
  BY <1>2, <1>3, <1>4, <1>5, <1>6, <1>7, <1>8, Zenon DEF OnMigration!Serve
<1>9. CASE OnMigration!NoSchedules
  <2>1. /\ UNCHANGED <<ui, srv>> /\ "schedules unread" \in noise' /\ DOMAIN net' = DOMAIN net
        /\ "schedule" \in DOMAIN net => net'["schedule"] = net["schedule"]
    BY <1>9 DEF OnMigration!NoSchedules
  <2> QED
    BY <2>1 DEF MigrationRules, Excepted
<1>10. CASE OnMigration!LoadBack
  <2>1. srv' = srv /\ noise \subseteq noise' /\ net' = OnMigration!Closed("load")
    BY <1>10 DEF OnMigration!LoadBack
  <2>2. CASE OnMigration!Rejected("load")
    <3>1. ui' = ui
      BY <1>10, <2>2 DEF OnMigration!LoadBack
    <3> QED
      BY <2>1, <3>1, MigrationRulesNet
  <2>3. CASE ~OnMigration!Rejected("load")
    <3> DEFINE got == net["load"].got
               read == [ui EXCEPT !.pipeline = got.config, !.conns = got.conns, !.schedule = OnMigration!First(got.schedules),
                                  !.draft = OnMigration!First(got.schedules).cron, !.loaded = TRUE]
    <3>1. /\ DOMAIN read = DOMAIN ui /\ read.schedule = OnMigration!First(got.schedules) /\ read.loaded = TRUE
          /\ read.saving = ui.saving
      BY <1>u
    <3>2. ui' = IF got.shape THEN [read EXCEPT !.form = got.config] ELSE [read EXCEPT !.outside = TRUE]
      BY <1>10, <2>3 DEF OnMigration!LoadBack
    <3>3. OnMigration!Answered("load") /\ (got.schedules # srv.schedules => "stale load" \in noise')
      BY <1>10, <2>3 DEF OnMigration!LoadBack, OnMigration!Returned
    <3> HIDE DEF read
    <3>4. /\ DOMAIN ui' = DOMAIN ui /\ ui'.schedule = OnMigration!First(got.schedules) /\ ui'.loaded = TRUE
          /\ ui'.saving = ui.saving
      BY <3>1, <3>2
    <3>5. /\ "schedule" \in DOMAIN net' <=> "schedule" \in DOMAIN net
          /\ "schedule" \in DOMAIN net => net'["schedule"] = net["schedule"]
      BY <2>1 DEF OnMigration!Closed, OnMigration!Without, OnMigration!Restrict
    <3> HIDE DEF got
    <3>6. ASSUME noise' \cap Excepted = {} PROVE KnowsSchedule'
      <4>1. noise \cap Excepted = {} /\ got.schedules = srv.schedules
        BY <2>1, <3>3, <3>6 DEF Excepted
      <4>2. KnowsSchedule
        BY <4>1 DEF MigrationRules
      <4> QED
        BY <2>1, <3>4, <3>5, <4>1, <4>2 DEF KnowsSchedule, OnMigration!First
    <3> QED
      BY <2>1, <3>4, <3>5, <3>6 DEF MigrationRules
  <2> QED
    BY <2>2, <2>3
<1>11. CASE OnMigration!ScheduleBack
  <2>1. /\ srv' = srv /\ noise \subseteq noise' /\ net' = OnMigration!Closed("schedule") /\ "schedule" \in DOMAIN net
        /\ OnMigration!Rejected("schedule") => "lost answer" \in noise'
    BY <1>11 DEF OnMigration!ScheduleBack, OnMigration!Lost, OnMigration!Returned, OnMigration!Answered, OnMigration!Rejected, OnMigration!Out
  <2>2. "schedule" \notin DOMAIN net'
    BY <2>1 DEF OnMigration!Closed, OnMigration!Without, OnMigration!Restrict
  <2>3. /\ DOMAIN ui' = DOMAIN ui /\ ui'.saving = FALSE /\ ui'.loaded = ui.loaded
        /\ ~OnMigration!Rejected("schedule") => ui'.schedule = net["schedule"].got /\ net["schedule"].stage = "answered"
    BY <1>11, <1>u DEF OnMigration!ScheduleBack, OnMigration!Returned, OnMigration!Answered
  <2>4. ASSUME noise' \cap Excepted = {} PROVE KnowsSchedule'
    <3>1. ~OnMigration!Rejected("schedule") /\ noise \cap Excepted = {}
      BY <2>1, <2>4 DEF Excepted
    <3>2. KnowsSchedule
      BY <3>1 DEF MigrationRules
    <3> QED
      BY <2>1, <2>2, <2>3, <3>1, <3>2 DEF KnowsSchedule, OnMigration!First
  <2> QED
    BY <1>s, <1>u, <2>1, <2>2, <2>3, <2>4 DEF MigrationRules
<1>12. CASE OnMigration!PollBack \/ OnMigration!SubmitBack \/ OnMigration!RunNowBack \/ OnMigration!DryRunBack \/ OnMigration!DeleteBack
  <2>1. PICK k \in {"poll", "update", "trigger", "dry run", "delete"} : net' = OnMigration!Closed(k)
    BY <1>12 DEF OnMigration!PollBack, OnMigration!SubmitBack, OnMigration!RunNowBack, OnMigration!DryRunBack, OnMigration!DeleteBack
  <2>2. /\ srv' = srv /\ DOMAIN ui' = DOMAIN ui /\ ui'.loaded = ui.loaded /\ ui'.schedule = ui.schedule /\ ui'.saving = ui.saving
        /\ noise \subseteq noise'
    BY <1>12, <1>u DEF OnMigration!PollBack, OnMigration!SubmitBack, OnMigration!RunNowBack, OnMigration!DryRunBack, OnMigration!DeleteBack,
       OnMigration!Lost
  <2> QED
    BY <2>1, <2>2, MigrationRulesNet
<1>13. CASE OnMigration!PollFires \/ OnMigration!ChangeLanguage \/ OnMigration!Submit \/ OnMigration!RunNow \/ OnMigration!DryRun \/ OnMigration!ConfirmDelete
  <2>1. PICK k \in {"poll", "load", "update", "trigger", "dry run", "delete"} : \E a : net' = OnMigration!Sent(k, a)
    BY <1>13, Zenon DEF OnMigration!PollFires, OnMigration!ChangeLanguage, OnMigration!Submit, OnMigration!RunNow, OnMigration!DryRun, OnMigration!ConfirmDelete
  <2>2. /\ srv' = srv /\ DOMAIN ui' = DOMAIN ui /\ ui'.loaded = ui.loaded /\ ui'.schedule = ui.schedule /\ ui'.saving = ui.saving
        /\ noise' = noise
    BY <1>13, <1>u DEF OnMigration!PollFires, OnMigration!ChangeLanguage, OnMigration!Submit, OnMigration!RunNow, OnMigration!DryRun, OnMigration!ConfirmDelete
  <2> QED
    BY <2>1, <2>2, MigrationRulesNet
<1>14. CASE OnMigration!Dismiss \/ OnMigration!AskDelete \/ OnMigration!LeaveDialog \/ OnMigration!AskClear
            \/ (\E f \in OnMigration!Forms \cup {OnMigration!Blank} : OnMigration!Change(f)) \/ \E c \in OnMigration!Crons : OnMigration!Draft(c)
  <2>1. /\ srv' = srv /\ DOMAIN ui' = DOMAIN ui /\ ui'.loaded = ui.loaded /\ ui'.schedule = ui.schedule /\ ui'.saving = ui.saving
        /\ noise' = noise /\ net' = net
    BY <1>14, <1>u DEF OnMigration!Dismiss, OnMigration!AskDelete, OnMigration!LeaveDialog, OnMigration!AskClear, OnMigration!Change, OnMigration!Draft
  <2>2. "poll" # "schedule"
    OBVIOUS
  <2> QED
    BY <2>1, <2>2, MigrationRulesNet
<1>15. CASE OnMigration!SaveSchedule
  <2> DEFINE op == IF ui.schedule = OnMigration!NoSchedule THEN "create" ELSE "update"
  <2>1. /\ srv' = srv /\ DOMAIN ui' = DOMAIN ui /\ ui'.loaded = ui.loaded /\ ui'.schedule = ui.schedule /\ ui'.saving = TRUE
        /\ noise' = noise /\ ui.loaded /\ ~ui.saving /\ ui.draft # "" /\ net' = OnMigration!Sent("schedule", [op |-> op, cron |-> ui.draft])
    BY <1>15, <1>u DEF OnMigration!SaveSchedule
  <2>2. op \in {"create", "update", "toggle", "delete"} /\ (op = "create" => ui.schedule = OnMigration!NoSchedule)
    OBVIOUS
  <2> HIDE DEF op
  <2> QED
    BY <2>1, <2>2, MigrationRulesSend
<1>16. CASE OnMigration!ToggleSchedule \/ OnMigration!ConfirmClear
  <2>1. PICK op \in {"toggle", "delete"} : \E cron : net' = OnMigration!Sent("schedule", [op |-> op, cron |-> cron])
    BY <1>16, Zenon DEF OnMigration!ToggleSchedule, OnMigration!ConfirmClear
  <2>2. /\ srv' = srv /\ DOMAIN ui' = DOMAIN ui /\ ui'.loaded = ui.loaded /\ ui'.schedule = ui.schedule /\ ui'.saving = TRUE
        /\ noise' = noise /\ ui.schedule # OnMigration!NoSchedule /\ ~ui.saving
    BY <1>16, <1>u DEF OnMigration!ToggleSchedule, OnMigration!ConfirmClear
  <2>3. CASE ui.loaded
    BY <2>1, <2>2, <2>3, MigrationRulesSend
  <2>4. CASE ~ui.loaded
    <3>1. noise \cap Excepted # {}
      BY <2>2, <2>4 DEF MigrationRules, KnowsSchedule
    <3>2. "schedule" \in DOMAIN net' /\ DOMAIN net'["schedule"] = {"arg", "stage", "got"}
      BY <2>1 DEF OnMigration!Sent, OnMigration!With
    <3> QED
      BY <1>s, <1>u, <2>2, <3>1, <3>2 DEF MigrationRules
  <2> QED
    BY <2>3, <2>4
<1>17. ASSUME NEW k \in DOMAIN net, OnMigration!Breaks(k) PROVE MigrationRules'
  <2>1. /\ net' = [net EXCEPT ![k].stage = "failed", ![k].got = "nothing"] /\ UNCHANGED <<ui, srv, noise>>
    BY <1>17 DEF OnMigration!Breaks, OnMigration!Fails
  <2>2. CASE k # "schedule"
    BY <2>1, <2>2, MigrationRulesFrame
  <2>3. CASE k = "schedule"
    <3>1. /\ DOMAIN net' = DOMAIN net /\ DOMAIN net'["schedule"] = {"arg", "stage", "got"}
          /\ net'["schedule"].arg = net["schedule"].arg /\ net'["schedule"].stage = "failed"
      BY <2>1, <2>3 DEF MigrationRules
    <3>2. KnowsSchedule => KnowsSchedule'
      BY <2>1, <3>1 DEF KnowsSchedule, OnMigration!First
    <3> QED
      BY <1>17, <2>1, <2>3, <3>1, <3>2 DEF MigrationRules
  <2> QED
    BY <2>2, <2>3
<1> QED
  BY <1>8, <1>9, <1>10, <1>11, <1>12, <1>13, <1>14, <1>15, <1>16, <1>17, Zenon DEF OnMigration!Next, OnMigration!Returns, OnMigration!Clicks

\* And so the migration has one schedule at most.
LEMMA MigrationRulesEnough == MigrationRules => OnMigration!OneSchedule
<1>1. ASSUME KnowsSchedule PROVE Len(srv.schedules) <= 1
  <2>1. CASE srv.schedules = <<>>
    BY <2>1
  <2>2. ASSUME NEW s, srv.schedules = <<s>> PROVE Len(srv.schedules) <= 1
    <3>1. Len(srv.schedules) = 1
      BY <2>2, SingleSchedule, Zenon
    <3> QED
      BY <3>1
  <2> QED
    BY <1>1, <2>1, <2>2 DEF KnowsSchedule
<1> QED
  BY <1>1 DEF MigrationRules, OnMigration!OneSchedule, Excepted

(* What it shows *)

\* No run is listed twice.
NoDoubles(runs) == \A i, j \in DOMAIN runs : i # j => runs[i] # runs[j]

\* Types.
MigrationTypes ==
  /\ {"pipeline", "form", "loaded", "schedule", "dry", "dialog", "runs"} \subseteq DOMAIN ui
  /\ srv.config \in OnMigration!Forms /\ srv.runs \in Nat /\ ui.runs \in Seq(Int)
  /\ OnMigration!TypeOK

\* What a request asks and brings.
MigrationFits(k, r) ==
  /\ DOMAIN r = {"arg", "stage", "got"}
  /\ k = "update" => r.arg \in OnMigration!Forms
  /\ r.stage = "answered" =>
       /\ k = "load" => r.got.config \in OnMigration!Forms
       /\ k = "poll" => r.got \in Seq(Int) /\ Len(r.got) <= Bound.kept /\ NoDoubles(r.got)
       /\ k = "trigger" => r.got \in Int

\* The configuration is known, or an answer will tell it.
KnowsConfig ==
  /\ "update" \in DOMAIN net /\ net["update"].stage = "answered" => net["update"].got = srv.config
  /\ ui.loaded /\ "update" \notin DOMAIN net => ui.pipeline = srv.config

MigrationShow ==
  /\ MigrationRules /\ MigrationTypes
  /\ \A k \in DOMAIN net : MigrationFits(k, net[k])
  /\ noise \cap Excepted = {} => KnowsConfig
  /\ "polled first" \notin noise => NoDoubles(ui.runs)

\* What the page's helpers do to the requests.
LEMMA MigrationNet ==
  /\ \A k, arg : Sends(net, OnMigration!Sent(k, arg), k) /\ OnMigration!Sent(k, arg)[k].arg = arg
  /\ \A k \in DOMAIN net : Closes(net, OnMigration!Closed(k), k)
<1>1. ASSUME NEW k, NEW arg PROVE Sends(net, OnMigration!Sent(k, arg), k) /\ OnMigration!Sent(k, arg)[k].arg = arg
  <2>1. Sends(net, OnMigration!Sent(k, arg), k)
    BY DEF Sends, OnMigration!Sent, OnMigration!With
  <2>2. OnMigration!Sent(k, arg)[k].arg = arg
    BY DEF OnMigration!Sent, OnMigration!With
  <2> QED
    BY <2>1, <2>2
<1>2. \A k \in DOMAIN net : Closes(net, OnMigration!Closed(k), k)
  BY DEF Closes, OnMigration!Closed, OnMigration!Without, OnMigration!Restrict
<1> QED
  BY <1>1, <1>2

\* The runs of an answer to the poll: so many, each once.
LEMMA NewestRuns ==
  ASSUME NEW n \in Nat
  PROVE  OnMigration!Newest(n) \in Seq(Int) /\ Len(OnMigration!Newest(n)) <= Bound.kept /\ NoDoubles(OnMigration!Newest(n))
<1> DEFINE m == IF n < Bound.kept THEN n ELSE Bound.kept
<1>1. m \in Nat /\ m <= Bound.kept
  BY BoundAssumption
<1>2. OnMigration!Newest(n) = [i \in 1..m |-> n + 1 - i]
  BY DEF OnMigration!Newest
<1> HIDE DEF m
<1>3. OnMigration!Newest(n) \in Seq(Int) /\ Len(OnMigration!Newest(n)) = m
  BY <1>1, <1>2
<1>4. NoDoubles(OnMigration!Newest(n))
  BY <1>1, <1>2 DEF NoDoubles
<1> QED
  BY <1>1, <1>3, <1>4, BoundAssumption

\* A run that is put on top of a list that has it not.
LEMMA OnTopRuns ==
  ASSUME NEW run \in Int, NEW runs \in Seq(Int), Len(runs) <= Bound.kept
  PROVE  /\ OnMigration!OnTop(run, runs) \in Seq(Int) /\ Len(OnMigration!OnTop(run, runs)) <= Bound.kept
         /\ NoDoubles(runs) /\ run \notin OnMigration!Range(runs) => NoDoubles(OnMigration!OnTop(run, runs))
<1> DEFINE m == IF Len(runs) < Bound.kept THEN Len(runs) + 1 ELSE Bound.kept
           all == <<run>> \o runs
<1>1. m \in Nat /\ m <= Bound.kept /\ m <= Len(runs) + 1
  BY BoundAssumption
<1>2. /\ all \in Seq(Int) /\ Len(all) = Len(runs) + 1 /\ all[1] = run
      /\ \A i \in 2..Len(all) : all[i] = runs[i - 1]
  OBVIOUS
<1>3. OnMigration!OnTop(run, runs) = SubSeq(all, 1, m)
  BY DEF OnMigration!OnTop
<1> HIDE DEF m, all
<1> DEFINE top == OnMigration!OnTop(run, runs)
<1>4. top \in Seq(Int) /\ Len(top) = m /\ \A i \in 1..m : top[i] = all[i]
  BY <1>1, <1>2, <1>3
<1> HIDE DEF top
<1>5. ASSUME NoDoubles(runs), run \notin OnMigration!Range(runs) PROVE NoDoubles(top)
  <2>0. DOMAIN top = 1..m
    BY <1>4
  <2>1. \A i \in 1..Len(runs) : runs[i] # run
    BY <1>5 DEF OnMigration!Range
  <2>2. ASSUME NEW i \in 1..m, NEW j \in 1..m, i < j PROVE top[i] # top[j]
    <3>1. j \in 2..Len(all) /\ j - 1 \in 1..Len(runs) /\ top[j] = runs[j - 1]
      BY <1>1, <1>2, <1>4, <2>2, SMTT(30)
    <3>2. CASE i = 1
      BY <1>2, <1>4, <2>1, <3>1, <3>2
    <3>3. CASE i # 1
      <4>1. i \in 2..Len(all) /\ i - 1 \in 1..Len(runs) /\ i - 1 # j - 1
        BY <1>1, <1>2, <2>2, <3>3
      <4>2. top[i] = runs[i - 1]
        BY <1>2, <1>4, <4>1
      <4> QED
        BY <1>5, <3>1, <4>1, <4>2 DEF NoDoubles
    <3> QED
      BY <3>2, <3>3
  <2>3. \A i, j \in 1..m : i # j => i < j \/ j < i
    BY <1>1
  <2> QED
    BY <2>0, <2>2, <2>3, Zenon DEF NoDoubles
<1> QED
  BY <1>1, <1>4, <1>5 DEF top

\* It holds when the page opens.
LEMMA MigrationShowInit == OnMigration!Init => MigrationShow
<1> SUFFICES ASSUME OnMigration!Init PROVE MigrationShow
  OBVIOUS
<1>1. PICK first \in {<<>>, <<[cron |-> "daily", active |-> TRUE]>>}, shape \in BOOLEAN, conns \in {{}, {"c"}, {"d"}} :
        srv = [config |-> 0, shape |-> shape, conns |-> conns, schedules |-> first, runs |-> 1, exists |-> TRUE]
  BY Zenon DEF OnMigration!Init
<1>2. ui = [pipeline |-> OnMigration!Unread, form |-> OnMigration!Unread, outside |-> FALSE, conns |-> {},
            schedule |-> OnMigration!NoSchedule, draft |-> "", loaded |-> FALSE, submitting |-> FALSE, saving |-> FALSE,
            triggering |-> FALSE, deleting |-> FALSE, dry |-> "no", dialog |-> "none", runs |-> OnMigration!Unpolled, left |-> FALSE]
  BY Zenon DEF OnMigration!Init
<1>3. srv.config = 0 /\ srv.runs = 1
  BY <1>1
<1>4. /\ {"pipeline", "form", "loaded", "schedule", "dry", "dialog", "runs"} \subseteq DOMAIN ui
      /\ ui.form = OnMigration!Unread /\ ui.dialog = "none" /\ ui.dry = "no" /\ ui.runs = OnMigration!Unpolled /\ ~ui.loaded
  BY <1>2
<1>5. MigrationTypes
  BY <1>3, <1>4 DEF MigrationTypes, OnMigration!TypeOK, OnMigration!Forms, OnMigration!Unpolled
<1>6. \A k \in DOMAIN net : DOMAIN net[k] = {"arg", "stage", "got"} /\ net[k].stage = "sent" /\ k \in {"load", "poll"}
  <2> DEFINE one == OnMigration!With(<<>>, "load", {})
  <2>1. DOMAIN one = {"load"} /\ DOMAIN one["load"] = {"arg", "stage", "got"} /\ one["load"].stage = "sent"
    BY DEF OnMigration!With
  <2>2. net = OnMigration!With(one, "poll", {})
    BY Zenon DEF OnMigration!Init
  <2> HIDE DEF one
  <2> QED
    BY <2>1, <2>2 DEF OnMigration!With
<1>7. \A k \in DOMAIN net : MigrationFits(k, net[k])
  BY <1>6 DEF MigrationFits
<1>8. KnowsConfig
  BY <1>4, <1>6 DEF KnowsConfig
<1>9. NoDoubles(ui.runs)
  BY <1>4 DEF NoDoubles, OnMigration!Unpolled
<1> QED
  BY <1>5, <1>7, <1>8, <1>9, MigrationRulesInit DEF MigrationShow

\* The server takes a request.
LEMMA MigrationTakes ==
  ASSUME MigrationShow, MigrationRules', NEW k, NEW state, NEW answer, OnMigration!Handles(k, state, answer),
         state.config \in OnMigration!Forms, state.runs \in Nat,
         k = "load" => answer.config \in OnMigration!Forms,
         k = "poll" => answer \in Seq(Int) /\ Len(answer) <= Bound.kept /\ NoDoubles(answer),
         k = "trigger" => answer \in Int,
         IF k = "update" THEN answer = state.config ELSE state.config = srv.config
  PROVE  MigrationShow'
<1>1. /\ ui' = ui /\ srv' = state /\ noise' = noise /\ k \in DOMAIN net /\ DOMAIN net' = DOMAIN net
      /\ \A j \in DOMAIN net : j # k => net'[j] = net[j]
      /\ net'[k] = [net[k] EXCEPT !.stage = "answered", !.got = answer]
  BY DEF OnMigration!Handles, OnMigration!Out
<1>2. DOMAIN net[k] = {"arg", "stage", "got"} /\ MigrationFits(k, net[k])
  BY <1>1 DEF MigrationShow, MigrationFits
<1>3. DOMAIN net'[k] = {"arg", "stage", "got"} /\ net'[k].arg = net[k].arg /\ net'[k].stage = "answered" /\ net'[k].got = answer
  BY <1>1, <1>2
<1>4. MigrationFits(k, net'[k])
  BY <1>2, <1>3 DEF MigrationFits
<1>5. \A j \in DOMAIN net' : MigrationFits(j, net'[j])
  BY <1>1, <1>4, Zenon DEF MigrationShow
<1>6. MigrationTypes'
  BY <1>1 DEF MigrationShow, MigrationTypes, OnMigration!TypeOK
<1>7. ASSUME noise' \cap Excepted = {} PROVE KnowsConfig'
  <2>1. KnowsConfig
    BY <1>1, <1>7 DEF MigrationShow
  <2>2. CASE k = "update"
    BY <1>1, <1>3, <2>2 DEF KnowsConfig
  <2>3. CASE k # "update"
    <3>1. srv'.config = srv.config /\ ("update" \in DOMAIN net => net'["update"] = net["update"])
      BY <1>1, <2>3
    <3> QED
      BY <1>1, <2>1, <3>1 DEF KnowsConfig
  <2> QED
    BY <2>2, <2>3
<1> QED
  BY <1>1, <1>5, <1>6, <1>7 DEF MigrationShow

\* The server's answers keep it: a load is answered with the stored form, an update with the form it stored.
LEMMA MigrationServe == MigrationShow /\ MigrationRules' /\ OnMigration!Serve => MigrationShow'
<1> SUFFICES ASSUME MigrationShow, MigrationRules', OnMigration!Serve PROVE MigrationShow'
  OBVIOUS
<1>0. DOMAIN srv = {"config", "shape", "conns", "schedules", "runs", "exists"} /\ srv.config \in OnMigration!Forms /\ srv.runs \in Nat
  BY DEF MigrationShow, MigrationRules, MigrationTypes
<1>1. ASSUME NEW k, NEW state, NEW answer, OnMigration!Handles(k, state, answer), k \notin {"load", "poll", "update", "trigger"},
             state.config = srv.config, state.runs = srv.runs
      PROVE  MigrationShow'
  BY <1>0, <1>1, MigrationTakes
<1>2. CASE OnMigration!Handles("load", srv, [config |-> srv.config, shape |-> srv.shape, conns |-> srv.conns, schedules |-> srv.schedules])
  <2> DEFINE answer == [config |-> srv.config, shape |-> srv.shape, conns |-> srv.conns, schedules |-> srv.schedules]
  <2>1. answer.config = srv.config /\ OnMigration!Handles("load", srv, answer)
    BY <1>2
  <2> HIDE DEF answer
  <2> QED
    BY <1>0, <2>1, MigrationTakes
<1>3. CASE OnMigration!Handles("poll", srv, OnMigration!Newest(srv.runs))
  BY <1>0, <1>3, NewestRuns, MigrationTakes
<1>4. CASE OnMigration!Out("update") /\ OnMigration!Handles("update", [srv EXCEPT !.config = net["update"].arg], net["update"].arg)
  <2> DEFINE state == [srv EXCEPT !.config = net["update"].arg]
             answer == net["update"].arg
  <2>1. state.config = answer /\ state.runs = srv.runs /\ OnMigration!Handles("update", state, answer)
    BY <1>0, <1>4
  <2>2. answer \in OnMigration!Forms
    BY <1>4 DEF MigrationShow, MigrationFits, OnMigration!Out
  <2> HIDE DEF state, answer
  <2> QED
    BY <1>0, <2>1, <2>2, MigrationTakes
<1>5. CASE OnMigration!Handles("trigger", [srv EXCEPT !.runs = @ + 1], srv.runs + 1)
  <2> DEFINE state == [srv EXCEPT !.runs = @ + 1]
             answer == srv.runs + 1
  <2>1. state.config = srv.config /\ state.runs \in Nat /\ answer \in Int /\ OnMigration!Handles("trigger", state, answer)
    BY <1>0, <1>5
  <2> HIDE DEF state, answer
  <2> QED
    BY <1>0, <2>1, MigrationTakes
<1>6. CASE OnMigration!Handles("dry run", srv, {})
  BY <1>1, <1>6
<1>7. ASSUME NEW after, NEW answer, OnMigration!Handles("schedule", [srv EXCEPT !.schedules = after], answer) PROVE MigrationShow'
  <2> DEFINE state == [srv EXCEPT !.schedules = after]
  <2>1. state.config = srv.config /\ state.runs = srv.runs /\ OnMigration!Handles("schedule", state, answer)
    BY <1>0, <1>7
  <2> HIDE DEF state
  <2> QED
    BY <1>1, <2>1
<1>8. CASE OnMigration!Handles("delete", [srv EXCEPT !.exists = FALSE], {})
  <2> DEFINE state == [srv EXCEPT !.exists = FALSE]
  <2>1. state.config = srv.config /\ state.runs = srv.runs /\ OnMigration!Handles("delete", state, {})
    BY <1>0, <1>8
  <2> HIDE DEF state
  <2> QED
    BY <1>1, <2>1
<1> QED
  BY <1>2, <1>3, <1>4, <1>5, <1>6, <1>7, <1>8, Zenon DEF OnMigration!Serve

\* The page goes on: requests are sent, what it shows of the server stays.
LEMMA MigrationActs ==
  ASSUME MigrationShow, MigrationRules', MigrationTypes', srv' = srv, noise' = noise,
         ui'.runs = ui.runs, ui'.pipeline = ui.pipeline, ui'.loaded = ui.loaded,
         \/ net' = net
         \/ \E k, arg : net' = OnMigration!Sent(k, arg) /\ (k = "update" => arg \in OnMigration!Forms)
  PROVE  MigrationShow'
<1>1. CASE net' = net
  BY <1>1 DEF MigrationShow, KnowsConfig
<1>2. ASSUME NEW k, NEW arg, net' = OnMigration!Sent(k, arg), k = "update" => arg \in OnMigration!Forms PROVE MigrationShow'
  <2>1. Sends(net, net', k) /\ net'[k].arg = arg
    BY <1>2, MigrationNet
  <2>2. MigrationFits(k, net'[k])
    BY <1>2, <2>1 DEF Sends, MigrationFits
  <2>3. \A j \in DOMAIN net' : MigrationFits(j, net'[j])
    BY <2>1, <2>2, Zenon DEF MigrationShow, Sends
  <2>4. KnowsConfig => KnowsConfig'
    BY <2>1 DEF KnowsConfig, Sends
  <2> QED
    BY <2>3, <2>4 DEF MigrationShow
<1> QED
  BY <1>1, <1>2

\* The user's clicks and the poll.
LEMMA MigrationActions ==
  ASSUME MigrationShow, MigrationRules', OnMigration!Clicks \/ OnMigration!PollFires
  PROVE  MigrationShow'
<1>0. {"pipeline", "form", "loaded", "schedule", "dry", "dialog", "runs", "saving", "draft"} \subseteq DOMAIN ui /\ MigrationTypes
  BY DEF MigrationShow, MigrationRules, MigrationTypes
<1> USE DEF MigrationTypes, OnMigration!TypeOK
<1>1. CASE OnMigration!ChangeLanguage \/ OnMigration!PollFires \/ OnMigration!RunNow \/ OnMigration!DryRun
          \/ OnMigration!ToggleSchedule \/ OnMigration!SaveSchedule \/ OnMigration!ConfirmClear \/ OnMigration!ConfirmDelete
  <2>1. PICK k \in {"load", "poll", "trigger", "dry run", "schedule", "delete"} : \E arg : net' = OnMigration!Sent(k, arg)
    BY <1>1, Zenon DEF OnMigration!ChangeLanguage, OnMigration!PollFires, OnMigration!RunNow, OnMigration!DryRun,
       OnMigration!ToggleSchedule, OnMigration!SaveSchedule, OnMigration!ConfirmClear, OnMigration!ConfirmDelete
  <2>2. MigrationTypes' /\ srv' = srv /\ noise' = noise /\ ui'.runs = ui.runs /\ ui'.pipeline = ui.pipeline /\ ui'.loaded = ui.loaded
    BY <1>0, <1>1 DEF OnMigration!ChangeLanguage, OnMigration!PollFires, OnMigration!RunNow, OnMigration!DryRun,
       OnMigration!ToggleSchedule, OnMigration!SaveSchedule, OnMigration!ConfirmClear, OnMigration!ConfirmDelete
  <2>3. k # "update"
    OBVIOUS
  <2> QED
    BY <2>1, <2>2, <2>3, MigrationActs
<1>2. CASE OnMigration!Submit
  <2>1. MigrationTypes' /\ srv' = srv /\ noise' = noise /\ ui'.runs = ui.runs /\ ui'.pipeline = ui.pipeline /\ ui'.loaded = ui.loaded
    BY <1>0, <1>2 DEF OnMigration!Submit
  <2>2. net' = OnMigration!Sent("update", ui.form) /\ ui.form \in OnMigration!Forms
    BY <1>2 DEF OnMigration!Submit
  <2> QED
    BY <2>1, <2>2, MigrationActs
<1>3. CASE OnMigration!Dismiss \/ OnMigration!AskDelete \/ OnMigration!LeaveDialog \/ OnMigration!AskClear
           \/ (\E f \in OnMigration!Forms \cup {OnMigration!Blank} : OnMigration!Change(f)) \/ \E c \in OnMigration!Crons : OnMigration!Draft(c)
  <2>1. MigrationTypes' /\ srv' = srv /\ noise' = noise /\ ui'.runs = ui.runs /\ ui'.pipeline = ui.pipeline /\ ui'.loaded = ui.loaded /\ net' = net
    BY <1>0, <1>3 DEF OnMigration!Dismiss, OnMigration!AskDelete, OnMigration!LeaveDialog, OnMigration!AskClear, OnMigration!Change, OnMigration!Draft
  <2> QED
    BY <2>1, MigrationActs
<1> QED
  BY <1>1, <1>2, <1>3 DEF OnMigration!Clicks

\* An answer is taken.
LEMMA MigrationTold ==
  ASSUME MigrationShow, MigrationRules', MigrationTypes', srv' = srv, NEW k \in DOMAIN net, net' = OnMigration!Closed(k),
         noise' \cap Excepted = {} => noise \cap Excepted = {} /\ (k = "update" => net["update"].stage = "answered"),
         \/ ui'.pipeline = ui.pipeline /\ ui'.loaded = ui.loaded /\ k # "update"
         \/ k = "update" /\ (net["update"].stage = "answered" => ui'.pipeline = net["update"].got)
         \/ noise' \cap Excepted = {} => ui'.pipeline = srv.config,
         "polled first" \notin noise' => NoDoubles(ui'.runs)
  PROVE  MigrationShow'
<1>1. Closes(net, net', k)
  BY MigrationNet
<1>2. \A j \in DOMAIN net' : MigrationFits(j, net'[j])
  BY <1>1, Zenon DEF MigrationShow, Closes
<1>3. ASSUME noise' \cap Excepted = {} PROVE KnowsConfig'
  <2>1. KnowsConfig /\ (k = "update" => net["update"].stage = "answered")
    BY <1>3 DEF MigrationShow
  <2>2. CASE k = "update"
    BY <1>1, <1>3, <2>1, <2>2 DEF KnowsConfig, Closes
  <2>3. CASE k # "update"
    BY <1>1, <1>3, <2>1, <2>3 DEF KnowsConfig, Closes
  <2> QED
    BY <2>2, <2>3
<1> QED
  BY <1>2, <1>3 DEF MigrationShow

\* So do the page's answers.
LEMMA MigrationReturns == MigrationShow /\ MigrationRules' /\ OnMigration!Returns => MigrationShow'
<1> SUFFICES ASSUME MigrationShow, MigrationRules', OnMigration!Returns PROVE MigrationShow'
  OBVIOUS
<1>0. {"pipeline", "form", "loaded", "schedule", "dry", "dialog", "runs", "saving", "draft"} \subseteq DOMAIN ui /\ MigrationTypes
  BY DEF MigrationShow, MigrationRules, MigrationTypes
<1> USE DEF MigrationTypes, OnMigration!TypeOK
<1>1. CASE OnMigration!LoadBack
  <2>1. /\ srv' = srv /\ noise \subseteq noise' /\ net' = OnMigration!Closed("load") /\ "load" \in DOMAIN net
        /\ "polled first" \notin noise' => "polled first" \notin noise
    BY <1>1 DEF OnMigration!LoadBack, OnMigration!Returned, OnMigration!Answered, OnMigration!Rejected, OnMigration!Out
  <2>2. noise' \cap Excepted = {} => noise \cap Excepted = {}
    BY <2>1
  <2>3. CASE OnMigration!Rejected("load")
    <3>1. ui' = ui
      BY <1>1, <2>3 DEF OnMigration!LoadBack
    <3>2. MigrationTypes' /\ ui'.pipeline = ui.pipeline /\ ui'.loaded = ui.loaded
      BY <1>0, <2>1, <3>1
    <3>3. "polled first" \notin noise' => NoDoubles(ui'.runs)
      BY <2>1, <3>1 DEF MigrationShow
    <3> QED
      BY <2>1, <2>2, <3>2, <3>3, MigrationTold
  <2>4. CASE ~OnMigration!Rejected("load")
    <3> DEFINE got == net["load"].got
               read == [ui EXCEPT !.pipeline = got.config, !.conns = got.conns, !.schedule = OnMigration!First(got.schedules),
                                  !.draft = OnMigration!First(got.schedules).cron, !.loaded = TRUE]
    <3>1. /\ DOMAIN read = DOMAIN ui /\ read.pipeline = got.config /\ read.runs = ui.runs
          /\ read.form = ui.form /\ read.dry = ui.dry /\ read.dialog = ui.dialog
      BY <1>0
    <3>2. ui' = IF got.shape THEN [read EXCEPT !.form = got.config] ELSE [read EXCEPT !.outside = TRUE]
      BY <1>1, <2>4 DEF OnMigration!LoadBack
    <3>3. OnMigration!Answered("load") /\ (got.config # srv.config => "stale load" \in noise')
      BY <1>1, <2>4 DEF OnMigration!LoadBack, OnMigration!Returned
    <3>4. got.config \in OnMigration!Forms
      BY <2>1, <3>3 DEF OnMigration!Answered, MigrationShow, MigrationFits
    <3> HIDE DEF read
    <3>5. /\ DOMAIN ui' = DOMAIN ui /\ ui'.pipeline = got.config /\ ui'.runs = ui.runs
          /\ ui'.form \in {ui.form, got.config} /\ ui'.dry = ui.dry /\ ui'.dialog = ui.dialog
      BY <1>0, <3>1, <3>2
    <3> HIDE DEF got
    <3>6. MigrationTypes'
      BY <1>0, <2>1, <3>4, <3>5
    <3>7. noise' \cap Excepted = {} => ui'.pipeline = srv.config
      BY <3>3, <3>5 DEF Excepted
    <3>8. "polled first" \notin noise' => NoDoubles(ui'.runs)
      BY <2>1, <3>5 DEF MigrationShow
    <3> QED
      BY <2>1, <2>2, <3>6, <3>7, <3>8, MigrationTold
  <2> QED
    BY <2>3, <2>4
<1>2. CASE OnMigration!PollBack
  <2>1. /\ srv' = srv /\ noise' = noise /\ net' = OnMigration!Closed("poll") /\ "poll" \in DOMAIN net
        /\ ui'.pipeline = ui.pipeline /\ ui'.loaded = ui.loaded /\ DOMAIN ui' = DOMAIN ui
        /\ ui'.form = ui.form /\ ui'.dry = ui.dry /\ ui'.dialog = ui.dialog
        /\ ui'.runs = IF OnMigration!Answered("poll") THEN net["poll"].got ELSE IF ui.runs = OnMigration!Unpolled THEN <<>> ELSE ui.runs
    BY <1>0, <1>2 DEF OnMigration!PollBack, OnMigration!Returned, OnMigration!Answered, OnMigration!Rejected, OnMigration!Out
  <2>2. /\ ui'.runs \in Seq(Int) /\ (Len(ui'.runs) <= Bound.kept \/ ui'.runs = OnMigration!Unpolled)
        /\ "polled first" \notin noise => NoDoubles(ui'.runs)
    <3>1. CASE OnMigration!Answered("poll")
      BY <2>1, <3>1 DEF MigrationShow, MigrationFits, OnMigration!Answered
    <3>2. CASE ~OnMigration!Answered("poll") /\ ui.runs = OnMigration!Unpolled
      <4>1. ui'.runs = <<>>
        BY <2>1, <3>2
      <4>2. <<>> \in Seq(Int) /\ Len(<<>>) = 0 /\ NoDoubles(<<>>)
        BY DEF NoDoubles
      <4>3. Len(ui'.runs) = 0 /\ ui'.runs \in Seq(Int) /\ NoDoubles(ui'.runs)
        BY <4>1, <4>2, Zenon
      <4> QED
        BY <4>3, BoundAssumption
    <3>3. CASE ~OnMigration!Answered("poll") /\ ui.runs # OnMigration!Unpolled
      BY <1>0, <2>1, <3>3 DEF MigrationShow
    <3> QED
      BY <3>1, <3>2, <3>3
  <2>3. MigrationTypes'
    BY <1>0, <2>1, <2>2
  <2> QED
    BY <2>1, <2>2, <2>3, MigrationTold
<1>3. CASE OnMigration!SubmitBack
  <2>1. /\ srv' = srv /\ net' = OnMigration!Closed("update") /\ "update" \in DOMAIN net
        /\ noise' = OnMigration!Lost("update") /\ (net["update"].stage \in {"answered", "failed"})
        /\ ui'.loaded = ui.loaded /\ DOMAIN ui' = DOMAIN ui /\ ui'.runs = ui.runs
        /\ ui'.form = ui.form /\ ui'.dry = ui.dry /\ ui'.dialog = ui.dialog
        /\ net["update"].stage = "answered" => ui'.pipeline = net["update"].got
    BY <1>0, <1>3 DEF OnMigration!SubmitBack, OnMigration!Returned, OnMigration!Answered, OnMigration!Rejected, OnMigration!Out
  <2>2. /\ noise' \cap Excepted = {} => noise \cap Excepted = {} /\ net["update"].stage = "answered"
        /\ "polled first" \notin noise' => "polled first" \notin noise
    BY <2>1 DEF OnMigration!Lost, OnMigration!Rejected, OnMigration!Out, Excepted
  <2>3. MigrationTypes' /\ ("polled first" \notin noise' => NoDoubles(ui'.runs))
    BY <1>0, <2>1, <2>2 DEF MigrationShow
  <2> QED
    BY <2>1, <2>2, <2>3, MigrationTold
<1>4. CASE OnMigration!RunNowBack
  <2>1. /\ srv' = srv /\ net' = OnMigration!Closed("trigger") /\ "trigger" \in DOMAIN net
        /\ noise \subseteq noise' /\ (OnMigration!Rejected("trigger") \/ net["trigger"].stage = "answered")
        /\ noise' = IF OnMigration!Answered("trigger") /\ net["trigger"].got \in OnMigration!Range(ui.runs) THEN noise \cup {"polled first"} ELSE noise
    BY <1>4 DEF OnMigration!RunNowBack, OnMigration!Returned, OnMigration!Answered, OnMigration!Rejected, OnMigration!Out
  <2> DEFINE shown == IF ui.runs = OnMigration!Unpolled THEN <<>> ELSE ui.runs
  <2>2. /\ ui'.pipeline = ui.pipeline /\ ui'.loaded = ui.loaded /\ DOMAIN ui' = DOMAIN ui
        /\ ui'.form = ui.form /\ ui'.dry = ui.dry /\ ui'.dialog = ui.dialog
        /\ ui'.runs = IF OnMigration!Rejected("trigger") THEN ui.runs ELSE OnMigration!OnTop(net["trigger"].got, shown)
    BY <1>0, <1>4 DEF OnMigration!RunNowBack
  <2>3. shown \in Seq(Int) /\ Len(shown) <= Bound.kept
    <3>1. CASE ui.runs = OnMigration!Unpolled
      <4>1. shown = <<>> /\ <<>> \in Seq(Int) /\ Len(<<>>) = 0
        BY <3>1
      <4>2. shown \in Seq(Int) /\ Len(shown) = 0
        BY <4>1, Zenon
      <4> QED
        BY <4>2, BoundAssumption
    <3>2. CASE ui.runs # OnMigration!Unpolled
      BY <1>0, <3>2
    <3> QED
      BY <3>1, <3>2
  <2>4. NoDoubles(ui.runs) => NoDoubles(shown)
    <3>1. NoDoubles(<<>>)
      BY DEF NoDoubles
    <3> QED
      BY <3>1
  <2>5. \A r : r \notin OnMigration!Range(ui.runs) => r \notin OnMigration!Range(shown)
    <3>1. OnMigration!Range(<<>>) = {}
      BY DEF OnMigration!Range
    <3> QED
      BY <3>1
  <2> HIDE DEF shown
  <2>6. /\ ui'.runs \in Seq(Int) /\ (Len(ui'.runs) <= Bound.kept \/ ui'.runs = OnMigration!Unpolled)
        /\ "polled first" \notin noise' => NoDoubles(ui'.runs)
    <3>1. CASE OnMigration!Rejected("trigger")
      BY <1>0, <2>1, <2>2, <3>1 DEF MigrationShow
    <3>2. CASE ~OnMigration!Rejected("trigger")
      <4>1. OnMigration!Answered("trigger") /\ net["trigger"].got \in Int
        BY <2>1, <3>2 DEF MigrationShow, MigrationFits, OnMigration!Answered, OnMigration!Out
      <4>2. ui'.runs = OnMigration!OnTop(net["trigger"].got, shown)
        BY <2>2, <3>2
      <4>3. "polled first" \notin noise' => net["trigger"].got \notin OnMigration!Range(shown) /\ NoDoubles(shown)
        BY <2>1, <2>4, <2>5, <4>1 DEF MigrationShow
      <4> QED
        BY <2>3, <4>1, <4>2, <4>3, OnTopRuns
    <3> QED
      BY <3>1, <3>2
  <2>7. MigrationTypes'
    BY <1>0, <2>1, <2>2, <2>6
  <2>8. noise' \cap Excepted = {} => noise \cap Excepted = {}
    BY <2>1
  <2> QED
    BY <2>1, <2>2, <2>6, <2>7, <2>8, MigrationTold
<1>5. ASSUME NEW k \in {"dry run", "schedule", "delete"},
             \/ k = "dry run" /\ OnMigration!DryRunBack
             \/ k = "schedule" /\ OnMigration!ScheduleBack
             \/ k = "delete" /\ OnMigration!DeleteBack
      PROVE  MigrationShow'
  <2>1. /\ srv' = srv /\ net' = OnMigration!Closed(k) /\ k \in DOMAIN net
    BY <1>5 DEF OnMigration!DryRunBack, OnMigration!ScheduleBack, OnMigration!DeleteBack, OnMigration!Returned, OnMigration!Answered, OnMigration!Rejected, OnMigration!Out
  <2>2. noise' = noise \/ noise' = noise \cup {"lost answer"}
    BY <1>5 DEF OnMigration!DryRunBack, OnMigration!ScheduleBack, OnMigration!DeleteBack, OnMigration!Lost
  <2>3. /\ ui'.pipeline = ui.pipeline /\ ui'.loaded = ui.loaded /\ DOMAIN ui' = DOMAIN ui /\ ui'.runs = ui.runs
        /\ ui'.form = ui.form /\ ui'.dry \in {ui.dry, "shown", "no"} /\ ui'.dialog \in {ui.dialog, "none"}
    BY <1>0, <1>5 DEF OnMigration!DryRunBack, OnMigration!ScheduleBack, OnMigration!DeleteBack
  <2>4. noise' \cap Excepted = {} => noise \cap Excepted = {}
    BY <2>2
  <2>5. MigrationTypes' /\ ("polled first" \notin noise' => NoDoubles(ui'.runs))
    BY <1>0, <2>1, <2>2, <2>3 DEF MigrationShow
  <2> QED
    BY <2>1, <2>3, <2>4, <2>5, MigrationTold
<1>6. CASE OnMigration!DryRunBack
  BY <1>5, <1>6
<1>7. CASE OnMigration!ScheduleBack
  BY <1>5, <1>7
<1>8. CASE OnMigration!DeleteBack
  BY <1>5, <1>8
<1> QED
  BY <1>1, <1>2, <1>3, <1>4, <1>6, <1>7, <1>8 DEF OnMigration!Returns

\* Every step of the page keeps it.
LEMMA MigrationShowStep == MigrationShow /\ OnMigration!Next => MigrationShow'
<1> SUFFICES ASSUME MigrationShow, OnMigration!Next PROVE MigrationShow'
  OBVIOUS
<1>0. MigrationRules'
  BY MigrationRulesStep DEF MigrationShow
<1>1. CASE OnMigration!NoSchedules
  <2> DEFINE got == [config |-> srv.config, shape |-> srv.shape, conns |-> srv.conns, schedules |-> <<>>]
  <2>1. /\ ui' = ui /\ srv' = srv /\ noise' = noise \cup {"schedules unread"} /\ "load" \in DOMAIN net /\ DOMAIN net' = DOMAIN net
        /\ \A j \in DOMAIN net : j # "load" => net'[j] = net[j]
        /\ net'["load"] = [net["load"] EXCEPT !.stage = "answered", !.got = got]
    BY <1>1 DEF OnMigration!NoSchedules, OnMigration!Out
  <2>2. got.config = srv.config
    OBVIOUS
  <2> HIDE DEF got
  <2>3. MigrationFits("load", net'["load"])
    <3>1. DOMAIN net["load"] = {"arg", "stage", "got"}
      BY <2>1 DEF MigrationShow, MigrationFits
    <3>2. DOMAIN net'["load"] = {"arg", "stage", "got"} /\ net'["load"].got = got
      BY <2>1, <3>1
    <3>3. got.config \in OnMigration!Forms
      BY <2>2 DEF MigrationShow, MigrationTypes
    <3> QED
      BY <3>2, <3>3 DEF MigrationFits
  <2>4. \A j \in DOMAIN net' : MigrationFits(j, net'[j])
    BY <2>1, <2>3, Zenon DEF MigrationShow
  <2>5. MigrationTypes' /\ noise' \cap Excepted # {}
    BY <2>1 DEF MigrationShow, MigrationTypes, OnMigration!TypeOK, Excepted
  <2> QED
    BY <1>0, <2>1, <2>4, <2>5 DEF MigrationShow
<1>2. ASSUME NEW k \in DOMAIN net, OnMigration!Breaks(k) PROVE MigrationShow'
  <2>1. /\ ui' = ui /\ srv' = srv /\ noise' = noise /\ DOMAIN net' = DOMAIN net
        /\ \A j \in DOMAIN net : j # k => net'[j] = net[j]
        /\ net'[k] = [net[k] EXCEPT !.stage = "failed", !.got = "nothing"]
    BY <1>2 DEF OnMigration!Breaks, OnMigration!Fails
  <2>2. MigrationFits(k, net[k])
    BY DEF MigrationShow
  <2>3. DOMAIN net'[k] = {"arg", "stage", "got"} /\ net'[k].arg = net[k].arg /\ net'[k].stage = "failed"
    BY <2>1, <2>2 DEF MigrationFits
  <2>4. MigrationFits(k, net'[k])
    BY <2>2, <2>3 DEF MigrationFits
  <2>5. \A j \in DOMAIN net' : MigrationFits(j, net'[j])
    BY <2>1, <2>4, Zenon DEF MigrationShow
  <2>6. KnowsConfig => KnowsConfig'
    BY <2>1, <2>3 DEF KnowsConfig
  <2>7. MigrationTypes'
    BY <2>1 DEF MigrationShow, MigrationTypes, OnMigration!TypeOK
  <2> QED
    BY <1>0, <2>1, <2>5, <2>6, <2>7 DEF MigrationShow
<1> QED
  BY <1>0, <1>1, <1>2, MigrationServe, MigrationActions, MigrationReturns DEF OnMigration!Next

\* It is what the page promises.
LEMMA MigrationShowEnough == MigrationShow => OnMigration!ShowsServer /\ OnMigration!TypeOK
<1> SUFFICES ASSUME MigrationShow PROVE OnMigration!ShowsServer /\ OnMigration!TypeOK
  OBVIOUS
<1>1. ASSUME OnMigration!Quiet, ui.loaded, noise \cap Excepted = {}
      PROVE  ui.pipeline = srv.config /\ ui.schedule = OnMigration!First(srv.schedules)
  BY <1>1 DEF MigrationShow, MigrationRules, KnowsSchedule, KnowsConfig, OnMigration!Quiet
<1> QED
  BY <1>1 DEF MigrationShow, MigrationTypes, NoDoubles, Excepted, OnMigration!ShowsServer

------------------------------------------------------------------------------
(* The form of a new migration *)

\* The form of a new migration: its spinners, with the fields they look at.
NewMigrationSpins ==
  /\ {"form", "conns", "loading", "submitting", "tables", "columns"} \subseteq DOMAIN ui
  /\ "conn" \in DOMAIN ui.form
  /\ OnNewMigration!SpinnersHaveRequests

\* It holds when the page opens.
LEMMA NewMigrationInit == OnNewMigration!Init => NewMigrationSpins
  BY DEF OnNewMigration!Init, NewMigrationSpins, OnNewMigration!SpinnersHaveRequests, OnNewMigration!Fresh

\* A render keeps the spinners: when it gives up the tables of a connection it
\* asks for those of the next one.
LEMMA RendersKeep ==
  ASSUME NewMigrationSpins, NEW requests, NEW u, NEW again, OnNewMigration!Renders(requests, u, again),
         DOMAIN u = DOMAIN ui, "conn" \in DOMAIN u.form, u.loading = ui.loading, u.submitting = ui.submitting,
         "tables" \in DOMAIN net => "tables" \in DOMAIN requests,
         "create" \in DOMAIN net => "create" \in DOMAIN requests
  PROVE  NewMigrationSpins'
<1> DEFINE row == again \/ OnNewMigration!Row(u) # OnNewMigration!Row(ui)
           cols == row \/ u.form.table # ui.form.table
           columns == IF cols /\ (OnNewMigration!Row(u) = OnNewMigration!None \/ u.form.table = OnNewMigration!None) THEN OnNewMigration!None ELSE u.columns
           kept == [k \in DOMAIN requests \ ((IF row THEN {"tables"} ELSE {}) \cup (IF cols THEN {"columns"} ELSE {})) |-> requests[k]]
           withTables == IF row /\ OnNewMigration!Row(u) # OnNewMigration!None THEN OnNewMigration!With(kept, "tables", OnNewMigration!Row(u)) ELSE kept
           form == IF u.form.strategy # ui.form.strategy \/ columns # ui.columns THEN OnNewMigration!Suggested(u.form, columns) ELSE u.form
           tables == IF row /\ OnNewMigration!Row(u) = OnNewMigration!None THEN OnNewMigration!None ELSE u.tables
           reading == IF row /\ OnNewMigration!Row(u) # OnNewMigration!None THEN TRUE ELSE u.loading
<1>1. /\ net' = IF cols /\ OnNewMigration!Row(u) # OnNewMigration!None /\ u.form.table # OnNewMigration!None
                THEN OnNewMigration!With(withTables, "columns", u.form.table) ELSE withTables
      /\ ui' = [u EXCEPT !.tables = tables, !.loading = reading, !.columns = columns, !.form = form]
  BY DEF OnNewMigration!Renders
<1>2. "conn" \in DOMAIN form /\ form.conn = u.form.conn
  <2> HIDE DEF columns
  <2>1. OnNewMigration!Suggested(u.form, columns) \in {u.form, [u.form EXCEPT !.key = columns], [u.form EXCEPT !.cursor = columns]}
    BY DEF OnNewMigration!Suggested
  <2> QED
    BY <2>1
<1>3. /\ DOMAIN ui' = DOMAIN ui /\ ui'.loading = reading /\ ui'.form = form
      /\ ui'.conns = u.conns /\ ui'.submitting = ui.submitting
  <2> HIDE DEF tables, reading, columns, form
  <2> QED
    BY <1>1 DEF NewMigrationSpins
<1>4. OnNewMigration!Row(ui') = OnNewMigration!Row(u)
  <2> HIDE DEF form
  <2> QED
    BY <1>2, <1>3 DEF OnNewMigration!Row
<1>5. DOMAIN withTables \subseteq DOMAIN net'
  <2> HIDE DEF withTables, cols
  <2> QED
    BY <1>1 DEF OnNewMigration!With
<1>6. /\ "create" \in DOMAIN requests => "create" \in DOMAIN withTables
      /\ ~row /\ "tables" \in DOMAIN requests => "tables" \in DOMAIN withTables
      /\ row /\ OnNewMigration!Row(u) # OnNewMigration!None => "tables" \in DOMAIN withTables
  <2>1. DOMAIN kept = DOMAIN requests \ ((IF row THEN {"tables"} ELSE {}) \cup (IF cols THEN {"columns"} ELSE {}))
    OBVIOUS
  <2> HIDE DEF kept, cols, row
  <2>2. DOMAIN withTables = IF row /\ OnNewMigration!Row(u) # OnNewMigration!None THEN DOMAIN kept \cup {"tables"} ELSE DOMAIN kept
    BY DEF OnNewMigration!With
  <2> HIDE DEF withTables
  <2> QED
    BY <2>1, <2>2
<1>7. ~row => OnNewMigration!Row(u) = OnNewMigration!Row(ui)
  OBVIOUS
<1>8. ~row \/ OnNewMigration!Row(u) = OnNewMigration!None => reading = ui.loading
  BY DEF NewMigrationSpins
<1> HIDE DEF row, cols, columns, kept, withTables, form, tables, reading
<1> QED
  BY <1>2, <1>3, <1>4, <1>5, <1>6, <1>7, <1>8 DEF NewMigrationSpins, OnNewMigration!SpinnersHaveRequests, OnNewMigration!Out

\* Every step of the page keeps it.
LEMMA NewMigrationStep == NewMigrationSpins /\ OnNewMigration!Next => NewMigrationSpins'
<1> SUFFICES ASSUME NewMigrationSpins, OnNewMigration!Next PROVE NewMigrationSpins'
  OBVIOUS
<1> USE DEF OnNewMigration!Out
<1>1. CASE OnNewMigration!Serve
  <2>1. ui' = ui /\ DOMAIN net' = DOMAIN net
    BY <1>1 DEF OnNewMigration!Serve, OnNewMigration!Handles
  <2> QED
    BY <2>1 DEF NewMigrationSpins, OnNewMigration!SpinnersHaveRequests, OnNewMigration!Row
<1>2. CASE OnNewMigration!ConnectionsBack
  <2> DEFINE u == [ui EXCEPT !.conns = OnNewMigration!Answered("connections") \/ @]
             again == OnNewMigration!Answered("connections") /\ ui.conns
  <2>1. OnNewMigration!Renders(OnNewMigration!Closed("connections"), u, again)
    BY <1>2 DEF OnNewMigration!ConnectionsBack
  <2>2. DOMAIN u = DOMAIN ui /\ u.form = ui.form /\ u.loading = ui.loading /\ u.submitting = ui.submitting
    BY DEF NewMigrationSpins
  <2>3. DOMAIN OnNewMigration!Closed("connections") = DOMAIN net \ {"connections"}
    BY DEF OnNewMigration!Closed, OnNewMigration!Without, OnNewMigration!Restrict
  <2> HIDE DEF u, again
  <2>4. "conn" \in DOMAIN u.form
    BY <2>2 DEF NewMigrationSpins
  <2> QED
    BY <2>1, <2>2, <2>3, <2>4, RendersKeep
<1>3. CASE OnNewMigration!TablesBack
  <2>1. DOMAIN ui' = DOMAIN ui /\ ui'.loading = FALSE /\ ui'.submitting = ui.submitting /\ ui'.form = ui.form
    BY <1>3 DEF OnNewMigration!TablesBack, NewMigrationSpins
  <2>2. DOMAIN net' = DOMAIN net \ {"tables"}
    BY <1>3 DEF OnNewMigration!TablesBack, OnNewMigration!Closed, OnNewMigration!Without, OnNewMigration!Restrict
  <2> QED
    BY <2>1, <2>2 DEF NewMigrationSpins, OnNewMigration!SpinnersHaveRequests
<1>4. CASE OnNewMigration!ColumnsBack
  <2> DEFINE u == [ui EXCEPT !.columns = IF OnNewMigration!Answered("columns") THEN net["columns"].got ELSE OnNewMigration!None]
  <2>1. OnNewMigration!Renders(OnNewMigration!Closed("columns"), u, FALSE)
    BY <1>4 DEF OnNewMigration!ColumnsBack
  <2>2. DOMAIN u = DOMAIN ui /\ u.form = ui.form /\ u.loading = ui.loading /\ u.submitting = ui.submitting
    BY DEF NewMigrationSpins
  <2>3. DOMAIN OnNewMigration!Closed("columns") = DOMAIN net \ {"columns"}
    BY DEF OnNewMigration!Closed, OnNewMigration!Without, OnNewMigration!Restrict
  <2> HIDE DEF u
  <2>4. "conn" \in DOMAIN u.form
    BY <2>2 DEF NewMigrationSpins
  <2> QED
    BY <2>1, <2>2, <2>3, <2>4, RendersKeep
<1>5. CASE OnNewMigration!CreateBack
  <2>1. \/ /\ DOMAIN ui' = DOMAIN ui /\ ui'.form = ui.form /\ ui'.loading = ui.loading /\ ui'.conns = ui.conns
           /\ "create" \in DOMAIN net'
        \/ /\ DOMAIN ui' = DOMAIN ui /\ ui'.form = ui.form /\ ui'.loading = ui.loading /\ ui'.conns = ui.conns
           /\ ui'.submitting = FALSE
    <3>1. CASE ui.plan # {}
      <4>1. PICK item : /\ DOMAIN ui' = DOMAIN ui /\ ui'.form = ui.form /\ ui'.loading = ui.loading /\ ui'.conns = ui.conns
                        /\ net' = OnNewMigration!With(OnNewMigration!Closed("create"), "create", item)
        BY <1>5, <3>1 DEF OnNewMigration!CreateBack, NewMigrationSpins
      <4> QED
        BY <4>1 DEF OnNewMigration!With
    <3>2. CASE ui.plan = {}
      BY <1>5, <3>2 DEF OnNewMigration!CreateBack, NewMigrationSpins
    <3> QED
      BY <3>1, <3>2
  <2>2. DOMAIN net \ {"create"} \subseteq DOMAIN net'
    BY <1>5 DEF OnNewMigration!CreateBack, OnNewMigration!With, OnNewMigration!Closed, OnNewMigration!Without, OnNewMigration!Restrict
  <2> QED
    BY <2>1, <2>2 DEF NewMigrationSpins, OnNewMigration!SpinnersHaveRequests, OnNewMigration!Row
<1>6. CASE OnNewMigration!ChangeLanguage
  <2>1. ui' = ui /\ DOMAIN net \subseteq DOMAIN net'
    BY <1>6 DEF OnNewMigration!ChangeLanguage, OnNewMigration!Sent, OnNewMigration!With
  <2> QED
    BY <2>1 DEF NewMigrationSpins, OnNewMigration!SpinnersHaveRequests, OnNewMigration!Row
<1>7. CASE OnNewMigration!Submit
  <2>1. DOMAIN ui' = DOMAIN ui /\ ui'.form = ui.form /\ ui'.loading = ui.loading /\ ui'.conns = ui.conns
    BY <1>7 DEF OnNewMigration!Submit, NewMigrationSpins
  <2>2. DOMAIN net' = DOMAIN net \cup {"create"}
    BY <1>7 DEF OnNewMigration!Submit, OnNewMigration!Sent, OnNewMigration!With
  <2> QED
    BY <2>1, <2>2 DEF NewMigrationSpins, OnNewMigration!SpinnersHaveRequests, OnNewMigration!Row
<1>s. ASSUME NEW f, OnNewMigration!Sets(f), "conn" \in DOMAIN f PROVE NewMigrationSpins'
  <2> DEFINE u == [ui EXCEPT !.form = f]
  <2>1. OnNewMigration!Renders(net, u, FALSE)
    BY <1>s DEF OnNewMigration!Sets
  <2>2. DOMAIN u = DOMAIN ui /\ u.form = f /\ u.loading = ui.loading /\ u.submitting = ui.submitting
    BY DEF NewMigrationSpins
  <2> HIDE DEF u
  <2> QED
    BY <1>s, <2>1, <2>2, RendersKeep
<1>f. "conn" \in DOMAIN ui.form
  BY DEF NewMigrationSpins
<1>8. ASSUME NEW c, OnNewMigration!PickConnection(c) PROVE NewMigrationSpins'
  BY <1>8, <1>s, <1>f DEF OnNewMigration!PickConnection
<1>9. ASSUME NEW m, OnNewMigration!PickMode(m) PROVE NewMigrationSpins'
  BY <1>9, <1>s, <1>f DEF OnNewMigration!PickMode
<1>10. ASSUME NEW table, OnNewMigration!PickTable(table) PROVE NewMigrationSpins'
  BY <1>10, <1>s, <1>f DEF OnNewMigration!PickTable
<1>11. ASSUME NEW s, OnNewMigration!PickSchema(s) PROVE NewMigrationSpins'
  BY <1>11, <1>s, <1>f DEF OnNewMigration!PickSchema
<1>12. ASSUME NEW table, OnNewMigration!ToggleTable(table) PROVE NewMigrationSpins'
  BY <1>12, <1>s, <1>f DEF OnNewMigration!ToggleTable
<1>13. CASE OnNewMigration!ToggleAll
  BY <1>13, <1>s, <1>f DEF OnNewMigration!ToggleAll
<1>14. ASSUME NEW s, OnNewMigration!PickStrategy(s) PROVE NewMigrationSpins'
  BY <1>14, <1>s, <1>f DEF OnNewMigration!PickStrategy
<1>15. CASE OnNewMigration!TypeColumn
  BY <1>15, <1>s, <1>f DEF OnNewMigration!TypeColumn
<1>16. ASSUME NEW k \in DOMAIN net, OnNewMigration!Breaks(k) PROVE NewMigrationSpins'
  <2>1. ui' = ui /\ DOMAIN net' = DOMAIN net
    BY <1>16 DEF OnNewMigration!Breaks, OnNewMigration!Fails
  <2> QED
    BY <2>1 DEF NewMigrationSpins, OnNewMigration!SpinnersHaveRequests, OnNewMigration!Row
<1> QED
  BY <1>1, <1>2, <1>3, <1>4, <1>5, <1>6, <1>7, <1>8, <1>9, <1>10, <1>11, <1>12, <1>13, <1>14, <1>15, <1>16
     DEF OnNewMigration!Next, OnNewMigration!Returns, OnNewMigration!Clicks

\* A configuration that reads as a migration of a table its connection has.
GoodConfig(config) ==
  /\ config.table \in OnNewMigration!TablesOf(config.conn)
  /\ config.table # "b-b" => OnNewMigration!Parsed(config) # OnNewMigration!None
  /\ OnNewMigration!Parsed(config) = "mirror" => config.key # OnNewMigration!None
  /\ OnNewMigration!Parsed(config) = "append" => config.cursor # OnNewMigration!None

\* What is chosen in the form is of its connection, once a schema is chosen.
FormFits(u) ==
  /\ DOMAIN u.form = {"mode", "conn", "table", "schema", "selected", "sinkTable", "sinkSchema", "strategy", "key", "cursor"}
  /\ u.conns \/ u.form.conn = OnNewMigration!None
  /\ u.form.schema # OnNewMigration!None =>
       u.tables \in {OnNewMigration!None, u.form.conn} /\ u.form.selected \subseteq OnNewMigration!TablesOf(u.form.conn)
  /\ u.form.table # OnNewMigration!None => u.form.table \in OnNewMigration!TablesOf(u.form.conn)
  /\ u.form.strategy \in OnNewMigration!Strategies /\ u.form.mode \in {"single", "schema"}

\* With them, the tables on the screen, and those being read, are of the
\* connection chosen, though others are shown while they are read; and what is
\* planned, under way or made is good.
NewMigrationRules ==
  /\ {"form", "conns", "tables", "loading", "columns", "submitting", "plan", "ok", "left"} \subseteq DOMAIN ui
  /\ FormFits(ui)
  /\ ui.loading \/ ui.tables \in {OnNewMigration!None, ui.form.conn}
  /\ "tables" \in DOMAIN net =>
       /\ DOMAIN net["tables"] = {"arg", "stage", "got"} /\ net["tables"].arg = ui.form.conn
       /\ net["tables"].stage = "answered" => net["tables"].got = ui.form.conn
  /\ "create" \in DOMAIN net => DOMAIN net["create"] = {"arg", "stage", "got"} /\ GoodConfig(net["create"].arg)
  /\ DOMAIN srv = {"made"} /\ \A config \in srv.made \cup ui.plan : GoodConfig(config)

\* It holds when the page opens.
LEMMA NewMigrationRulesInit == OnNewMigration!Init => NewMigrationRules
<1> SUFFICES ASSUME OnNewMigration!Init PROVE NewMigrationRules
  OBVIOUS
<1>1. DOMAIN net = {"connections"} /\ srv = [made |-> {}]
  BY DEF OnNewMigration!Init, OnNewMigration!With
<1>2. /\ {"form", "conns", "tables", "loading", "columns", "submitting", "plan", "ok", "left"} \subseteq DOMAIN ui
      /\ ui.form = OnNewMigration!Fresh /\ ui.tables = OnNewMigration!None /\ ui.plan = {} /\ ui.loading = FALSE
  BY DEF OnNewMigration!Init
<1>3. FormFits(ui)
  BY <1>2 DEF FormFits, OnNewMigration!Fresh, OnNewMigration!Strategies
<1> QED
  BY <1>1, <1>2, <1>3 DEF NewMigrationRules

\* A render keeps it, of a form that fits: it has the tables of another
\* connection read, and fills a key or a cursor.
LEMMA NewMigrationRulesRender ==
  ASSUME NewMigrationRules, NEW requests, NEW u, NEW again, OnNewMigration!Renders(requests, u, again), srv' = srv,
         DOMAIN u = DOMAIN ui, FormFits(u), u.tables = ui.tables, u.loading = ui.loading, u.plan = ui.plan,
         u.conns \/ ~ui.conns, \A k \in DOMAIN requests : k \in DOMAIN net /\ requests[k] = net[k]
  PROVE  NewMigrationRules'
<1> DEFINE none == OnNewMigration!None
           row == again \/ OnNewMigration!Row(u) # OnNewMigration!Row(ui)
           cols == row \/ u.form.table # ui.form.table
           columns == IF cols /\ (OnNewMigration!Row(u) = OnNewMigration!None \/ u.form.table = OnNewMigration!None) THEN OnNewMigration!None ELSE u.columns
           kept == [k \in DOMAIN requests \ ((IF row THEN {"tables"} ELSE {}) \cup (IF cols THEN {"columns"} ELSE {})) |-> requests[k]]
           withTables == IF row /\ OnNewMigration!Row(u) # OnNewMigration!None THEN OnNewMigration!With(kept, "tables", OnNewMigration!Row(u)) ELSE kept
           form == IF u.form.strategy # ui.form.strategy \/ columns # ui.columns THEN OnNewMigration!Suggested(u.form, columns) ELSE u.form
           tables == IF row /\ OnNewMigration!Row(u) = OnNewMigration!None THEN OnNewMigration!None ELSE u.tables
           reading == IF row /\ OnNewMigration!Row(u) # OnNewMigration!None THEN TRUE ELSE u.loading
<1>1. /\ net' = IF cols /\ OnNewMigration!Row(u) # OnNewMigration!None /\ u.form.table # OnNewMigration!None
                THEN OnNewMigration!With(withTables, "columns", u.form.table) ELSE withTables
      /\ ui' = [u EXCEPT !.tables = tables, !.loading = reading, !.columns = columns, !.form = form]
  BY DEF OnNewMigration!Renders
<1>2. /\ DOMAIN form = DOMAIN u.form /\ form.conn = u.form.conn /\ form.schema = u.form.schema /\ form.selected = u.form.selected
      /\ form.table = u.form.table /\ form.strategy = u.form.strategy /\ form.mode = u.form.mode
  <2> HIDE DEF columns
  <2>1. OnNewMigration!Suggested(u.form, columns) \in {u.form, [u.form EXCEPT !.key = columns], [u.form EXCEPT !.cursor = columns]}
    BY DEF OnNewMigration!Suggested
  <2>2. /\ DOMAIN u.form = {"mode", "conn", "table", "schema", "selected", "sinkTable", "sinkSchema", "strategy", "key", "cursor"}
    BY DEF FormFits
  <2> QED
    BY <2>1, <2>2
<1>3. /\ DOMAIN ui' = DOMAIN ui /\ ui'.loading = reading /\ ui'.form = form /\ ui'.tables = tables
      /\ ui'.conns = u.conns /\ ui'.plan = ui.plan
  <2> HIDE DEF tables, reading, columns, form
  <2> QED
    BY <1>1 DEF NewMigrationRules
<1>4. OnNewMigration!Row(u) = u.form.conn /\ OnNewMigration!Row(ui) = ui.form.conn
  BY DEF OnNewMigration!Row, FormFits, NewMigrationRules
<1>5. \A k \in DOMAIN net' : k # "columns" => k \in DOMAIN withTables /\ net'[k] = withTables[k]
  <2> HIDE DEF withTables, cols
  <2> QED
    BY <1>1 DEF OnNewMigration!With
<1>6. \A k \in DOMAIN withTables :
        \/ k = "tables" /\ row /\ withTables[k] = [arg |-> u.form.conn, stage |-> "sent", got |-> "nothing"]
        \/ ~(row /\ k = "tables") /\ k \in DOMAIN net /\ withTables[k] = net[k]
  <2>1. \A k \in DOMAIN kept : ~(row /\ k = "tables") /\ k \in DOMAIN net /\ kept[k] = net[k]
    <3> HIDE DEF row, cols
    <3> QED
      OBVIOUS
  <2> HIDE DEF kept, cols, row
  <2> QED
    BY <2>1, <1>4 DEF OnNewMigration!With
<1>7. ~row => u.form.conn = ui.form.conn
  BY <1>4
<1>8. FormFits(ui')
  <2> HIDE DEF form, tables
  <2>1. ui'.tables = ui.tables \/ ui'.tables = OnNewMigration!None
    BY <1>3 DEF tables
  <2> QED
    BY <1>2, <1>3, <2>1 DEF FormFits
<1>9. ui'.loading \/ ui'.tables \in {OnNewMigration!None, ui'.form.conn}
  <2> HIDE DEF form, row
  <2>1. CASE row /\ u.form.conn = OnNewMigration!None
    BY <1>3, <1>4, <2>1
  <2>2. CASE row /\ u.form.conn # OnNewMigration!None
    BY <1>3, <1>4, <2>2
  <2>3. CASE ~row
    BY <1>2, <1>3, <1>7, <2>3 DEF NewMigrationRules
  <2> QED
    BY <2>1, <2>2, <2>3
<1> DEFINE request == [arg |-> u.form.conn, stage |-> "sent", got |-> "nothing"]
<1>10. DOMAIN request = {"arg", "stage", "got"} /\ request.arg = u.form.conn /\ request.stage = "sent"
  OBVIOUS
<1> HIDE DEF row, cols, columns, kept, withTables, form, tables, reading, request
<1>11. "tables" \in DOMAIN net' =>
         /\ DOMAIN net'["tables"] = {"arg", "stage", "got"} /\ net'["tables"].arg = ui'.form.conn
         /\ net'["tables"].stage = "answered" => net'["tables"].got = ui'.form.conn
  <2>1. \/ "tables" \notin DOMAIN net'
        \/ net'["tables"] = request
        \/ ~row /\ "tables" \in DOMAIN net /\ net'["tables"] = net["tables"]
    BY <1>5, <1>6 DEF request
  <2>2. ui'.form.conn = u.form.conn
    BY <1>2, <1>3
  <2> QED
    BY <2>1, <2>2, <1>7, <1>10 DEF NewMigrationRules
<1>12. "create" \in DOMAIN net' => "create" \in DOMAIN net /\ net'["create"] = net["create"]
  BY <1>5, <1>6
<1> QED
  BY <1>3, <1>8, <1>9, <1>11, <1>12 DEF NewMigrationRules

\* A form that can be submitted is made into good configurations.
LEMMA NewMigrationPlan ==
  ASSUME NewMigrationRules, OnNewMigration!Valid(ui.form), NEW item \in OnNewMigration!Plan(ui.form)
  PROVE  GoodConfig(item)
<1> DEFINE f == ui.form
<1>1. PICK table, sink : item = OnNewMigration!Build(f, table, sink) /\ table \in OnNewMigration!TablesOf(f.conn)
  <2>1. CASE f.mode = "single"
    <3>1. item = OnNewMigration!Build(f, f.table, f.sinkTable)
      BY <2>1 DEF OnNewMigration!Plan
    <3>2. f.table \in OnNewMigration!TablesOf(f.conn)
      BY <2>1 DEF NewMigrationRules, FormFits, OnNewMigration!Valid
    <3> QED
      BY <3>1, <3>2
  <2>2. CASE f.mode # "single"
    <3>1. PICK table \in f.selected : item = OnNewMigration!Build(f, table, f.sinkSchema)
      BY <2>2 DEF OnNewMigration!Plan
    <3>2. f.mode = "schema"
      BY <2>2 DEF NewMigrationRules, FormFits
    <3> QED
      BY <3>1, <3>2 DEF NewMigrationRules, FormFits, OnNewMigration!Valid
  <2> QED
    BY <2>1, <2>2
<1>2. /\ item.table = table /\ item.conn = f.conn
      /\ item.mode = CASE f.strategy = "snapshot" -> "overwrite" [] f.strategy = "mirror" -> "upsert" [] OTHER -> "append"
      /\ item.ifExists = IF f.strategy = "snapshot" THEN "drop" ELSE "skip"
      /\ item.key = IF f.strategy = "mirror" THEN f.key ELSE OnNewMigration!None
      /\ item.cursor = IF f.strategy = "append" THEN f.cursor ELSE OnNewMigration!None
  BY <1>1 DEF OnNewMigration!Build
<1>3. /\ f.strategy = "mirror" => f.key # OnNewMigration!None
      /\ f.strategy = "append" => f.cursor # OnNewMigration!None
      /\ f.strategy \in {"snapshot", "append", "mirror"}
  BY DEF OnNewMigration!Valid, NewMigrationRules, FormFits, OnNewMigration!Strategies
<1> HIDE DEF f
<1>4. CASE f.strategy = "snapshot"
  BY <1>1, <1>2, <1>4 DEF GoodConfig, OnNewMigration!Parsed, OnNewMigration!None
<1>5. CASE f.strategy = "mirror"
  BY <1>1, <1>2, <1>3, <1>5 DEF GoodConfig, OnNewMigration!Parsed, OnNewMigration!None
<1>6. CASE f.strategy = "append"
  BY <1>1, <1>2, <1>3, <1>6 DEF GoodConfig, OnNewMigration!Parsed, OnNewMigration!None
<1> QED
  BY <1>3, <1>4, <1>5, <1>6

\* Every step of the page keeps it.
LEMMA NewMigrationRulesStep == NewMigrationRules /\ OnNewMigration!Next => NewMigrationRules'
<1> SUFFICES ASSUME NewMigrationRules, OnNewMigration!Next PROVE NewMigrationRules'
  OBVIOUS
<1> DEFINE none == OnNewMigration!None
<1>u. {"form", "conns", "tables", "loading", "columns", "submitting", "plan", "ok", "left"} \subseteq DOMAIN ui /\ FormFits(ui)
  BY DEF NewMigrationRules
<1>c. \A k, j : j \in DOMAIN OnNewMigration!Closed(k) <=> j \in DOMAIN net /\ j # k
  BY DEF OnNewMigration!Closed, OnNewMigration!Without, OnNewMigration!Restrict
<1>d. \A k : \A j \in DOMAIN OnNewMigration!Closed(k) : OnNewMigration!Closed(k)[j] = net[j]
  BY DEF OnNewMigration!Closed, OnNewMigration!Without, OnNewMigration!Restrict
<1>1. ASSUME NEW k, NEW s, NEW answer, OnNewMigration!Handles(k, s, answer), k = "tables" => answer = ui.form.conn,
             DOMAIN s = {"made"}, \A config \in s.made : GoodConfig(config)
      PROVE  NewMigrationRules'
  <2>1. /\ srv' = s /\ ui' = ui /\ DOMAIN net' = DOMAIN net /\ k \in DOMAIN net
        /\ net' = [net EXCEPT ![k].stage = "answered", ![k].got = answer]
    BY <1>1 DEF OnNewMigration!Handles, OnNewMigration!Out
  <2>2. \A j \in DOMAIN net : j # k => net'[j] = net[j]
    BY <2>1
  <2>3. DOMAIN net[k] = {"arg", "stage", "got"} =>
          DOMAIN net'[k] = {"arg", "stage", "got"} /\ net'[k].arg = net[k].arg /\ net'[k].got = answer
    BY <2>1
  <2>4. FormFits(ui')
    BY <1>u, <2>1
  <2>5. "tables" \in DOMAIN net' =>
          /\ DOMAIN net'["tables"] = {"arg", "stage", "got"} /\ net'["tables"].arg = ui'.form.conn
          /\ net'["tables"].stage = "answered" => net'["tables"].got = ui'.form.conn
    BY <1>1, <2>1, <2>2, <2>3 DEF NewMigrationRules
  <2>6. "create" \in DOMAIN net' => DOMAIN net'["create"] = {"arg", "stage", "got"} /\ GoodConfig(net'["create"].arg)
    BY <2>1, <2>2, <2>3 DEF NewMigrationRules
  <2> QED
    BY <1>1, <2>1, <2>4, <2>5, <2>6 DEF NewMigrationRules
<1>2. CASE OnNewMigration!Serve
  <2>1. CASE OnNewMigration!Handles("connections", srv, {}) \/ OnNewMigration!Handles("columns", srv, net["columns"].arg)
    BY <1>1, <2>1 DEF NewMigrationRules
  <2>2. CASE OnNewMigration!Out("tables") /\ OnNewMigration!Handles("tables", srv, net["tables"].arg)
    BY <1>1, <2>2 DEF NewMigrationRules, OnNewMigration!Out
  <2>3. CASE OnNewMigration!Out("create") /\ OnNewMigration!Handles("create", [made |-> srv.made \cup {net["create"].arg}], {})
    <3> DEFINE s == [made |-> srv.made \cup {net["create"].arg}]
    <3>1. DOMAIN s = {"made"} /\ s.made = srv.made \cup {net["create"].arg}
      OBVIOUS
    <3>2. GoodConfig(net["create"].arg) /\ \A config \in srv.made : GoodConfig(config)
      BY <2>3 DEF NewMigrationRules, OnNewMigration!Out
    <3> HIDE DEF s
    <3>3. OnNewMigration!Handles("create", s, {})
      BY <2>3 DEF s
    <3> QED
      BY <1>1, <3>1, <3>2, <3>3
  <2> QED
    BY <1>2, <2>1, <2>2, <2>3, Zenon DEF OnNewMigration!Serve
<1>3. CASE OnNewMigration!ConnectionsBack
  <2> DEFINE u == [ui EXCEPT !.conns = OnNewMigration!Answered("connections") \/ @]
             again == OnNewMigration!Answered("connections") /\ ui.conns
  <2>1. OnNewMigration!Renders(OnNewMigration!Closed("connections"), u, again) /\ srv' = srv
    BY <1>3 DEF OnNewMigration!ConnectionsBack
  <2>2. /\ DOMAIN u = DOMAIN ui /\ u.form = ui.form /\ u.loading = ui.loading /\ u.tables = ui.tables /\ u.plan = ui.plan
        /\ ui.conns => u.conns
    BY <1>u
  <2> HIDE DEF u, again
  <2>3. FormFits(u)
    BY <1>u, <2>2 DEF FormFits
  <2> QED
    BY <1>c, <1>d, <2>1, <2>2, <2>3, NewMigrationRulesRender
<1>4. CASE OnNewMigration!ColumnsBack
  <2> DEFINE u == [ui EXCEPT !.columns = IF OnNewMigration!Answered("columns") THEN net["columns"].got ELSE OnNewMigration!None]
  <2>1. OnNewMigration!Renders(OnNewMigration!Closed("columns"), u, FALSE) /\ srv' = srv
    BY <1>4 DEF OnNewMigration!ColumnsBack
  <2>2. /\ DOMAIN u = DOMAIN ui /\ u.form = ui.form /\ u.loading = ui.loading /\ u.tables = ui.tables /\ u.plan = ui.plan
        /\ u.conns = ui.conns
    BY <1>u
  <2> HIDE DEF u
  <2>3. FormFits(u)
    BY <1>u, <2>2 DEF FormFits
  <2>4. \A k \in DOMAIN OnNewMigration!Closed("columns") : k \in DOMAIN net /\ OnNewMigration!Closed("columns")[k] = net[k]
    BY <1>c, <1>d
  <2> QED
    BY <2>1, <2>2, <2>3, <2>4, NewMigrationRulesRender
<1>5. CASE OnNewMigration!TablesBack
  <2>1. /\ DOMAIN ui' = DOMAIN ui /\ ui'.form = ui.form /\ ui'.conns = ui.conns /\ ui'.plan = ui.plan /\ srv' = srv
        /\ ui'.tables = (IF OnNewMigration!Answered("tables") THEN net["tables"].got ELSE OnNewMigration!None)
    BY <1>5, <1>u DEF OnNewMigration!TablesBack
  <2>2. ui'.tables \in {OnNewMigration!None, ui.form.conn}
    BY <2>1 DEF NewMigrationRules, OnNewMigration!Answered, OnNewMigration!Out
  <2>3. net' = OnNewMigration!Closed("tables")
    BY <1>5 DEF OnNewMigration!TablesBack
  <2>4. FormFits(ui')
    BY <1>u, <2>1, <2>2 DEF FormFits
  <2>5. "tables" \notin DOMAIN net' /\ ("create" \in DOMAIN net' => "create" \in DOMAIN net /\ net'["create"] = net["create"])
    BY <1>c, <1>d, <2>3
  <2> QED
    BY <2>1, <2>2, <2>4, <2>5 DEF NewMigrationRules
<1>p. ASSUME NEW plan, NEW item, NEW requests, \A config \in plan \cup {item} : GoodConfig(config),
             srv' = srv, DOMAIN ui' = DOMAIN ui, ui'.plan \subseteq plan, ui'.form = ui.form, ui'.conns = ui.conns,
             ui'.tables = ui.tables, ui'.loading = ui.loading, \A k \in DOMAIN requests : k \in DOMAIN net /\ requests[k] = net[k],
             net' = OnNewMigration!With(requests, "create", item)
      PROVE  NewMigrationRules'
  <2>1. /\ "tables" \in DOMAIN net' => "tables" \in DOMAIN net /\ net'["tables"] = net["tables"]
        /\ net'["create"] = [arg |-> item, stage |-> "sent", got |-> "nothing"]
    BY <1>p DEF OnNewMigration!With
  <2>2. DOMAIN net'["create"] = {"arg", "stage", "got"} /\ net'["create"].arg = item
    BY <2>1
  <2>3. FormFits(ui')
    BY <1>p, <1>u DEF FormFits
  <2>4. GoodConfig(net'["create"].arg) /\ \A config \in ui'.plan : GoodConfig(config)
    BY <1>p, <2>2
  <2> QED
    BY <1>p, <2>1, <2>2, <2>3, <2>4 DEF NewMigrationRules
<1>6. CASE OnNewMigration!CreateBack
  <2>1. srv' = srv /\ \A config \in ui.plan : GoodConfig(config)
    BY <1>6 DEF OnNewMigration!CreateBack, NewMigrationRules
  <2>2. CASE ui.plan # {}
    <3>1. PICK item \in ui.plan, ok \in {ui.ok, ui.ok + 1} :
            /\ ui' = [ui EXCEPT !.plan = @ \ {item}, !.ok = ok]
            /\ net' = OnNewMigration!With(OnNewMigration!Closed("create"), "create", item)
      BY <1>6, <2>2, Zenon DEF OnNewMigration!CreateBack
    <3>2. /\ DOMAIN ui' = DOMAIN ui /\ ui'.plan \subseteq ui.plan /\ ui'.form = ui.form /\ ui'.conns = ui.conns
          /\ ui'.tables = ui.tables /\ ui'.loading = ui.loading
      BY <3>1, <1>u
    <3> QED
      BY <1>c, <1>d, <1>p, <2>1, <3>1, <3>2
  <2>3. CASE ui.plan = {}
    <3>1. /\ DOMAIN ui' = DOMAIN ui /\ ui'.plan = ui.plan /\ ui'.form = ui.form /\ ui'.conns = ui.conns
          /\ ui'.tables = ui.tables /\ ui'.loading = ui.loading
      BY <1>6, <1>u, <2>3 DEF OnNewMigration!CreateBack
    <3>2. net' = OnNewMigration!Closed("create")
      BY <1>6, <2>3 DEF OnNewMigration!CreateBack
    <3>3. FormFits(ui')
      BY <1>u, <3>1 DEF FormFits
    <3>4. "create" \notin DOMAIN net' /\ ("tables" \in DOMAIN net' => "tables" \in DOMAIN net /\ net'["tables"] = net["tables"])
      BY <1>c, <1>d, <3>2
    <3> QED
      BY <2>1, <3>1, <3>3, <3>4 DEF NewMigrationRules
  <2> QED
    BY <2>2, <2>3
<1>7. CASE OnNewMigration!Submit
  <2>1. PICK item \in OnNewMigration!Plan(ui.form) :
          /\ ui' = [ui EXCEPT !.submitting = TRUE, !.plan = OnNewMigration!Plan(ui.form) \ {item}, !.ok = 0]
          /\ net' = OnNewMigration!Sent("create", item) /\ srv' = srv /\ OnNewMigration!Valid(ui.form)
    BY <1>7 DEF OnNewMigration!Submit
  <2>2. \A config \in OnNewMigration!Plan(ui.form) : GoodConfig(config)
    BY <2>1, NewMigrationPlan
  <2>3. /\ DOMAIN ui' = DOMAIN ui /\ ui'.plan \subseteq OnNewMigration!Plan(ui.form) /\ ui'.form = ui.form /\ ui'.conns = ui.conns
        /\ ui'.tables = ui.tables /\ ui'.loading = ui.loading
    BY <2>1, <1>u
  <2> QED
    BY <1>p, <2>1, <2>2, <2>3 DEF OnNewMigration!Sent
<1>8. CASE OnNewMigration!ChangeLanguage
  <2>1. ui' = ui /\ srv' = srv /\ net' = OnNewMigration!With(net, "connections", {})
    BY <1>8 DEF OnNewMigration!ChangeLanguage, OnNewMigration!Sent
  <2>2. /\ "tables" \in DOMAIN net' => "tables" \in DOMAIN net /\ net'["tables"] = net["tables"]
        /\ "create" \in DOMAIN net' => "create" \in DOMAIN net /\ net'["create"] = net["create"]
    BY <2>1 DEF OnNewMigration!With
  <2>3. FormFits(ui')
    BY <1>u, <2>1
  <2> QED
    BY <2>1, <2>2, <2>3 DEF NewMigrationRules
<1>s. ASSUME NEW f, OnNewMigration!Sets(f), DOMAIN f = DOMAIN ui.form, f.strategy \in OnNewMigration!Strategies, f.mode \in {"single", "schema"},
             ui.conns \/ f.conn = OnNewMigration!None,
             f.table # OnNewMigration!None => f.table \in OnNewMigration!TablesOf(f.conn),
             f.schema # OnNewMigration!None =>
               ui.tables \in {OnNewMigration!None, f.conn} /\ f.selected \subseteq OnNewMigration!TablesOf(f.conn)
      PROVE  NewMigrationRules'
  <2> DEFINE u == [ui EXCEPT !.form = f]
  <2>1. OnNewMigration!Renders(net, u, FALSE) /\ srv' = srv
    BY <1>s DEF OnNewMigration!Sets
  <2>2. /\ DOMAIN u = DOMAIN ui /\ u.form = f /\ u.loading = ui.loading /\ u.tables = ui.tables /\ u.plan = ui.plan
        /\ u.conns = ui.conns
    BY <1>u
  <2> HIDE DEF u
  <2>3. FormFits(u)
    BY <1>s, <1>u, <2>2 DEF FormFits
  <2> QED
    BY <2>1, <2>2, <2>3, NewMigrationRulesRender
<1>f. /\ DOMAIN ui.form = {"mode", "conn", "table", "schema", "selected", "sinkTable", "sinkSchema", "strategy", "key", "cursor"}
      /\ ui.conns \/ ui.form.conn = OnNewMigration!None
      /\ ui.form.strategy \in OnNewMigration!Strategies /\ ui.form.mode \in {"single", "schema"}
      /\ ui.form.table # OnNewMigration!None => ui.form.table \in OnNewMigration!TablesOf(ui.form.conn)
      /\ ui.form.schema # OnNewMigration!None =>
           ui.tables \in {OnNewMigration!None, ui.form.conn} /\ ui.form.selected \subseteq OnNewMigration!TablesOf(ui.form.conn)
  BY <1>u DEF FormFits
<1>9. ASSUME NEW c, OnNewMigration!PickConnection(c) PROVE NewMigrationRules'
  <2> DEFINE f == [ui.form EXCEPT !.conn = c, !.table = OnNewMigration!None, !.schema = OnNewMigration!None, !.selected = {}]
  <2>1. ui.conns /\ OnNewMigration!Sets(f)
    BY <1>9 DEF OnNewMigration!PickConnection
  <2>2. DOMAIN f = DOMAIN ui.form /\ f.mode = ui.form.mode /\ f.strategy = ui.form.strategy /\ f.table = OnNewMigration!None /\ f.schema = OnNewMigration!None
    BY <1>f
  <2> HIDE DEF f
  <2> QED
    BY <1>f, <1>s, <2>1, <2>2
<1>10. ASSUME NEW m \in {"single", "schema"}, OnNewMigration!PickMode(m) PROVE NewMigrationRules'
  <2> DEFINE f == [ui.form EXCEPT !.mode = m]
  <2>1. OnNewMigration!Sets(f)
    BY <1>10 DEF OnNewMigration!PickMode
  <2>2. /\ DOMAIN f = DOMAIN ui.form /\ f.mode = m /\ f.strategy = ui.form.strategy /\ f.table = ui.form.table /\ f.schema = ui.form.schema
        /\ f.conn = ui.form.conn /\ f.selected = ui.form.selected
    BY <1>f
  <2> HIDE DEF f
  <2> QED
    BY <1>f, <1>s, <2>1, <2>2
<1>t. OnNewMigration!Pickable => ui.tables # OnNewMigration!None /\ ui.tables = ui.form.conn
  BY DEF OnNewMigration!Pickable, NewMigrationRules
<1>11. ASSUME NEW table, OnNewMigration!PickTable(table) PROVE NewMigrationRules'
  <2> DEFINE f == [ui.form EXCEPT !.table = table, !.sinkTable = IF @ = OnNewMigration!None THEN OnNewMigration!NameOf(table) ELSE @]
  <2>1. OnNewMigration!Sets(f) /\ table \in OnNewMigration!TablesOf(ui.form.conn)
    BY <1>11, <1>t DEF OnNewMigration!PickTable
  <2>2. /\ DOMAIN f = DOMAIN ui.form /\ f.mode = ui.form.mode /\ f.strategy = ui.form.strategy /\ f.table = table /\ f.schema = ui.form.schema
        /\ f.conn = ui.form.conn /\ f.selected = ui.form.selected
    BY <1>f
  <2> HIDE DEF f
  <2> QED
    BY <1>f, <1>s, <2>1, <2>2
<1>12. ASSUME NEW s, OnNewMigration!PickSchema(s) PROVE NewMigrationRules'
  <2> DEFINE f == [ui.form EXCEPT !.schema = s, !.selected = {}, !.sinkSchema = IF @ = OnNewMigration!None THEN s ELSE @]
  <2>1. OnNewMigration!Sets(f) /\ ui.tables = ui.form.conn
    BY <1>12, <1>t DEF OnNewMigration!PickSchema
  <2>2. /\ DOMAIN f = DOMAIN ui.form /\ f.mode = ui.form.mode /\ f.strategy = ui.form.strategy /\ f.table = ui.form.table /\ f.schema = s
        /\ f.conn = ui.form.conn /\ f.selected = {}
    BY <1>f
  <2> HIDE DEF f
  <2> QED
    BY <1>f, <1>s, <2>1, <2>2
<1>i. ui.form.schema # OnNewMigration!None => OnNewMigration!InSchema \subseteq OnNewMigration!TablesOf(ui.form.conn)
  <2>1. OnNewMigration!TablesOf(OnNewMigration!None) = {}
    BY DEF OnNewMigration!TablesOf, OnNewMigration!None
  <2> QED
    BY <1>f, <2>1 DEF OnNewMigration!InSchema
<1>13. ASSUME NEW table, OnNewMigration!ToggleTable(table) PROVE NewMigrationRules'
  <2> DEFINE f == [ui.form EXCEPT !.selected = IF table \in @ THEN @ \ {table} ELSE @ \cup {table}]
  <2>1. OnNewMigration!Sets(f) /\ table \in OnNewMigration!InSchema
    BY <1>13 DEF OnNewMigration!ToggleTable
  <2>2. /\ DOMAIN f = DOMAIN ui.form /\ f.mode = ui.form.mode /\ f.strategy = ui.form.strategy /\ f.table = ui.form.table /\ f.schema = ui.form.schema
        /\ f.conn = ui.form.conn /\ f.selected \subseteq ui.form.selected \cup {table}
    BY <1>f
  <2> HIDE DEF f
  <2> QED
    BY <1>f, <1>i, <1>s, <2>1, <2>2
<1>14. CASE OnNewMigration!ToggleAll
  <2> DEFINE f == [ui.form EXCEPT !.selected = IF OnNewMigration!InSchema \subseteq @ THEN @ \ OnNewMigration!InSchema ELSE @ \cup OnNewMigration!InSchema]
  <2>1. OnNewMigration!Sets(f)
    BY <1>14 DEF OnNewMigration!ToggleAll
  <2>2. /\ DOMAIN f = DOMAIN ui.form /\ f.mode = ui.form.mode /\ f.strategy = ui.form.strategy /\ f.table = ui.form.table /\ f.schema = ui.form.schema
        /\ f.conn = ui.form.conn /\ f.selected \subseteq ui.form.selected \cup OnNewMigration!InSchema
    BY <1>f
  <2> HIDE DEF f
  <2> QED
    BY <1>f, <1>i, <1>s, <2>1, <2>2
<1>15. ASSUME NEW s \in OnNewMigration!Strategies, OnNewMigration!PickStrategy(s) PROVE NewMigrationRules'
  <2> DEFINE f == [ui.form EXCEPT !.strategy = s]
  <2>1. OnNewMigration!Sets(f)
    BY <1>15 DEF OnNewMigration!PickStrategy
  <2>2. /\ DOMAIN f = DOMAIN ui.form /\ f.mode = ui.form.mode /\ f.strategy = s /\ f.table = ui.form.table /\ f.schema = ui.form.schema
        /\ f.conn = ui.form.conn /\ f.selected = ui.form.selected
    BY <1>f
  <2> HIDE DEF f
  <2> QED
    BY <1>f, <1>s, <2>1, <2>2
<1>16. CASE OnNewMigration!TypeColumn
  <2> DEFINE f == [ui.form EXCEPT !.key = IF ui.form.strategy = "mirror" THEN OnNewMigration!Typed ELSE @,
                                  !.cursor = IF ui.form.strategy = "append" THEN OnNewMigration!Typed ELSE @]
  <2>1. OnNewMigration!Sets(f)
    BY <1>16 DEF OnNewMigration!TypeColumn
  <2>2. /\ DOMAIN f = DOMAIN ui.form /\ f.mode = ui.form.mode /\ f.strategy = ui.form.strategy /\ f.table = ui.form.table /\ f.schema = ui.form.schema
        /\ f.conn = ui.form.conn /\ f.selected = ui.form.selected
    BY <1>f
  <2> HIDE DEF f
  <2> QED
    BY <1>f, <1>s, <2>1, <2>2
<1>17. ASSUME NEW k \in DOMAIN net, OnNewMigration!Breaks(k) PROVE NewMigrationRules'
  <2>1. /\ net' = [net EXCEPT ![k].stage = "failed", ![k].got = "nothing"] /\ UNCHANGED <<ui, srv>> /\ DOMAIN net' = DOMAIN net
    BY <1>17 DEF OnNewMigration!Breaks, OnNewMigration!Fails
  <2>2. \A j \in DOMAIN net : j # k => net'[j] = net[j]
    BY <2>1
  <2>3. DOMAIN net[k] = {"arg", "stage", "got"} =>
          DOMAIN net'[k] = {"arg", "stage", "got"} /\ net'[k].arg = net[k].arg /\ net'[k].stage = "failed"
    BY <1>17, <2>1
  <2>4. FormFits(ui')
    BY <1>u, <2>1
  <2>5. "tables" \in DOMAIN net' =>
          /\ DOMAIN net'["tables"] = {"arg", "stage", "got"} /\ net'["tables"].arg = ui'.form.conn
          /\ net'["tables"].stage = "answered" => net'["tables"].got = ui'.form.conn
    BY <2>1, <2>2, <2>3 DEF NewMigrationRules
  <2>6. "create" \in DOMAIN net' => DOMAIN net'["create"] = {"arg", "stage", "got"} /\ GoodConfig(net'["create"].arg)
    BY <2>1, <2>2, <2>3 DEF NewMigrationRules
  <2> QED
    BY <2>1, <2>4, <2>5, <2>6 DEF NewMigrationRules
<1> QED
  BY <1>2, <1>3, <1>4, <1>5, <1>6, <1>7, <1>8, <1>9, <1>10, <1>11, <1>12, <1>13, <1>14, <1>15, <1>16, <1>17
     DEF OnNewMigration!Next, OnNewMigration!Returns, OnNewMigration!Clicks

\* And so the migrations made are good.
LEMMA NewMigrationRulesEnough == NewMigrationRules => OnNewMigration!MakesMigrations
  BY DEF NewMigrationRules, GoodConfig, OnNewMigration!MakesMigrations

(* What it shows *)

NewMigrationTypes(u) ==
  /\ u.form.conn \in OnNewMigration!Conns \cup {OnNewMigration!None}
  /\ u.form.table \in OnNewMigration!Tables \cup {OnNewMigration!None} /\ u.form.selected \subseteq OnNewMigration!Tables
  /\ u.columns \in OnNewMigration!Tables \cup {OnNewMigration!None} /\ u.left \in {"no", "list", "never run"}

\* Columns are read of a table, and are its columns.
ColumnsFit(requests) ==
  "columns" \in DOMAIN requests =>
    /\ DOMAIN requests["columns"] = {"arg", "stage", "got"} /\ requests["columns"].arg \in OnNewMigration!Tables
    /\ requests["columns"].stage = "answered" => requests["columns"].got \in OnNewMigration!Tables

NewMigrationShow == NewMigrationRules /\ NewMigrationTypes(ui) /\ ColumnsFit(net)

\* The tables of a connection are among those there are.
LEMMA TablesThereAre == \A c : OnNewMigration!TablesOf(c) \subseteq OnNewMigration!Tables
<1>1. \A c : c \in OnNewMigration!Conns \/ OnNewMigration!TablesOf(c) = {}
  BY DEF OnNewMigration!TablesOf, OnNewMigration!Conns
<1> QED
  BY <1>1 DEF OnNewMigration!Tables

\* It holds when the page opens.
LEMMA NewMigrationShowInit == OnNewMigration!Init => NewMigrationShow
<1> SUFFICES ASSUME OnNewMigration!Init PROVE NewMigrationShow
  OBVIOUS
<1>1. ui.form = OnNewMigration!Fresh /\ ui.columns = OnNewMigration!None /\ ui.left = "no"
  BY DEF OnNewMigration!Init
<1>2. NewMigrationTypes(ui)
  BY <1>1 DEF NewMigrationTypes, OnNewMigration!Fresh
<1>3. "columns" \notin DOMAIN net
  BY DEF OnNewMigration!Init, OnNewMigration!With
<1> QED
  BY <1>2, <1>3, NewMigrationRulesInit DEF NewMigrationShow, ColumnsFit

\* A render keeps it.
LEMMA NewMigrationShowRender ==
  ASSUME NewMigrationRules, NEW requests, NEW u, NEW again, OnNewMigration!Renders(requests, u, again),
         DOMAIN u = DOMAIN ui, DOMAIN u.form = DOMAIN ui.form, NewMigrationTypes(u), ColumnsFit(requests)
  PROVE  NewMigrationTypes(ui') /\ ColumnsFit(net')
<1> DEFINE none == OnNewMigration!None
           row == again \/ OnNewMigration!Row(u) # OnNewMigration!Row(ui)
           cols == row \/ u.form.table # ui.form.table
           columns == IF cols /\ (OnNewMigration!Row(u) = OnNewMigration!None \/ u.form.table = OnNewMigration!None) THEN OnNewMigration!None ELSE u.columns
           kept == [k \in DOMAIN requests \ ((IF row THEN {"tables"} ELSE {}) \cup (IF cols THEN {"columns"} ELSE {})) |-> requests[k]]
           withTables == IF row /\ OnNewMigration!Row(u) # OnNewMigration!None THEN OnNewMigration!With(kept, "tables", OnNewMigration!Row(u)) ELSE kept
           form == IF u.form.strategy # ui.form.strategy \/ columns # ui.columns THEN OnNewMigration!Suggested(u.form, columns) ELSE u.form
           tables == IF row /\ OnNewMigration!Row(u) = OnNewMigration!None THEN OnNewMigration!None ELSE u.tables
           reading == IF row /\ OnNewMigration!Row(u) # OnNewMigration!None THEN TRUE ELSE u.loading
<1>1. /\ net' = IF cols /\ OnNewMigration!Row(u) # OnNewMigration!None /\ u.form.table # OnNewMigration!None
                THEN OnNewMigration!With(withTables, "columns", u.form.table) ELSE withTables
      /\ ui' = [u EXCEPT !.tables = tables, !.loading = reading, !.columns = columns, !.form = form]
  BY DEF OnNewMigration!Renders
<1>2. form.conn = u.form.conn /\ form.selected = u.form.selected /\ form.table = u.form.table
  <2> HIDE DEF columns
  <2>1. OnNewMigration!Suggested(u.form, columns) \in {u.form, [u.form EXCEPT !.key = columns], [u.form EXCEPT !.cursor = columns]}
    BY DEF OnNewMigration!Suggested
  <2>2. DOMAIN u.form = {"mode", "conn", "table", "schema", "selected", "sinkTable", "sinkSchema", "strategy", "key", "cursor"}
    BY DEF FormFits, NewMigrationRules
  <2> QED
    BY <2>1, <2>2
<1>3. columns \in OnNewMigration!Tables \cup {OnNewMigration!None}
  BY DEF NewMigrationTypes
<1>4. ColumnsFit(withTables)
  <2> HIDE DEF row
  <2>1. "columns" \in DOMAIN kept => "columns" \in DOMAIN requests /\ kept["columns"] = requests["columns"]
    OBVIOUS
  <2> HIDE DEF kept
  <2>2. "columns" \in DOMAIN withTables => "columns" \in DOMAIN kept /\ withTables["columns"] = kept["columns"]
    BY DEF OnNewMigration!With
  <2> HIDE DEF withTables
  <2> QED
    BY <2>1, <2>2 DEF ColumnsFit
<1> HIDE DEF row, cols, columns, kept, withTables, form, tables, reading
<1>5. ui'.form = form /\ ui'.columns = columns /\ ui'.left = u.left
  BY <1>1 DEF NewMigrationRules
<1>6. NewMigrationTypes(ui')
  BY <1>2, <1>3, <1>5 DEF NewMigrationTypes
<1>7. u.form.table # OnNewMigration!None => ColumnsFit(OnNewMigration!With(withTables, "columns", u.form.table))
  <2> DEFINE request == [arg |-> u.form.table, stage |-> "sent", got |-> "nothing"]
  <2>1. OnNewMigration!With(withTables, "columns", u.form.table)["columns"] = request
    BY DEF OnNewMigration!With
  <2>2. DOMAIN request = {"arg", "stage", "got"} /\ request.arg = u.form.table /\ request.stage = "sent"
    OBVIOUS
  <2> HIDE DEF request
  <2> QED
    BY <2>1, <2>2 DEF ColumnsFit, NewMigrationTypes
<1> QED
  BY <1>1, <1>4, <1>6, <1>7

\* Every step of the page keeps it.
LEMMA NewMigrationShowStep == NewMigrationShow /\ OnNewMigration!Next => NewMigrationShow'
<1> SUFFICES ASSUME NewMigrationShow, OnNewMigration!Next PROVE NewMigrationShow'
  OBVIOUS
<1>0. NewMigrationRules /\ NewMigrationRules' /\ NewMigrationTypes(ui) /\ ColumnsFit(net)
  BY NewMigrationRulesStep DEF NewMigrationShow
<1>u. {"form", "conns", "tables", "loading", "columns", "submitting", "plan", "ok", "left"} \subseteq DOMAIN ui /\ FormFits(ui)
  BY <1>0 DEF NewMigrationRules
<1> SUFFICES NewMigrationTypes(ui') /\ ColumnsFit(net')
  BY <1>0 DEF NewMigrationShow
<1>c. \A k : ColumnsFit(OnNewMigration!Closed(k))
  <2>1. \A k : "columns" \in DOMAIN OnNewMigration!Closed(k) =>
                 "columns" \in DOMAIN net /\ OnNewMigration!Closed(k)["columns"] = net["columns"]
    BY DEF OnNewMigration!Closed, OnNewMigration!Without, OnNewMigration!Restrict
  <2> QED
    BY <1>0, <2>1 DEF ColumnsFit
<1>w. ASSUME NEW requests, ColumnsFit(requests), NEW k, k # "columns", NEW arg
      PROVE  ColumnsFit(OnNewMigration!With(requests, k, arg))
  <2>1. LET all == OnNewMigration!With(requests, k, arg)
        IN  "columns" \in DOMAIN all => "columns" \in DOMAIN requests /\ all["columns"] = requests["columns"]
    BY <1>w DEF OnNewMigration!With
  <2> QED
    BY <1>w, <2>1 DEF ColumnsFit
<1>1. CASE OnNewMigration!Serve
  <2>0. ASSUME NEW k, NEW state, NEW answer, OnNewMigration!Handles(k, state, answer),
               k = "columns" => answer = net["columns"].arg
        PROVE  NewMigrationTypes(ui') /\ ColumnsFit(net')
    <3>1. /\ ui' = ui /\ DOMAIN net' = DOMAIN net /\ k \in DOMAIN net
          /\ net' = [net EXCEPT ![k].stage = "answered", ![k].got = answer]
      BY <2>0 DEF OnNewMigration!Handles, OnNewMigration!Out
    <3>2. CASE k = "columns"
      <4>1. DOMAIN net["columns"] = {"arg", "stage", "got"} /\ net["columns"].arg \in OnNewMigration!Tables
        BY <1>0, <3>1, <3>2 DEF ColumnsFit
      <4>2. /\ DOMAIN net'["columns"] = {"arg", "stage", "got"} /\ net'["columns"].arg = net["columns"].arg
            /\ net'["columns"].got = answer
        BY <3>1, <3>2, <4>1
      <4> QED
        BY <1>0, <2>0, <3>1, <3>2, <4>1, <4>2 DEF ColumnsFit
    <3>3. CASE k # "columns"
      <4>1. "columns" \in DOMAIN net => net'["columns"] = net["columns"]
        BY <3>1, <3>3
      <4> QED
        BY <1>0, <3>1, <4>1 DEF ColumnsFit
    <3> QED
      BY <3>2, <3>3
  <2>1. "connections" # "columns" /\ "tables" # "columns" /\ "create" # "columns"
    OBVIOUS
  <2> QED
    BY <1>1, <2>0, <2>1, Zenon DEF OnNewMigration!Serve
<1>2. CASE OnNewMigration!ConnectionsBack
  <2> DEFINE u == [ui EXCEPT !.conns = OnNewMigration!Answered("connections") \/ @]
             again == OnNewMigration!Answered("connections") /\ ui.conns
  <2>1. OnNewMigration!Renders(OnNewMigration!Closed("connections"), u, again)
    BY <1>2 DEF OnNewMigration!ConnectionsBack
  <2>2. /\ DOMAIN u = DOMAIN ui /\ u.form = ui.form /\ u.columns = ui.columns /\ u.left = ui.left /\ u.tables = ui.tables
        /\ ui.conns => u.conns
    BY <1>u
  <2> HIDE DEF u, again
  <2>3. NewMigrationTypes(u)
    BY <1>0, <2>2 DEF NewMigrationTypes
  <2> QED
    BY <1>0, <1>c, <2>1, <2>2, <2>3, NewMigrationShowRender
<1>3. CASE OnNewMigration!ColumnsBack
  <2> DEFINE columns == IF OnNewMigration!Answered("columns") THEN net["columns"].got ELSE OnNewMigration!None
             u == [ui EXCEPT !.columns = columns]
  <2>1. OnNewMigration!Renders(OnNewMigration!Closed("columns"), u, FALSE)
    BY <1>3 DEF OnNewMigration!ColumnsBack
  <2>2. columns \in OnNewMigration!Tables \cup {OnNewMigration!None}
    BY <1>0 DEF ColumnsFit, OnNewMigration!Answered, OnNewMigration!Out
  <2> HIDE DEF columns
  <2>3. /\ DOMAIN u = DOMAIN ui /\ u.form = ui.form /\ u.columns = columns /\ u.left = ui.left /\ u.tables = ui.tables
        /\ u.conns = ui.conns
    BY <1>u
  <2> HIDE DEF u
  <2>4. NewMigrationTypes(u)
    BY <1>0, <2>2, <2>3 DEF NewMigrationTypes
  <2> QED
    BY <1>0, <1>c, <2>1, <2>3, <2>4, NewMigrationShowRender
<1>4. CASE OnNewMigration!TablesBack
  <2>1. ui'.form = ui.form /\ ui'.columns = ui.columns /\ ui'.left = ui.left /\ net' = OnNewMigration!Closed("tables")
    BY <1>4, <1>u DEF OnNewMigration!TablesBack
  <2> QED
    BY <1>0, <1>c, <2>1 DEF NewMigrationTypes
<1>5. CASE OnNewMigration!CreateBack
  <2>1. CASE ui.plan # {}
    <3>1. PICK item \in ui.plan, ok \in {ui.ok, ui.ok + 1} :
            /\ ui' = [ui EXCEPT !.plan = @ \ {item}, !.ok = ok]
            /\ net' = OnNewMigration!With(OnNewMigration!Closed("create"), "create", item)
      BY <1>5, <2>1, Zenon DEF OnNewMigration!CreateBack
    <3>2. ui'.form = ui.form /\ ui'.columns = ui.columns /\ ui'.left = ui.left
      BY <3>1, <1>u
    <3> QED
      BY <1>0, <1>c, <1>w, <3>1, <3>2 DEF NewMigrationTypes
  <2>2. CASE ui.plan = {}
    <3>1. /\ ui'.form = ui.form /\ ui'.columns = ui.columns /\ ui'.left \in {"no", "list", "never run"}
          /\ net' = OnNewMigration!Closed("create")
      BY <1>5, <1>u, <2>2 DEF OnNewMigration!CreateBack
    <3> QED
      BY <1>0, <1>c, <3>1 DEF NewMigrationTypes
  <2> QED
    BY <2>1, <2>2
<1>6. CASE OnNewMigration!Submit
  <2>1. /\ ui'.form = ui.form /\ ui'.columns = ui.columns /\ ui'.left = ui.left
        /\ \E item : net' = OnNewMigration!With(net, "create", item)
    BY <1>6, <1>u DEF OnNewMigration!Submit, OnNewMigration!Sent
  <2> QED
    BY <1>0, <1>w, <2>1 DEF NewMigrationTypes
<1>7. CASE OnNewMigration!ChangeLanguage
  <2>1. ui' = ui /\ net' = OnNewMigration!With(net, "connections", {})
    BY <1>7 DEF OnNewMigration!ChangeLanguage, OnNewMigration!Sent
  <2> QED
    BY <1>0, <1>w, <2>1
<1>s. ASSUME NEW f, OnNewMigration!Sets(f), DOMAIN f = DOMAIN ui.form,
             f.conn \in OnNewMigration!Conns \cup {OnNewMigration!None},
             f.table \in OnNewMigration!Tables \cup {OnNewMigration!None}, f.selected \subseteq OnNewMigration!Tables
      PROVE  NewMigrationTypes(ui') /\ ColumnsFit(net')
  <2> DEFINE u == [ui EXCEPT !.form = f]
  <2>1. OnNewMigration!Renders(net, u, FALSE)
    BY <1>s DEF OnNewMigration!Sets
  <2>2. DOMAIN u = DOMAIN ui /\ u.form = f /\ u.columns = ui.columns /\ u.left = ui.left
    BY <1>u
  <2> HIDE DEF u
  <2>3. NewMigrationTypes(u)
    BY <1>0, <1>s, <2>2 DEF NewMigrationTypes
  <2> QED
    BY <1>0, <1>s, <2>1, <2>2, <2>3, NewMigrationShowRender
<1>f. /\ DOMAIN ui.form = {"mode", "conn", "table", "schema", "selected", "sinkTable", "sinkSchema", "strategy", "key", "cursor"}
      /\ ui.form.conn \in OnNewMigration!Conns \cup {OnNewMigration!None}
      /\ ui.form.table \in OnNewMigration!Tables \cup {OnNewMigration!None} /\ ui.form.selected \subseteq OnNewMigration!Tables
  BY <1>0, <1>u DEF FormFits, NewMigrationTypes
<1>8. CASE OnNewMigration!Clicks
  <2>1. ASSUME NEW c \in OnNewMigration!Conns \cup {OnNewMigration!None}, OnNewMigration!PickConnection(c)
        PROVE  NewMigrationTypes(ui') /\ ColumnsFit(net')
    <3> DEFINE f == [ui.form EXCEPT !.conn = c, !.table = OnNewMigration!None, !.schema = OnNewMigration!None, !.selected = {}]
    <3>1. OnNewMigration!Sets(f)
      BY <2>1 DEF OnNewMigration!PickConnection
    <3>2. DOMAIN f = DOMAIN ui.form /\ f.conn = c /\ f.table = OnNewMigration!None /\ f.selected = {}
      BY <1>f
    <3> HIDE DEF f
    <3> QED
      BY <1>s, <3>1, <3>2
  <2>2. ASSUME NEW f, OnNewMigration!Sets(f), DOMAIN f = DOMAIN ui.form, f.conn = ui.form.conn, f.table = ui.form.table,
               f.selected \subseteq ui.form.selected \cup OnNewMigration!Tables
        PROVE  NewMigrationTypes(ui') /\ ColumnsFit(net')
    BY <1>f, <1>s, <2>2
  <2>3. ASSUME NEW m, OnNewMigration!PickMode(m) PROVE NewMigrationTypes(ui') /\ ColumnsFit(net')
    <3> DEFINE f == [ui.form EXCEPT !.mode = m]
    <3>1. OnNewMigration!Sets(f)
      BY <2>3 DEF OnNewMigration!PickMode
    <3>2. DOMAIN f = DOMAIN ui.form /\ f.conn = ui.form.conn /\ f.table = ui.form.table /\ f.selected = ui.form.selected
      BY <1>f
    <3> HIDE DEF f
    <3> QED
      BY <2>2, <3>1, <3>2
  <2>4. ASSUME NEW table \in OnNewMigration!Tables, OnNewMigration!PickTable(table) PROVE NewMigrationTypes(ui') /\ ColumnsFit(net')
    <3> DEFINE f == [ui.form EXCEPT !.table = table, !.sinkTable = IF @ = OnNewMigration!None THEN OnNewMigration!NameOf(table) ELSE @]
    <3>1. OnNewMigration!Sets(f)
      BY <2>4 DEF OnNewMigration!PickTable
    <3>2. DOMAIN f = DOMAIN ui.form /\ f.conn = ui.form.conn /\ f.table = table /\ f.selected = ui.form.selected
      BY <1>f
    <3> HIDE DEF f
    <3> QED
      BY <1>f, <1>s, <3>1, <3>2
  <2>5. ASSUME NEW s, OnNewMigration!PickSchema(s) PROVE NewMigrationTypes(ui') /\ ColumnsFit(net')
    <3> DEFINE f == [ui.form EXCEPT !.schema = s, !.selected = {}, !.sinkSchema = IF @ = OnNewMigration!None THEN s ELSE @]
    <3>1. OnNewMigration!Sets(f)
      BY <2>5 DEF OnNewMigration!PickSchema
    <3>2. DOMAIN f = DOMAIN ui.form /\ f.conn = ui.form.conn /\ f.table = ui.form.table /\ f.selected = {}
      BY <1>f
    <3> HIDE DEF f
    <3> QED
      BY <2>2, <3>1, <3>2
  <2>6. ASSUME NEW table \in OnNewMigration!Tables, OnNewMigration!ToggleTable(table) PROVE NewMigrationTypes(ui') /\ ColumnsFit(net')
    <3> DEFINE f == [ui.form EXCEPT !.selected = IF table \in @ THEN @ \ {table} ELSE @ \cup {table}]
    <3>1. OnNewMigration!Sets(f)
      BY <2>6 DEF OnNewMigration!ToggleTable
    <3>2. DOMAIN f = DOMAIN ui.form /\ f.conn = ui.form.conn /\ f.table = ui.form.table /\ f.selected \subseteq ui.form.selected \cup {table}
      BY <1>f
    <3> HIDE DEF f
    <3> QED
      BY <2>2, <3>1, <3>2
  <2>7. CASE OnNewMigration!ToggleAll
    <3> DEFINE f == [ui.form EXCEPT !.selected = IF OnNewMigration!InSchema \subseteq @ THEN @ \ OnNewMigration!InSchema ELSE @ \cup OnNewMigration!InSchema]
    <3>1. OnNewMigration!Sets(f)
      BY <2>7 DEF OnNewMigration!ToggleAll
    <3>2. /\ DOMAIN f = DOMAIN ui.form /\ f.conn = ui.form.conn /\ f.table = ui.form.table
          /\ f.selected \subseteq ui.form.selected \cup OnNewMigration!InSchema
      BY <1>f
    <3> HIDE DEF f
    <3>3. OnNewMigration!InSchema \subseteq OnNewMigration!Tables
      BY TablesThereAre DEF OnNewMigration!InSchema
    <3> QED
      BY <2>2, <3>1, <3>2, <3>3
  <2>8. ASSUME NEW s, OnNewMigration!PickStrategy(s) PROVE NewMigrationTypes(ui') /\ ColumnsFit(net')
    <3> DEFINE f == [ui.form EXCEPT !.strategy = s]
    <3>1. OnNewMigration!Sets(f)
      BY <2>8 DEF OnNewMigration!PickStrategy
    <3>2. DOMAIN f = DOMAIN ui.form /\ f.conn = ui.form.conn /\ f.table = ui.form.table /\ f.selected = ui.form.selected
      BY <1>f
    <3> HIDE DEF f
    <3> QED
      BY <2>2, <3>1, <3>2
  <2>9. CASE OnNewMigration!TypeColumn
    <3> DEFINE f == [ui.form EXCEPT !.key = IF ui.form.strategy = "mirror" THEN OnNewMigration!Typed ELSE @,
                                    !.cursor = IF ui.form.strategy = "append" THEN OnNewMigration!Typed ELSE @]
    <3>1. OnNewMigration!Sets(f)
      BY <2>9 DEF OnNewMigration!TypeColumn
    <3>2. DOMAIN f = DOMAIN ui.form /\ f.conn = ui.form.conn /\ f.table = ui.form.table /\ f.selected = ui.form.selected
      BY <1>f
    <3> HIDE DEF f
    <3> QED
      BY <2>2, <3>1, <3>2
  <2> QED
    BY <1>6, <1>7, <1>8, <2>1, <2>3, <2>4, <2>5, <2>6, <2>7, <2>8, <2>9 DEF OnNewMigration!Clicks
<1>9. ASSUME NEW k \in DOMAIN net, OnNewMigration!Breaks(k) PROVE NewMigrationTypes(ui') /\ ColumnsFit(net')
  <2>1. ui' = ui /\ net' = [net EXCEPT ![k].stage = "failed", ![k].got = "nothing"] /\ DOMAIN net' = DOMAIN net
    BY <1>9 DEF OnNewMigration!Breaks, OnNewMigration!Fails
  <2>2. k # "columns" => ("columns" \in DOMAIN net => net'["columns"] = net["columns"])
    BY <2>1
  <2>3. k = "columns" => (DOMAIN net["columns"] = {"arg", "stage", "got"} =>
          DOMAIN net'["columns"] = {"arg", "stage", "got"} /\ net'["columns"].arg = net["columns"].arg /\ net'["columns"].stage = "failed")
    BY <1>9, <2>1
  <2> QED
    BY <1>0, <2>1, <2>2, <2>3 DEF ColumnsFit
<1> QED
  BY <1>1, <1>2, <1>3, <1>4, <1>5, <1>8, <1>9 DEF OnNewMigration!Next, OnNewMigration!Returns

\* It is what the page promises.
LEMMA NewMigrationShowEnough == NewMigrationShow => OnNewMigration!TypeOK
  BY DEF NewMigrationShow, NewMigrationTypes, OnNewMigration!TypeOK

------------------------------------------------------------------------------
(* The page of a run *)

\* There are no requests at first.
LEMMA NoRequests == DOMAIN <<>> = {}
  OBVIOUS

\* What the page of a run has, and each of its requests.
RunShape ==
  /\ {"run", "logs", "filter", "poll", "missing", "confirm", "cancelling", "retrying", "left"} \subseteq DOMAIN ui
  /\ {"status", "asked", "lines", "retries", "exists"} \subseteq DOMAIN srv
  /\ \A k \in DOMAIN net : {"arg", "stage", "got"} \subseteq DOMAIN net[k]

\* The loop reads one thing at a time: the run, its side resources, or nothing.
RunLoop ==
  /\ OnRun!Out("tick") => ui.poll = "asking" /\ ~OnRun!Out("sides")
  /\ OnRun!Out("sides") => ui.poll = "asking"

\* A row that has ended stays as it is, so whoever read it knows it.
KnowsEnd(row) == row.status \in OnRun!Terminal => row = OnRun!Row
RunRead ==
  /\ KnowsEnd(ui.run)
  /\ \A k \in {"tick", "refresh", "cancel"} : OnRun!Answered(k) => KnowsEnd(net[k].got)

\* A request that failed is remembered.
RunFailures == \A k \in DOMAIN net : OnRun!Rejected(k) => "failure" \in noise

\* The loop has read the row as it ended: it has stopped, or will after the logs
\* it is reading.
LastTick ==
  \/ ui.poll = "stopped" /\ ~ui.missing
  \/ OnRun!Out("sides") /\ net["sides"].arg.last

\* From then on what is on screen, and what comes back, has ended; what comes
\* back are all its lines, and what is on screen when the loop has stopped.
RunEnds ==
  LastTick /\ noise \subseteq {"filtered"} =>
    /\ ui.run.status \in OnRun!Terminal
    /\ \A k \in {"refresh", "cancel"} :
         OnRun!Answered(k) => (k = "refresh" /\ net[k].got = OnRun!NoRun) \/ net[k].got.status \in OnRun!Terminal
    /\ \A k \in {"sides", "logs"} : OnRun!Answered(k) => net[k].got.lines = srv.lines
    /\ ui.poll = "stopped" => ui.logs.lines = srv.lines

RunKnows == RunShape /\ RunLoop /\ RunRead /\ RunFailures /\ RunEnds

\* It holds when the page opens.
LEMMA RunKnowsInit == OnRun!Init => RunKnows
<1> SUFFICES ASSUME OnRun!Init PROVE RunKnows
  OBVIOUS
<1>1. /\ DOMAIN net = {"tick"} /\ DOMAIN net["tick"] = {"arg", "stage", "got"} /\ net["tick"].stage = "sent"
      /\ ui.poll = "asking" /\ ui.run.status = "none"
  BY DEF OnRun!Init, OnRun!With, OnRun!NoRun
<1>2. RunShape
  BY <1>1 DEF OnRun!Init, OnRun!ServerStart, RunShape
<1> QED
  BY <1>1, <1>2 DEF RunKnows, RunLoop, RunRead, RunFailures, RunEnds, LastTick, KnowsEnd, OnRun!Out, OnRun!Answered, OnRun!Rejected, OnRun!Terminal

\* It is kept by what the page does of its own and with an answer, as long as the
\* row it shows is one that was read, and the loop ends with all it has read.
LEMMA RunKnowsPage ==
  ASSUME RunKnows, srv' = srv, noise \subseteq noise', RunLoop',
         {"run", "logs", "filter", "poll", "missing", "confirm", "cancelling", "retrying", "left"} \subseteq DOMAIN ui',
         \A j \in DOMAIN net' :
           \/ j \in DOMAIN net /\ net'[j] = net[j]
           \/ net'[j].stage = "sent" /\ {"arg", "stage", "got"} \subseteq DOMAIN net'[j],
         ui'.run.status \in OnRun!Terminal => ui'.run = OnRun!Row,
         LastTick' /\ noise' \subseteq {"filtered"} =>
           /\ ui'.run.status \in OnRun!Terminal
           /\ ui'.poll = "stopped" => ui'.logs.lines = srv.lines
           /\ LastTick \/ \A j \in {"refresh", "cancel", "sides", "logs"} : j \in DOMAIN net' => net'[j].stage = "sent"
  PROVE  RunKnows'
<1> USE DEF RunKnows
<1>1. RunShape'
  BY DEF RunShape
<1>2. RunRead'
  BY DEF RunRead, KnowsEnd, OnRun!Row, OnRun!Answered, OnRun!Out, OnRun!Terminal
<1>3. RunFailures'
  BY DEF RunFailures, OnRun!Rejected, OnRun!Out
<1>4. RunEnds'
  <2> SUFFICES ASSUME LastTick', noise' \subseteq {"filtered"}
               PROVE  /\ \A k \in {"refresh", "cancel"} :
                           OnRun!Answered(k)' => (k = "refresh" /\ net'[k].got = OnRun!NoRun) \/ net'[k].got.status \in OnRun!Terminal
                      /\ \A k \in {"sides", "logs"} : OnRun!Answered(k)' => net'[k].got.lines = srv.lines
    BY DEF RunEnds, OnRun!NoRun, OnRun!Terminal
  <2>1. noise \subseteq {"filtered"}
    OBVIOUS
  <2>2. CASE LastTick
    BY <2>1, <2>2 DEF RunEnds, OnRun!Answered, OnRun!Out
  <2>3. CASE ~LastTick
    BY <2>3 DEF OnRun!Answered, OnRun!Out
  <2> QED
    BY <2>2, <2>3
<1> QED
  BY <1>1, <1>2, <1>3, <1>4

\* What a page does with its requests: some are given up, some are sent.
RunCarries(n) ==
  \A j \in DOMAIN n :
    \/ j \in DOMAIN net /\ n[j] = net[j]
    \/ n[j].stage = "sent" /\ {"arg", "stage", "got"} \subseteq DOMAIN n[j]

\* One is given up.
LEMMA RunClosed ==
  ASSUME NEW k PROVE RunCarries(OnRun!Closed(k)) /\ DOMAIN OnRun!Closed(k) = DOMAIN net \ {k}
  BY DEF RunCarries, OnRun!Closed, OnRun!Without, OnRun!Restrict

\* One more is sent.
LEMMA RunWith ==
  ASSUME NEW n, NEW k, NEW a, RunCarries(n)
  PROVE  RunCarries(OnRun!With(n, k, a)) /\ DOMAIN OnRun!With(n, k, a) = DOMAIN n \cup {k}
<1> DEFINE w == OnRun!With(n, k, a)
           fresh == [arg |-> a, stage |-> "sent", got |-> "nothing"]
<1>1. DOMAIN w = DOMAIN n \cup {k} /\ w[k] = fresh /\ \A j \in DOMAIN n : j # k => w[j] = n[j]
  BY DEF OnRun!With
<1>2. fresh.stage = "sent" /\ DOMAIN fresh = {"arg", "stage", "got"}
  OBVIOUS
<1> HIDE DEF w, fresh
<1>3. RunCarries(w)
  BY <1>1, <1>2 DEF RunCarries
<1> QED
  BY <1>1, <1>3 DEF w

\* The logs are read again.
LEMMA RunReads ==
  ASSUME NEW n, NEW f, RunCarries(n)
  PROVE  /\ RunCarries(OnRun!ReadLogs(n, f)) /\ DOMAIN OnRun!ReadLogs(n, f) = DOMAIN n \cup {"logs"}
         /\ OnRun!ReadLogs(n, f)["logs"].stage = "sent"
         /\ \A j \in DOMAIN n : j # "logs" => OnRun!ReadLogs(n, f)[j] = n[j]
<1>1. RunCarries(OnRun!ReadLogs(n, f)) /\ DOMAIN OnRun!ReadLogs(n, f) = DOMAIN n \cup {"logs"}
  BY RunWith, Zenon DEF OnRun!ReadLogs
<1>2. OnRun!ReadLogs(n, f)["logs"].stage = "sent"
  BY DEF OnRun!ReadLogs, OnRun!With
<1>3. \A j \in DOMAIN n : j # "logs" => OnRun!ReadLogs(n, f)[j] = n[j]
  BY DEF OnRun!ReadLogs, OnRun!With
<1> QED
  BY <1>1, <1>2, <1>3, Zenon

\* The server handles a request.
LEMMA RunServe == RunKnows /\ OnRun!Serve => RunKnows'
<1> SUFFICES ASSUME RunKnows, OnRun!Serve PROVE RunKnows'
  OBVIOUS
<1> USE DEF RunKnows
<1>0. ASSUME NEW k, NEW s, NEW a, OnRun!Handles(k, s, a), {"status", "asked", "lines", "retries", "exists"} \subseteq DOMAIN s,
             srv.status \in OnRun!Terminal => s.status = srv.status /\ s.asked = srv.asked /\ s.lines = srv.lines,
             k \in {"tick", "refresh"} => a \in {OnRun!NoRun, OnRun!Row},
             k = "cancel" => a = [status |-> s.status, asked |-> s.asked],
             k \in {"sides", "logs"} => a.lines = s.lines
      PROVE  RunKnows'
  <2>1. /\ ui' = ui /\ srv' = s /\ noise' = noise /\ DOMAIN net' = DOMAIN net /\ k \in DOMAIN net
        /\ \A j \in DOMAIN net : j # k => net'[j] = net[j]
    BY <1>0 DEF OnRun!Handles, OnRun!Out
  <2>2. net'[k].stage = "answered" /\ net'[k].got = a /\ net'[k].arg = net[k].arg /\ DOMAIN net'[k] = DOMAIN net[k]
    BY <1>0 DEF OnRun!Handles, OnRun!Out, RunShape
  <2>3. RunShape'
    BY <1>0, <2>1, <2>2 DEF RunShape
  <2>4. RunLoop'
    BY <2>1 DEF RunLoop, OnRun!Out
  <2>5. RunFailures'
    BY <2>1, <2>2 DEF RunFailures, OnRun!Rejected, OnRun!Out
  <2>6. srv.status \in OnRun!Terminal => OnRun!Row' = OnRun!Row
    BY <1>0, <2>1 DEF OnRun!Row
  <2>7. ASSUME NEW row, KnowsEnd(row) PROVE row.status \in OnRun!Terminal => row = OnRun!Row'
    BY <2>6, <2>7 DEF KnowsEnd, OnRun!Row
  <2>8. k = "cancel" => a = OnRun!Row'
    BY <1>0, <2>1 DEF OnRun!Row
  <2>9. k \in {"tick", "refresh", "cancel"} => (a.status \in OnRun!Terminal => a = OnRun!Row')
    BY <1>0, <2>6, <2>8 DEF OnRun!Row, OnRun!NoRun, OnRun!Terminal
  <2>10. RunRead'
    BY <2>1, <2>2, <2>7, <2>9 DEF RunRead, KnowsEnd, OnRun!Answered, OnRun!Out
  <2>11. RunEnds'
    <3> SUFFICES ASSUME LastTick', noise' \subseteq {"filtered"} PROVE RunEnds'
      BY DEF RunEnds
    <3>1. LastTick
      BY <2>1, <2>2 DEF LastTick, OnRun!Out
    <3>2. ui.run.status \in OnRun!Terminal /\ srv.status \in OnRun!Terminal
      BY <2>1, <3>1 DEF RunEnds, RunRead, KnowsEnd, OnRun!Row
    <3>3. srv'.lines = srv.lines /\ srv'.status \in OnRun!Terminal
      BY <1>0, <2>1, <3>2
    <3>4. k \in {"refresh", "cancel"} => (k = "refresh" /\ a = OnRun!NoRun) \/ a.status \in OnRun!Terminal
      BY <1>0, <2>1, <2>8, <3>2, <3>3 DEF OnRun!Row
    <3>5. k \in {"sides", "logs"} => a.lines = srv'.lines
      BY <1>0, <2>1
    <3>6. \A j \in {"refresh", "cancel"} :
            OnRun!Answered(j)' => (j = "refresh" /\ net'[j].got = OnRun!NoRun) \/ net'[j].got.status \in OnRun!Terminal
      BY <2>1, <2>2, <3>1, <3>4 DEF RunEnds, OnRun!Answered, OnRun!Out
    <3>7. \A j \in {"sides", "logs"} : OnRun!Answered(j)' => net'[j].got.lines = srv'.lines
      BY <2>1, <2>2, <3>1, <3>3, <3>5 DEF RunEnds, OnRun!Answered, OnRun!Out
    <3>8. ui'.poll = "stopped" => ui'.logs.lines = srv'.lines
      BY <2>1, <3>1, <3>3 DEF RunEnds
    <3> QED
      BY <2>1, <3>2, <3>6, <3>7, <3>8 DEF RunEnds, OnRun!NoRun, OnRun!Terminal
  <2> QED
    BY <2>3, <2>4, <2>5, <2>10, <2>11
<1>1. {"status", "asked", "lines", "retries", "exists"} \subseteq DOMAIN srv
  BY DEF RunShape
<1>2. ASSUME NEW k \in {"tick", "refresh"}, OnRun!Handles(k, srv, IF srv.exists THEN OnRun!Row ELSE OnRun!NoRun)
      PROVE  RunKnows'
  <2>1. (IF srv.exists THEN OnRun!Row ELSE OnRun!NoRun) \in {OnRun!NoRun, OnRun!Row}
    OBVIOUS
  <2> QED
    BY <1>0, <1>1, <1>2, <2>1
<1>3. ASSUME NEW k \in {"sides", "logs"}, OnRun!Handles(k, srv, [of |-> net[k].arg.of, lines |-> srv.lines])
      PROVE  RunKnows'
  BY <1>0, <1>1, <1>3
<1>4. ASSUME srv.status \notin OnRun!Terminal,
             OnRun!Handles("cancel", OnRun!Cancelled, [status |-> OnRun!Cancelled.status, asked |-> OnRun!Cancelled.asked])
      PROVE  RunKnows'
  <2>1. {"status", "asked", "lines", "retries", "exists"} \subseteq DOMAIN OnRun!Cancelled
    BY <1>1 DEF OnRun!Cancelled
  <2> QED
    BY <1>0, <1>4, <2>1
<1>5. ASSUME OnRun!Handles("retry", [srv EXCEPT !.retries = @ + 1], "fresh") PROVE RunKnows'
  <2> DEFINE s == [srv EXCEPT !.retries = @ + 1]
  <2>1. DOMAIN s = DOMAIN srv /\ s.status = srv.status /\ s.asked = srv.asked /\ s.lines = srv.lines
    BY <1>1
  <2> HIDE DEF s
  <2>2. OnRun!Handles("retry", s, "fresh")
    BY <1>5 DEF s
  <2> QED
    BY <1>0, <1>1, <2>1, <2>2
<1> QED
  BY <1>2, <1>3, <1>4, <1>5 DEF OnRun!Serve

\* The worker moves: a run that has ended is left as it is.
LEMMA RunWorker == RunKnows /\ OnRun!WorkerMoves => RunKnows'
<1> SUFFICES ASSUME RunKnows, OnRun!WorkerMoves PROVE RunKnows'
  OBVIOUS
<1>1. /\ ui' = ui /\ net' = net /\ noise' = noise /\ srv.status \notin OnRun!Terminal
      /\ DOMAIN srv' = DOMAIN srv
  BY DEF OnRun!WorkerMoves, OnRun!Terminal
<1>2. ASSUME NEW row, KnowsEnd(row) PROVE row.status \notin OnRun!Terminal
  BY <1>1, <1>2 DEF KnowsEnd, OnRun!Row
<1>3. RunShape' /\ RunLoop' /\ RunFailures'
  BY <1>1 DEF RunKnows, RunShape, RunLoop, RunFailures, OnRun!Out, OnRun!Rejected
<1>4. RunRead'
  BY <1>1, <1>2 DEF RunKnows, RunRead, KnowsEnd, OnRun!Answered, OnRun!Out
<1>5. ~(LastTick /\ noise \subseteq {"filtered"})
  BY <1>2 DEF RunKnows, RunEnds, RunRead
<1>6. RunEnds'
  BY <1>1, <1>5 DEF RunEnds, LastTick, OnRun!Out
<1> QED
  BY <1>3, <1>4, <1>6 DEF RunKnows

\* The answer to the tick's first request: the run, or that there is none.
LEMMA RunTick == RunKnows /\ OnRun!TickAnswered => RunKnows'
<1> SUFFICES ASSUME RunKnows, OnRun!TickAnswered PROVE RunKnows'
  OBVIOUS
<1>1. OnRun!Answered("tick") /\ srv' = srv /\ noise \subseteq noise' /\ OnRun!Out("tick")
  BY DEF OnRun!TickAnswered, OnRun!Overlapped, OnRun!Answered
<1>2. ~OnRun!Out("sides") /\ ui.poll = "asking"
  BY <1>1 DEF RunKnows, RunLoop
<1>3. noise' \subseteq {"filtered"} => ~OnRun!Out("refresh") /\ ~OnRun!Out("cancel")
  BY DEF OnRun!TickAnswered, OnRun!Overlapped
<1> DEFINE row == net["tick"].got
<1>4. KnowsEnd(row)
  BY <1>1 DEF RunKnows, RunRead
<1>5. RunCarries(OnRun!Closed("tick")) /\ DOMAIN OnRun!Closed("tick") = DOMAIN net \ {"tick"}
  BY RunClosed
<1>6. CASE row = OnRun!NoRun
  <2>1. ui' = [ui EXCEPT !.missing = TRUE, !.poll = "stopped"] /\ net' = OnRun!Closed("tick")
    BY <1>6 DEF OnRun!TickAnswered
  <2>2. DOMAIN ui' = DOMAIN ui /\ ui'.missing /\ ui'.run = ui.run
    BY <2>1 DEF RunKnows, RunShape
  <2>3. RunLoop' /\ ~LastTick'
    BY <1>2, <1>5, <2>1, <2>2 DEF RunLoop, LastTick, OnRun!Out
  <2>4. ui'.run.status \in OnRun!Terminal => ui'.run = OnRun!Row
    BY <2>2 DEF RunKnows, RunRead, KnowsEnd
  <2> QED
    BY <1>1, <1>5, <2>1, <2>2, <2>3, <2>4, RunKnowsPage DEF RunCarries, RunKnows, RunShape
<1>7. CASE row # OnRun!NoRun
  <2> DEFINE n == OnRun!ReadLogs(OnRun!Closed("tick"), ui.filter)
             last == row.status \in OnRun!Terminal
             arg == [of |-> ui.filter, last |-> last]
  <2>1. ui' = [ui EXCEPT !.run = row] /\ net' = OnRun!With(n, "sides", arg)
    BY <1>7 DEF OnRun!TickAnswered, OnRun!ReadSides
  <2>2. DOMAIN ui' = DOMAIN ui /\ ui'.run = row /\ ui'.poll = "asking" /\ ui'.missing = ui.missing
    BY <1>2, <2>1 DEF RunKnows, RunShape
  <2>3. RunCarries(n) /\ DOMAIN n = (DOMAIN net \ {"tick"}) \cup {"logs"} /\ n["logs"].stage = "sent"
    BY <1>5, RunReads
  <2>4. arg.last = last
    OBVIOUS
  <2> HIDE DEF n, arg
  <2>5. /\ RunCarries(net') /\ DOMAIN net' = DOMAIN n \cup {"sides"} /\ net'["logs"] = n["logs"]
        /\ net'["sides"].stage = "sent" /\ net'["sides"].arg = arg
    <3>1. RunCarries(OnRun!With(n, "sides", arg)) /\ DOMAIN OnRun!With(n, "sides", arg) = DOMAIN n \cup {"sides"}
      BY <2>3, RunWith, Zenon
    <3>2. net'["logs"] = n["logs"] /\ net'["sides"].stage = "sent" /\ net'["sides"].arg = arg
      BY <2>1, <2>3 DEF OnRun!With
    <3> QED
      BY <2>1, <3>1, <3>2
  <2>6. RunLoop'
    BY <2>2, <2>3, <2>5 DEF RunLoop, OnRun!Out
  <2>7. LastTick' => last
    BY <2>2, <2>4, <2>5 DEF LastTick
  <2>8. noise' \subseteq {"filtered"} =>
          \A j \in {"refresh", "cancel", "sides", "logs"} : j \in DOMAIN net' => net'[j].stage = "sent"
    BY <1>3, <2>3, <2>5 DEF OnRun!Out
  <2>9. \A j \in DOMAIN net' :
           \/ j \in DOMAIN net /\ net'[j] = net[j]
           \/ net'[j].stage = "sent" /\ {"arg", "stage", "got"} \subseteq DOMAIN net'[j]
    BY <2>5 DEF RunCarries
  <2>10. ui'.run.status \in OnRun!Terminal => ui'.run = OnRun!Row
    BY <1>4, <2>2 DEF KnowsEnd
  <2>11. {"run", "logs", "filter", "poll", "missing", "confirm", "cancelling", "retrying", "left"} \subseteq DOMAIN ui'
    BY <2>2 DEF RunKnows, RunShape
  <2>12. LastTick' /\ noise' \subseteq {"filtered"} =>
           /\ ui'.run.status \in OnRun!Terminal
           /\ ui'.poll = "stopped" => ui'.logs.lines = srv.lines
           /\ LastTick \/ \A j \in {"refresh", "cancel", "sides", "logs"} : j \in DOMAIN net' => net'[j].stage = "sent"
    BY <2>2, <2>7, <2>8
  <2> HIDE DEF row, last
  <2> QED
    BY <1>1, <2>6, <2>9, <2>10, <2>11, <2>12, RunKnowsPage
<1> QED
  BY <1>6, <1>7

\* The logs of a tick: with the last ones the loop stops.
LEMMA RunSides == RunKnows /\ OnRun!SidesBack => RunKnows'
<1> SUFFICES ASSUME RunKnows, OnRun!SidesBack PROVE RunKnows'
  OBVIOUS
<1>1. OnRun!Returned("sides") /\ srv' = srv /\ noise' = noise /\ net' = OnRun!Closed("sides")
  BY DEF OnRun!SidesBack
<1>2. OnRun!Out("sides") /\ ui.poll = "asking" /\ ~OnRun!Out("tick")
  BY <1>1 DEF RunKnows, RunLoop, OnRun!Returned, OnRun!Answered, OnRun!Rejected
<1>3. RunCarries(net') /\ DOMAIN net' = DOMAIN net \ {"sides"}
  BY <1>1, RunClosed
<1>4. /\ DOMAIN ui' = DOMAIN ui /\ ui'.run = ui.run /\ ui'.missing = ui.missing
      /\ ui'.poll = IF net["sides"].arg.last THEN "stopped" ELSE "resting"
      /\ ui'.logs = IF OnRun!Rejected("sides") THEN OnRun!NoLogs ELSE net["sides"].got
  BY DEF OnRun!SidesBack, RunKnows, RunShape
<1>5. RunLoop'
  BY <1>2, <1>3 DEF RunLoop, OnRun!Out
<1>6. LastTick' => LastTick
  BY <1>2, <1>3, <1>4 DEF LastTick, OnRun!Out
<1>7. noise \subseteq {"filtered"} => OnRun!Answered("sides")
  BY <1>1 DEF RunKnows, RunFailures, OnRun!Returned, OnRun!Rejected, OnRun!Out
<1>8. LastTick' /\ noise' \subseteq {"filtered"} => ui'.run.status \in OnRun!Terminal /\ ui'.logs.lines = srv.lines
  BY <1>1, <1>4, <1>6, <1>7 DEF RunKnows, RunEnds, OnRun!Answered, OnRun!Rejected
<1> QED
  BY <1>1, <1>3, <1>4, <1>5, <1>6, <1>8, RunKnowsPage DEF RunCarries, RunKnows, RunShape, RunRead, KnowsEnd

\* The logs alone.
LEMMA RunLogs == RunKnows /\ OnRun!LogsBack => RunKnows'
<1> SUFFICES ASSUME RunKnows, OnRun!LogsBack PROVE RunKnows'
  OBVIOUS
<1>1. OnRun!Returned("logs") /\ srv' = srv /\ noise' = noise /\ net' = OnRun!Closed("logs")
  BY DEF OnRun!LogsBack
<1>2. RunCarries(net') /\ DOMAIN net' = DOMAIN net \ {"logs"} /\ (OnRun!Out("sides") => net'["sides"] = net["sides"])
  BY <1>1, RunClosed DEF OnRun!Closed, OnRun!Without, OnRun!Restrict, OnRun!Out
<1>3. /\ DOMAIN ui' = DOMAIN ui /\ ui'.run = ui.run /\ ui'.missing = ui.missing /\ ui'.poll = ui.poll
      /\ ui'.logs = IF OnRun!Rejected("logs") THEN OnRun!NoLogs ELSE net["logs"].got
  BY DEF OnRun!LogsBack, RunKnows, RunShape
<1>4. RunLoop'
  BY <1>2, <1>3 DEF RunKnows, RunLoop, OnRun!Out
<1>5. LastTick' => LastTick
  BY <1>2, <1>3 DEF LastTick, OnRun!Out
<1>6. noise \subseteq {"filtered"} => OnRun!Answered("logs")
  BY <1>1 DEF RunKnows, RunFailures, OnRun!Returned, OnRun!Rejected, OnRun!Out
<1>7. LastTick' /\ noise' \subseteq {"filtered"} => ui'.run.status \in OnRun!Terminal /\ ui'.logs.lines = srv.lines
  BY <1>1, <1>3, <1>5, <1>6 DEF RunKnows, RunEnds, OnRun!Answered, OnRun!Rejected
<1> QED
  BY <1>1, <1>2, <1>3, <1>4, <1>5, <1>7, RunKnowsPage DEF RunCarries, RunKnows, RunShape, RunRead, KnowsEnd

\* The row a button brings: shown, and the logs read again.
LEMMA RunButton ==
  ASSUME RunKnows, srv' = srv, noise \subseteq noise', NEW k \in {"refresh", "cancel"}, OnRun!Answered(k),
         k = "refresh" => net[k].got # OnRun!NoRun, DOMAIN ui' = DOMAIN ui, ui'.run = net[k].got,
         ui'.poll = ui.poll, ui'.missing = ui.missing, ui'.logs = ui.logs,
         net' = OnRun!ReadLogs(OnRun!Closed(k), ui.filter)
  PROVE  RunKnows'
<1>1. RunCarries(OnRun!Closed(k)) /\ DOMAIN OnRun!Closed(k) = DOMAIN net \ {k}
  BY RunClosed
<1>2. /\ RunCarries(net') /\ DOMAIN net' = (DOMAIN net \ {k}) \cup {"logs"}
      /\ \A j \in DOMAIN OnRun!Closed(k) : j # "logs" => net'[j] = OnRun!Closed(k)[j]
  BY <1>1, RunReads
<1>3. OnRun!Out("sides") => net'["sides"] = net["sides"]
  BY <1>1, <1>2 DEF OnRun!Closed, OnRun!Without, OnRun!Restrict, OnRun!Out
<1>4. RunLoop'
  BY <1>2 DEF RunKnows, RunLoop, OnRun!Out
<1>5. LastTick' => LastTick
  BY <1>2, <1>3 DEF LastTick, OnRun!Out
<1>6. LastTick' /\ noise' \subseteq {"filtered"} =>
        ui'.run.status \in OnRun!Terminal /\ (ui'.poll = "stopped" => ui'.logs.lines = srv.lines)
  BY <1>5 DEF RunKnows, RunEnds
<1>7. ui'.run.status \in OnRun!Terminal => ui'.run = OnRun!Row
  BY DEF RunKnows, RunRead, KnowsEnd
<1> QED
  BY <1>2, <1>4, <1>5, <1>6, <1>7, RunKnowsPage DEF RunCarries, RunKnows, RunShape

\* What neither shows a row nor logs nor ends the loop.
LEMMA RunElse ==
  ASSUME RunKnows, srv' = srv, noise \subseteq noise', DOMAIN ui' = DOMAIN ui, ui'.run = ui.run,
         ui'.missing = ui.missing, ui'.logs = ui.logs, ui'.poll = ui.poll, RunCarries(net'),
         \A k \in {"tick", "sides"} : k \in DOMAIN net' => k \in DOMAIN net /\ net'[k] = net[k]
  PROVE  RunKnows'
<1>1. RunLoop'
  BY DEF RunKnows, RunLoop, OnRun!Out
<1>2. LastTick' => LastTick
  BY DEF LastTick, OnRun!Out
<1> QED
  BY <1>1, <1>2, RunKnowsPage DEF RunCarries, RunKnows, RunShape, RunRead, KnowsEnd, RunEnds

\* Every step of the page keeps it.
LEMMA RunKnowsStep == RunKnows /\ OnRun!Next => RunKnows'
<1> SUFFICES ASSUME RunKnows, OnRun!Next PROVE RunKnows'
  OBVIOUS
<1>0. RunCarries(net) /\ RunShape
  BY DEF RunKnows, RunCarries
<1>1. CASE OnRun!TickRejected
  <2>1. /\ srv' = srv /\ noise' = noise /\ OnRun!Rejected("tick") /\ net' = OnRun!Closed("tick")
        /\ DOMAIN ui' = DOMAIN ui /\ ui'.run = ui.run /\ ui'.poll = "stopped"
    BY <1>1, <1>0 DEF OnRun!TickRejected, RunShape
  <2>2. "failure" \in noise /\ ~OnRun!Out("sides")
    BY <2>1 DEF RunKnows, RunFailures, RunLoop, OnRun!Rejected, OnRun!Out
  <2>3. RunCarries(net') /\ DOMAIN net' = DOMAIN net \ {"tick"}
    BY <2>1, RunClosed
  <2>4. RunLoop' /\ ~(noise' \subseteq {"filtered"})
    BY <2>1, <2>2, <2>3 DEF RunLoop, OnRun!Out
  <2> QED
    BY <2>1, <2>3, <2>4, RunKnowsPage DEF RunCarries, RunKnows, RunShape, RunRead, KnowsEnd
<1>2. CASE OnRun!RefreshBack
  <2>1. CASE OnRun!Rejected("refresh") \/ net["refresh"].got = OnRun!NoRun
    <3>1. ui' = ui /\ srv' = srv /\ noise \subseteq noise' /\ net' = OnRun!Closed("refresh")
      BY <1>2, <2>1 DEF OnRun!RefreshBack, OnRun!Overlapped
    <3>2. \A k \in {"tick", "sides"} : k \in DOMAIN net' => k \in DOMAIN net /\ net'[k] = net[k]
      BY <3>1 DEF OnRun!Closed, OnRun!Without, OnRun!Restrict
    <3> QED
      BY <3>1, <3>2, RunClosed, RunElse
  <2>2. CASE ~(OnRun!Rejected("refresh") \/ net["refresh"].got = OnRun!NoRun)
    <3>1. /\ ui' = [ui EXCEPT !.run = net["refresh"].got]
          /\ net' = OnRun!ReadLogs(OnRun!Closed("refresh"), ui.filter)
          /\ srv' = srv /\ noise \subseteq noise' /\ OnRun!Answered("refresh")
      BY <1>2, <2>2 DEF OnRun!RefreshBack, OnRun!Overlapped, OnRun!Returned
    <3>2. /\ DOMAIN ui' = DOMAIN ui /\ ui'.run = net["refresh"].got
          /\ ui'.missing = ui.missing /\ ui'.logs = ui.logs /\ ui'.poll = ui.poll
      BY <1>0, <3>1 DEF RunShape
    <3> QED
      BY <2>2, <3>1, <3>2, RunButton
  <2> QED
    BY <2>1, <2>2
<1>3. CASE OnRun!CancelBack
  <2>1. CASE OnRun!Rejected("cancel")
    <3>1. /\ DOMAIN ui' = DOMAIN ui /\ ui'.run = ui.run /\ ui'.missing = ui.missing /\ ui'.logs = ui.logs /\ ui'.poll = ui.poll
          /\ srv' = srv /\ noise \subseteq noise' /\ net' = OnRun!Closed("cancel")
      BY <1>0, <1>3, <2>1 DEF OnRun!CancelBack, OnRun!Overlapped, RunShape
    <3>2. \A k \in {"tick", "sides"} : k \in DOMAIN net' => k \in DOMAIN net /\ net'[k] = net[k]
      BY <3>1 DEF OnRun!Closed, OnRun!Without, OnRun!Restrict
    <3> QED
      BY <3>1, <3>2, RunClosed, RunElse
  <2>2. CASE ~OnRun!Rejected("cancel")
    <3>1. /\ DOMAIN ui' = DOMAIN ui /\ ui'.run = net["cancel"].got
          /\ ui'.missing = ui.missing /\ ui'.logs = ui.logs /\ ui'.poll = ui.poll
          /\ net' = OnRun!ReadLogs(OnRun!Closed("cancel"), ui.filter)
          /\ srv' = srv /\ noise \subseteq noise' /\ OnRun!Answered("cancel")
      BY <1>0, <1>3, <2>2 DEF OnRun!CancelBack, OnRun!Overlapped, OnRun!Returned, RunShape
    <3> QED
      BY <3>1, RunButton
  <2> QED
    BY <2>1, <2>2
<1>4. CASE OnRun!RetryBack
  <2>1. /\ DOMAIN ui' = DOMAIN ui /\ ui'.run = ui.run /\ ui'.missing = ui.missing /\ ui'.logs = ui.logs /\ ui'.poll = ui.poll
        /\ srv' = srv /\ noise \subseteq noise' /\ net' = OnRun!Closed("retry")
    BY <1>0, <1>4 DEF OnRun!RetryBack, RunShape
  <2>2. \A k \in {"tick", "sides"} : k \in DOMAIN net' => k \in DOMAIN net /\ net'[k] = net[k]
    BY <2>1 DEF OnRun!Closed, OnRun!Without, OnRun!Restrict
  <2> QED
    BY <2>1, <2>2, RunClosed, RunElse
<1>5. CASE OnRun!TimerFires
  <2> DEFINE a == [of |-> All]
  <2>1. /\ ui.poll = "resting" /\ srv' = srv /\ noise' = noise /\ net' = OnRun!With(net, "tick", a)
        /\ DOMAIN ui' = DOMAIN ui /\ ui'.run = ui.run /\ ui'.poll = "asking"
    BY <1>0, <1>5 DEF OnRun!TimerFires, OnRun!Sent, RunShape
  <2> HIDE DEF a
  <2>2. RunCarries(net') /\ DOMAIN net' = DOMAIN net \cup {"tick"}
    <3>1. RunCarries(OnRun!With(net, "tick", a)) /\ DOMAIN OnRun!With(net, "tick", a) = DOMAIN net \cup {"tick"}
      BY <1>0, RunWith, Zenon
    <3> QED
      BY <2>1, <3>1
  <2>3. ~OnRun!Out("sides")
    BY <2>1 DEF RunKnows, RunLoop
  <2>4. RunLoop' /\ ~LastTick'
    BY <2>1, <2>2, <2>3 DEF RunLoop, LastTick, OnRun!Out
  <2> QED
    BY <2>1, <2>2, <2>4, RunKnowsPage DEF RunCarries, RunKnows, RunShape, RunRead, KnowsEnd
<1>6. ASSUME NEW f, OnRun!PickFilter(f) PROVE RunKnows'
  <2>1. /\ DOMAIN ui' = DOMAIN ui /\ ui'.run = ui.run /\ ui'.missing = ui.missing /\ ui'.logs = ui.logs /\ ui'.poll = ui.poll
        /\ srv' = srv /\ noise \subseteq noise'
        /\ net' = net \/ net' = OnRun!ReadLogs(net, f)
    BY <1>0, <1>6 DEF OnRun!PickFilter, RunShape
  <2>2. RunCarries(net') /\ \A k \in {"tick", "sides"} : k \in DOMAIN net' => k \in DOMAIN net /\ net'[k] = net[k]
    <3>1. /\ RunCarries(OnRun!ReadLogs(net, f)) /\ DOMAIN OnRun!ReadLogs(net, f) = DOMAIN net \cup {"logs"}
          /\ \A j \in DOMAIN net : j # "logs" => OnRun!ReadLogs(net, f)[j] = net[j]
      BY <1>0, RunReads
    <3> QED
      BY <1>0, <2>1, <3>1
  <2> QED
    BY <2>1, <2>2, RunElse
<1>7. ASSUME NEW k \in {"refresh", "cancel", "retry"}, net' = OnRun!Sent(k, [of |-> All]),
             DOMAIN ui' = DOMAIN ui, ui'.run = ui.run, ui'.missing = ui.missing, ui'.logs = ui.logs, ui'.poll = ui.poll,
             srv' = srv, noise' = noise
      PROVE  RunKnows'
  <2> DEFINE a == [of |-> All]
  <2>1. net' = OnRun!With(net, k, a)
    BY <1>7 DEF OnRun!Sent
  <2> HIDE DEF a
  <2>2. RunCarries(net') /\ \A j \in {"tick", "sides"} : j \in DOMAIN net' => j \in DOMAIN net /\ net'[j] = net[j]
    <3>1. RunCarries(OnRun!With(net, k, a)) /\ DOMAIN OnRun!With(net, k, a) = DOMAIN net \cup {k}
      BY <1>0, RunWith, Zenon
    <3>2. \A j \in DOMAIN net : j # k => net'[j] = net[j]
      BY <2>1 DEF OnRun!With
    <3> QED
      BY <1>7, <2>1, <3>1, <3>2
  <2> QED
    BY <1>7, <2>2, RunElse
<1>8. CASE OnRun!ClickRefresh
  BY <1>7, <1>8 DEF OnRun!ClickRefresh
<1>9. CASE OnRun!ConfirmCancel
  BY <1>0, <1>7, <1>9 DEF OnRun!ConfirmCancel, RunShape
<1>10. CASE OnRun!ClickRetry
  BY <1>0, <1>7, <1>10 DEF OnRun!ClickRetry, RunShape
<1>11. CASE OnRun!AskCancel \/ OnRun!LeaveDialog
  BY <1>0, <1>11, RunElse DEF OnRun!AskCancel, OnRun!LeaveDialog, RunShape
<1>12. ASSUME NEW k \in DOMAIN net, OnRun!Spoils(k) PROVE RunKnows'
  <2>1. /\ ui' = ui /\ srv' = srv /\ noise' = noise \cup {"failure"} /\ DOMAIN net' = DOMAIN net
        /\ \A j \in DOMAIN net : j # k => net'[j] = net[j]
    BY <1>12 DEF OnRun!Spoils, OnRun!Fails
  <2>2. net'[k].stage = "failed" /\ DOMAIN net'[k] = DOMAIN net[k]
    BY <1>0, <1>12 DEF OnRun!Spoils, OnRun!Fails, RunShape
  <2>3. RunShape' /\ RunLoop' /\ RunFailures' /\ RunEnds'
    BY <2>1, <2>2 DEF RunKnows, RunShape, RunLoop, RunFailures, RunEnds, OnRun!Out
  <2>4. RunRead'
    BY <2>1, <2>2 DEF RunKnows, RunRead, KnowsEnd, OnRun!Answered, OnRun!Out, OnRun!Row
  <2> QED
    BY <2>3, <2>4 DEF RunKnows
<1> QED
  BY <1>1, <1>2, <1>3, <1>4, <1>5, <1>6, <1>8, <1>9, <1>10, <1>11, <1>12, RunServe, RunWorker, RunTick, RunSides, RunLogs
  DEF OnRun!Next, OnRun!Deliver, OnRun!Returns, OnRun!UserActs

\* A step that leaves the page's state alone leaves it so.
LEMMA RunKnowsSame == RunKnows /\ UNCHANGED browser => RunKnows'
<1> SUFFICES ASSUME RunKnows, ui' = ui, net' = net, srv' = srv, noise' = noise PROVE RunKnows'
  BY DEF browser
<1> QED
  BY DEF RunKnows, RunShape, RunLoop, RunRead, KnowsEnd, RunFailures, RunEnds, LastTick, OnRun!Out, OnRun!Answered, OnRun!Rejected, OnRun!Row

(* What it shows *)

\* The types of the page, of the server and of what comes back.
RunTypes ==
  /\ OnRun!TypeOK /\ srv.asked \in BOOLEAN
  /\ \A k \in {"tick", "refresh"} : OnRun!Answered(k) => net[k].got \in OnRun!RunRows
  /\ OnRun!Answered("cancel") => net["cancel"].got \in OnRun!RunRows \ {OnRun!NoRun}

\* Unless something happened that it is not good for, the logs that are read are
\* those of the filter, and so are those on the screen when none are read.
RunReadsFilter ==
  /\ \A k \in {"sides", "logs"} \cap DOMAIN net :
       net[k].arg.of = ui.filter /\ (net[k].stage = "answered" => net[k].got.of = ui.filter)
  /\ ui.run # OnRun!NoRun /\ "logs" \notin DOMAIN net => ui.logs.of = ui.filter
RunFollows ==
  /\ RunKnows /\ RunTypes
  /\ "logs" \in DOMAIN net => ui.run # OnRun!NoRun
  /\ noise = {} => RunReadsFilter

\* Rows are told from no row by their status.
LEMMA RunRow ==
  /\ OnRun!NoRun \in OnRun!RunRows
  /\ \A status \in OnRun!Status, asked \in BOOLEAN : [status |-> status, asked |-> asked] \in OnRun!RunRows \ {OnRun!NoRun}
<1>1. OnRun!NoRun \in OnRun!RunRows
  BY DEF OnRun!RunRows
<1>2. ASSUME NEW status \in OnRun!Status, NEW asked \in BOOLEAN PROVE [status |-> status, asked |-> asked] \in OnRun!RunRows \ {OnRun!NoRun}
  <2>1. [status |-> status, asked |-> asked].status # OnRun!NoRun.status
    BY DEF OnRun!Status, OnRun!Terminal, OnRun!NoRun
  <2>2. [status |-> status, asked |-> asked] \in [status : OnRun!Status, asked : BOOLEAN]
    OBVIOUS
  <2> QED
    BY <2>1, <2>2 DEF OnRun!RunRows
<1> QED
  BY <1>1, <1>2

\* It holds when the page opens.
LEMMA RunFollowsInit == OnRun!Init => RunFollows
<1> SUFFICES ASSUME OnRun!Init PROVE RunFollows
  OBVIOUS
<1>0. net = OnRun!With(<<>>, "tick", [of |-> All])
  BY DEF OnRun!Init
<1>n. DOMAIN net = {"tick"} /\ net["tick"].stage = "sent"
  BY <1>0, NoRequests DEF OnRun!With
<1>1. /\ ui.run = OnRun!NoRun /\ ui.filter = All /\ ui.poll = "asking" /\ clicks = 0
      /\ srv.status = "pending" /\ srv.asked = FALSE
  BY DEF OnRun!Init, OnRun!ServerStart
<1>2. OnRun!TypeOK
  BY <1>n, <1>1, RunRow, SizesAssumption DEF OnRun!TypeOK, OnRun!Status
<1> QED
  BY <1>n, <1>1, <1>2, RunKnowsInit DEF RunFollows, RunTypes, RunReadsFilter, OnRun!Answered, OnRun!Out

\* It is kept by what the page does of its own and with an answer.
LEMMA RunFollowsPage ==
  ASSUME RunFollows, RunKnows', srv' = srv, noise \subseteq noise', clicks' \in 0..Bound.clicks.run,
         ui'.run \in OnRun!RunRows, ui'.filter \in Nodes \cup {All}, ui'.poll \in {"asking", "resting", "stopped"},
         DOMAIN net' \subseteq {"tick", "sides", "logs", "refresh", "cancel", "retry"}, RunCarries(net'),
         "logs" \in DOMAIN net' => ui'.run # OnRun!NoRun, noise' = {} => RunReadsFilter'
  PROVE  RunFollows'
<1>1. OnRun!TypeOK'
  BY DEF RunFollows, RunTypes, OnRun!TypeOK
<1>2. ASSUME NEW k, OnRun!Answered(k)' PROVE OnRun!Answered(k) /\ net'[k].got = net[k].got
  BY <1>2 DEF RunCarries, OnRun!Answered, OnRun!Out
<1>3. RunTypes'
  BY <1>1, <1>2 DEF RunFollows, RunTypes
<1> QED
  BY <1>3 DEF RunFollows

\* A click, or a timer, that changes neither the filter nor what is shown, and
\* sends no request for logs; or an answer that brings nothing of these.
LEMMA RunFollowsElse ==
  ASSUME RunFollows, RunKnows', srv' = srv, noise \subseteq noise', clicks' \in 0..Bound.clicks.run,
         ui'.run = ui.run, ui'.filter = ui.filter, ui'.logs = ui.logs, ui'.poll \in {"asking", "resting", "stopped"},
         RunCarries(net'), DOMAIN net' \subseteq {"tick", "sides", "logs", "refresh", "cancel", "retry"},
         \A k \in {"sides", "logs"} : (k \in DOMAIN net' <=> k \in DOMAIN net) /\ (k \in DOMAIN net => net'[k] = net[k])
  PROVE  RunFollows'
<1>1. ui.run \in OnRun!RunRows /\ ui.filter \in Nodes \cup {All}
  BY DEF RunFollows, RunTypes, OnRun!TypeOK
<1>2. noise' = {} => RunReadsFilter'
  BY DEF RunFollows, RunReadsFilter
<1>3. "logs" \in DOMAIN net' => ui'.run # OnRun!NoRun
  BY DEF RunFollows
<1> QED
  BY <1>1, <1>2, <1>3, RunFollowsPage

\* A row is shown, and its logs read again; perhaps side resources are too.
LEMMA RunFollowsRow ==
  ASSUME RunFollows, RunKnows', srv' = srv, noise \subseteq noise', clicks' = clicks,
         NEW k \in {"tick", "refresh", "cancel"}, OnRun!Answered(k), net[k].got # OnRun!NoRun,
         ui'.run = net[k].got, ui'.filter = ui.filter, ui'.poll = ui.poll,
         \/ net' = OnRun!ReadLogs(OnRun!Closed(k), ui.filter)
         \/ net' = OnRun!ReadSides(OnRun!ReadLogs(OnRun!Closed(k), ui.filter), net[k].got)
  PROVE  RunFollows'
<1> DEFINE closed == OnRun!Closed(k)
           logs == OnRun!ReadLogs(closed, ui.filter)
           sides == OnRun!ReadSides(logs, net[k].got)
<1>1. RunCarries(closed) /\ DOMAIN closed = DOMAIN net \ {k} /\ \A j \in DOMAIN closed : closed[j] = net[j]
  BY RunClosed DEF OnRun!Closed, OnRun!Without, OnRun!Restrict
<1> HIDE DEF closed
<1>2. RunCarries(logs) /\ DOMAIN logs = DOMAIN closed \cup {"logs"} /\ \A j \in DOMAIN closed : j # "logs" => logs[j] = closed[j]
  BY <1>1, RunReads
<1>3. logs["logs"] = [arg |-> [of |-> ui.filter], stage |-> "sent", got |-> "nothing"]
  BY DEF OnRun!ReadLogs, OnRun!With
<1> HIDE DEF logs
<1>4. RunCarries(sides) /\ DOMAIN sides = DOMAIN logs \cup {"sides"}
  <2> DEFINE a == [of |-> ui.filter, last |-> net[k].got.status \in OnRun!Terminal]
  <2>1. sides = OnRun!With(logs, "sides", a)
    BY DEF OnRun!ReadSides
  <2> HIDE DEF a, sides
  <2> QED
    BY <1>2, <2>1, RunWith
<1>5. /\ sides["sides"].arg.of = ui.filter /\ sides["sides"].stage = "sent"
      /\ \A j \in DOMAIN logs : j # "sides" => sides[j] = logs[j]
  BY DEF OnRun!ReadSides, OnRun!With
<1> HIDE DEF sides
<1>6. net' = logs \/ net' = sides
  BY DEF logs, sides, closed
<1>7. RunCarries(net') /\ DOMAIN net' \subseteq DOMAIN net \cup {"logs", "sides"} /\ "logs" \in DOMAIN net'
  BY <1>1, <1>2, <1>4, <1>6
<1>8. noise' = {} => RunReadsFilter'
  <2> SUFFICES ASSUME noise' = {} PROVE RunReadsFilter'
    OBVIOUS
  <2>1. net'["logs"].arg.of = ui.filter /\ net'["logs"].stage = "sent"
    BY <1>2, <1>3, <1>5, <1>6
  <2>2. "sides" \in DOMAIN net' =>
          \/ net'["sides"].arg.of = ui.filter /\ net'["sides"].stage = "sent"
          \/ "sides" \in DOMAIN net /\ net'["sides"] = net["sides"]
    BY <1>1, <1>2, <1>5, <1>6
  <2>3. RunReadsFilter
    BY DEF RunFollows
  <2> QED
    BY <1>7, <2>1, <2>2, <2>3 DEF RunReadsFilter
<1>9. ui'.run \in OnRun!RunRows /\ clicks \in 0..Bound.clicks.run /\ ui.filter \in Nodes \cup {All} /\ ui.poll \in {"asking", "resting", "stopped"}
  BY DEF RunFollows, RunTypes, OnRun!TypeOK
<1>10. DOMAIN net' \subseteq {"tick", "sides", "logs", "refresh", "cancel", "retry"}
  BY <1>7 DEF RunFollows, RunTypes, OnRun!TypeOK
<1> QED
  BY <1>7, <1>8, <1>9, <1>10, RunFollowsPage

\* Logs come back, or cannot be read.
LEMMA RunFollowsLogs ==
  ASSUME RunFollows, RunKnows', srv' = srv, noise' = noise, clicks' = clicks, NEW k \in {"sides", "logs"}, OnRun!Returned(k),
         ui'.logs = IF OnRun!Rejected(k) THEN OnRun!NoLogs ELSE net[k].got, net' = OnRun!Closed(k),
         ui'.run = ui.run, ui'.filter = ui.filter, ui'.poll \in {"asking", "resting", "stopped"}
  PROVE  RunFollows'
<1>1. RunCarries(net') /\ DOMAIN net' = DOMAIN net \ {k} /\ \A j \in DOMAIN net' : net'[j] = net[j]
  BY RunClosed DEF OnRun!Closed, OnRun!Without, OnRun!Restrict
<1>2. noise' = {} => RunReadsFilter'
  <2> SUFFICES ASSUME noise' = {} PROVE RunReadsFilter'
    OBVIOUS
  <2>1. OnRun!Answered(k) /\ k \in DOMAIN net /\ net[k].stage = "answered" /\ ~OnRun!Rejected(k)
    BY DEF RunFollows, RunKnows, RunFailures, OnRun!Returned, OnRun!Answered, OnRun!Rejected, OnRun!Out
  <2>2. RunReadsFilter
    BY DEF RunFollows
  <2>3. ui'.logs.of = ui.filter
    BY <2>1, <2>2 DEF RunReadsFilter
  <2> QED
    BY <1>1, <2>2, <2>3 DEF RunReadsFilter
<1>3. /\ ui.run \in OnRun!RunRows /\ clicks \in 0..Bound.clicks.run /\ ui.filter \in Nodes \cup {All}
      /\ DOMAIN net' \subseteq {"tick", "sides", "logs", "refresh", "cancel", "retry"}
  BY <1>1 DEF RunFollows, RunTypes, OnRun!TypeOK
<1>4. "logs" \in DOMAIN net' => ui'.run # OnRun!NoRun
  BY <1>1 DEF RunFollows
<1> QED
  BY <1>1, <1>2, <1>3, <1>4, RunFollowsPage

\* The server answers, or a request fails.
LEMMA RunFollowsServe == ASSUME RunFollows, OnRun!Serve PROVE RunFollows'
<1>0. /\ \A k \in DOMAIN net : {"arg", "stage", "got"} \subseteq DOMAIN net[k]
      /\ {"status", "asked", "lines", "retries", "exists"} \subseteq DOMAIN srv /\ RunKnows'
  BY RunServe DEF RunFollows, RunKnows, RunShape
<1>1. ASSUME NEW k, NEW s, NEW a, OnRun!Handles(k, s, a), s.status \in OnRun!Status, s.asked \in BOOLEAN,
             k \in {"tick", "refresh"} => a \in OnRun!RunRows, k = "cancel" => a \in OnRun!RunRows \ {OnRun!NoRun},
             k \in {"sides", "logs"} => a.of = net[k].arg.of
      PROVE  RunFollows'
  <2>1. /\ k \in DOMAIN net /\ ui' = ui /\ srv' = s /\ noise' = noise /\ clicks' = clicks
        /\ net' = [net EXCEPT ![k].stage = "answered", ![k].got = a]
    BY <1>1 DEF OnRun!Handles, OnRun!Out
  <2>2. /\ DOMAIN net' = DOMAIN net /\ \A j \in DOMAIN net : j # k => net'[j] = net[j]
        /\ net'[k].got = a /\ net'[k].arg = net[k].arg
    BY <1>0, <2>1
  <2>3. OnRun!TypeOK'
    BY <1>1, <2>1, <2>2 DEF RunFollows, RunTypes, OnRun!TypeOK
  <2>4. \A j : j # k /\ OnRun!Answered(j)' => OnRun!Answered(j) /\ net'[j].got = net[j].got
    BY <2>2 DEF OnRun!Answered, OnRun!Out
  <2>5. RunTypes'
    BY <1>1, <2>1, <2>2, <2>3, <2>4 DEF RunFollows, RunTypes
  <2>6. noise' = {} => RunReadsFilter'
    BY <1>1, <2>1, <2>2 DEF RunFollows, RunReadsFilter
  <2> QED
    BY <1>0, <2>1, <2>2, <2>5, <2>6 DEF RunFollows
<1>2. srv.status \in OnRun!Status /\ srv.asked \in BOOLEAN
  BY DEF RunFollows, RunTypes, OnRun!TypeOK
<1>3. ASSUME NEW k \in {"tick", "refresh"}, OnRun!Handles(k, srv, IF srv.exists THEN OnRun!Row ELSE OnRun!NoRun) PROVE RunFollows'
  <2>1. OnRun!Row \in OnRun!RunRows /\ OnRun!NoRun \in OnRun!RunRows
    BY <1>2, RunRow DEF OnRun!Row
  <2>2. (IF srv.exists THEN OnRun!Row ELSE OnRun!NoRun) \in OnRun!RunRows
    BY <2>1
  <2> QED
    BY <1>1, <1>2, <1>3, <2>2
<1>4. ASSUME NEW k \in {"sides", "logs"}, OnRun!Handles(k, srv, [of |-> net[k].arg.of, lines |-> srv.lines]) PROVE RunFollows'
  <2> DEFINE a == [of |-> net[k].arg.of, lines |-> srv.lines]
  <2>1. OnRun!Handles(k, srv, a) /\ a.of = net[k].arg.of
    BY <1>4
  <2> HIDE DEF a
  <2> QED
    BY <1>1, <1>2, <2>1
<1>5. ASSUME OnRun!Handles("cancel", OnRun!Cancelled, [status |-> OnRun!Cancelled.status, asked |-> OnRun!Cancelled.asked]) PROVE RunFollows'
  <2> DEFINE s == OnRun!Cancelled
             a == [status |-> s.status, asked |-> s.asked]
  <2>1. s.status \in OnRun!Status /\ s.asked \in BOOLEAN
    BY <1>0, <1>2 DEF OnRun!Cancelled, OnRun!Status, OnRun!Terminal
  <2>2. OnRun!Handles("cancel", s, a)
    BY <1>5
  <2> HIDE DEF s
  <2>3. a \in OnRun!RunRows \ {OnRun!NoRun}
    BY <2>1, RunRow
  <2> HIDE DEF a
  <2> QED
    BY <1>1, <2>1, <2>2, <2>3
<1>6. ASSUME OnRun!Handles("retry", [srv EXCEPT !.retries = @ + 1], "fresh") PROVE RunFollows'
  <2> DEFINE s == [srv EXCEPT !.retries = @ + 1]
  <2>1. s.status \in OnRun!Status /\ s.asked \in BOOLEAN
    BY <1>0, <1>2
  <2>2. OnRun!Handles("retry", s, "fresh")
    BY <1>6
  <2> HIDE DEF s
  <2> QED
    BY <1>1, <2>1, <2>2
<1> QED
  BY <1>3, <1>4, <1>5, <1>6 DEF OnRun!Serve

\* Every step of the page keeps it.
LEMMA RunFollowsStep == RunFollows /\ OnRun!Next => RunFollows'
<1> SUFFICES ASSUME RunFollows, OnRun!Next PROVE RunFollows'
  OBVIOUS
<1>0. RunKnows /\ RunKnows' /\ RunCarries(net)
  BY RunKnowsStep DEF RunFollows, RunCarries
<1>t. /\ {"run", "logs", "filter", "poll", "missing", "confirm", "cancelling", "retrying", "left"} \subseteq DOMAIN ui
      /\ \A k \in DOMAIN net : {"arg", "stage", "got"} \subseteq DOMAIN net[k]
      /\ ui.run \in OnRun!RunRows /\ ui.filter \in Nodes \cup {All} /\ ui.poll \in {"asking", "resting", "stopped"}
      /\ DOMAIN net \subseteq {"tick", "sides", "logs", "refresh", "cancel", "retry"}
      /\ clicks \in 0..Bound.clicks.run /\ Bound.clicks.run \in Nat
  BY SizesAssumption DEF RunFollows, RunKnows, RunShape, RunTypes, OnRun!TypeOK
<1>c. OnRun!Click => clicks' \in 0..Bound.clicks.run
  BY <1>t DEF OnRun!Click
<1>1. CASE OnRun!TickAnswered
  <2>1. OnRun!Answered("tick") /\ srv' = srv /\ clicks' = clicks /\ noise \subseteq noise'
    BY <1>1 DEF OnRun!TickAnswered, OnRun!Overlapped
  <2>2. CASE net["tick"].got = OnRun!NoRun
    <3>1. /\ net' = OnRun!Closed("tick") /\ ui'.run = ui.run /\ ui'.filter = ui.filter /\ ui'.logs = ui.logs /\ ui'.poll = "stopped"
      BY <1>t, <1>1, <2>2 DEF OnRun!TickAnswered
    <3>2. DOMAIN net' = DOMAIN net \ {"tick"} /\ RunCarries(net') /\ \A j \in DOMAIN net' : net'[j] = net[j]
      BY <3>1, RunClosed DEF OnRun!Closed, OnRun!Without, OnRun!Restrict
    <3> QED
      BY <1>0, <1>t, <2>1, <3>1, <3>2, RunFollowsElse
  <2>3. CASE net["tick"].got # OnRun!NoRun
    <3>1. /\ net' = OnRun!ReadSides(OnRun!ReadLogs(OnRun!Closed("tick"), ui.filter), net["tick"].got)
          /\ ui'.run = net["tick"].got /\ ui'.filter = ui.filter /\ ui'.poll = ui.poll
      BY <1>t, <1>1, <2>3 DEF OnRun!TickAnswered
    <3> QED
      BY <1>0, <2>1, <2>3, <3>1, RunFollowsRow
  <2> QED
    BY <2>2, <2>3
<1>2. CASE OnRun!TickRejected
  <2>1. /\ srv' = srv /\ noise' = noise /\ clicks' = clicks /\ net' = OnRun!Closed("tick")
        /\ ui'.run = ui.run /\ ui'.filter = ui.filter /\ ui'.logs = ui.logs /\ ui'.poll = "stopped"
    BY <1>t, <1>2 DEF OnRun!TickRejected
  <2>2. DOMAIN net' = DOMAIN net \ {"tick"} /\ RunCarries(net') /\ \A j \in DOMAIN net' : net'[j] = net[j]
    BY <2>1, RunClosed DEF OnRun!Closed, OnRun!Without, OnRun!Restrict
  <2> QED
    BY <1>0, <1>t, <2>1, <2>2, RunFollowsElse
<1>3. CASE OnRun!SidesBack
  <2>1. /\ srv' = srv /\ noise' = noise /\ clicks' = clicks /\ net' = OnRun!Closed("sides") /\ OnRun!Returned("sides")
        /\ ui'.run = ui.run /\ ui'.filter = ui.filter /\ ui'.poll \in {"asking", "resting", "stopped"}
        /\ ui'.logs = IF OnRun!Rejected("sides") THEN OnRun!NoLogs ELSE net["sides"].got
    BY <1>t, <1>3 DEF OnRun!SidesBack
  <2> QED
    BY <1>0, <2>1, RunFollowsLogs
<1>4. CASE OnRun!LogsBack
  <2>1. /\ srv' = srv /\ noise' = noise /\ clicks' = clicks /\ net' = OnRun!Closed("logs") /\ OnRun!Returned("logs")
        /\ ui'.run = ui.run /\ ui'.filter = ui.filter /\ ui'.poll \in {"asking", "resting", "stopped"}
        /\ ui'.logs = IF OnRun!Rejected("logs") THEN OnRun!NoLogs ELSE net["logs"].got
    BY <1>t, <1>4 DEF OnRun!LogsBack
  <2> QED
    BY <1>0, <2>1, RunFollowsLogs
\* The answer to a button that brings no row.
<1>5. ASSUME NEW k \in {"refresh", "cancel", "retry"}, srv' = srv, noise \subseteq noise', clicks' = clicks, net' = OnRun!Closed(k),
             ui'.run = ui.run, ui'.filter = ui.filter, ui'.logs = ui.logs, ui'.poll = ui.poll
      PROVE  RunFollows'
  <2>1. DOMAIN net' = DOMAIN net \ {k} /\ RunCarries(net') /\ \A j \in DOMAIN net' : net'[j] = net[j]
    BY <1>5, RunClosed DEF OnRun!Closed, OnRun!Without, OnRun!Restrict
  <2>2. \A j \in {"sides", "logs"} : (j \in DOMAIN net' <=> j \in DOMAIN net) /\ (j \in DOMAIN net => net'[j] = net[j])
    BY <2>1
  <2> QED
    BY <1>0, <1>t, <1>5, <2>1, <2>2, RunFollowsElse
<1>6. CASE OnRun!RefreshBack
  <2>1. srv' = srv /\ clicks' = clicks /\ noise \subseteq noise' /\ OnRun!Returned("refresh")
    BY <1>6 DEF OnRun!RefreshBack, OnRun!Overlapped
  <2>2. CASE OnRun!Rejected("refresh") \/ net["refresh"].got = OnRun!NoRun
    <3>1. ui' = ui /\ net' = OnRun!Closed("refresh")
      BY <1>6, <2>2 DEF OnRun!RefreshBack
    <3> QED
      BY <1>5, <2>1, <3>1
  <2>3. CASE ~(OnRun!Rejected("refresh") \/ net["refresh"].got = OnRun!NoRun)
    <3>1. /\ net' = OnRun!ReadLogs(OnRun!Closed("refresh"), ui.filter)
          /\ ui'.run = net["refresh"].got /\ ui'.filter = ui.filter /\ ui'.poll = ui.poll
      BY <1>t, <1>6, <2>3 DEF OnRun!RefreshBack
    <3>2. OnRun!Answered("refresh")
      BY <2>1, <2>3 DEF OnRun!Returned
    <3> QED
      BY <1>0, <2>1, <2>3, <3>1, <3>2, RunFollowsRow
  <2> QED
    BY <2>2, <2>3
<1>7. CASE OnRun!CancelBack
  <2>1. srv' = srv /\ clicks' = clicks /\ noise \subseteq noise' /\ OnRun!Returned("cancel")
    BY <1>7 DEF OnRun!CancelBack, OnRun!Overlapped
  <2>2. CASE OnRun!Rejected("cancel")
    <3>1. /\ net' = OnRun!Closed("cancel") /\ ui'.run = ui.run /\ ui'.filter = ui.filter /\ ui'.logs = ui.logs /\ ui'.poll = ui.poll
      BY <1>t, <1>7, <2>2 DEF OnRun!CancelBack
    <3> QED
      BY <1>5, <2>1, <3>1
  <2>3. CASE ~OnRun!Rejected("cancel")
    <3>1. /\ net' = OnRun!ReadLogs(OnRun!Closed("cancel"), ui.filter)
          /\ ui'.run = net["cancel"].got /\ ui'.filter = ui.filter /\ ui'.poll = ui.poll
      BY <1>t, <1>7, <2>3 DEF OnRun!CancelBack
    <3>2. OnRun!Answered("cancel")
      BY <2>1, <2>3 DEF OnRun!Returned
    <3>3. net["cancel"].got # OnRun!NoRun
      BY <3>2 DEF RunFollows, RunTypes
    <3> QED
      BY <1>0, <2>1, <3>1, <3>2, <3>3, RunFollowsRow
  <2> QED
    BY <2>2, <2>3
<1>8. CASE OnRun!RetryBack
  <2>1. /\ srv' = srv /\ noise' = noise /\ clicks' = clicks /\ net' = OnRun!Closed("retry")
        /\ ui'.run = ui.run /\ ui'.filter = ui.filter /\ ui'.logs = ui.logs /\ ui'.poll = ui.poll
    BY <1>t, <1>8 DEF OnRun!RetryBack
  <2> QED
    BY <1>5, <2>1
\* A click or the timer sends a request that is not about logs, or none.
<1>9. ASSUME NEW k \in {"tick", "refresh", "cancel", "retry"}, NEW a, net' = net \/ net' = OnRun!With(net, k, a), srv' = srv, noise' = noise,
             clicks' \in 0..Bound.clicks.run, ui'.run = ui.run, ui'.filter = ui.filter, ui'.logs = ui.logs, ui'.poll \in {"asking", "resting", "stopped"}
      PROVE  RunFollows'
  <2>1. RunCarries(OnRun!With(net, k, a)) /\ DOMAIN OnRun!With(net, k, a) = DOMAIN net \cup {k}
    BY <1>0, RunWith, Zenon
  <2>2. \A j \in DOMAIN net : j # k => OnRun!With(net, k, a)[j] = net[j]
    BY DEF OnRun!With
  <2>3. \A j \in {"sides", "logs"} : (j \in DOMAIN net' <=> j \in DOMAIN net) /\ (j \in DOMAIN net => net'[j] = net[j])
    BY <1>9, <2>1, <2>2
  <2>4. RunCarries(net') /\ DOMAIN net' \subseteq {"tick", "sides", "logs", "refresh", "cancel", "retry"}
    BY <1>0, <1>t, <1>9, <2>1
  <2> QED
    BY <1>0, <1>9, <2>3, <2>4, RunFollowsElse
<1>10. CASE OnRun!TimerFires
  <2>1. /\ net' = OnRun!With(net, "tick", [of |-> All]) /\ srv' = srv /\ noise' = noise /\ clicks' = clicks
        /\ ui'.run = ui.run /\ ui'.filter = ui.filter /\ ui'.logs = ui.logs /\ ui'.poll = "asking"
    BY <1>t, <1>10 DEF OnRun!TimerFires, OnRun!Sent
  <2> QED
    BY <1>t, <1>9, <2>1
<1>11. CASE OnRun!ClickRefresh \/ OnRun!ConfirmCancel \/ OnRun!ClickRetry
  <2>1. /\ \E k \in {"refresh", "cancel", "retry"} : net' = OnRun!With(net, k, [of |-> All])
        /\ srv' = srv /\ noise' = noise /\ (OnRun!Click \/ clicks' = clicks)
        /\ ui'.run = ui.run /\ ui'.filter = ui.filter /\ ui'.logs = ui.logs /\ ui'.poll = ui.poll
    BY <1>t, <1>11 DEF OnRun!ClickRefresh, OnRun!ConfirmCancel, OnRun!ClickRetry, OnRun!Sent
  <2> QED
    BY <1>t, <1>c, <1>9, <2>1
<1>12. CASE OnRun!AskCancel \/ OnRun!LeaveDialog
  <2>1. /\ net' = net /\ srv' = srv /\ noise' = noise /\ (OnRun!Click \/ clicks' = clicks)
        /\ ui'.run = ui.run /\ ui'.filter = ui.filter /\ ui'.logs = ui.logs /\ ui'.poll = ui.poll
    BY <1>t, <1>12 DEF OnRun!AskCancel, OnRun!LeaveDialog
  <2> QED
    BY <1>t, <1>c, <1>9, <2>1
<1>13. ASSUME NEW f \in Nodes \cup {All}, OnRun!PickFilter(f) PROVE RunFollows'
  <2>1. /\ ui'.run = ui.run /\ ui'.filter = f /\ ui'.logs = ui.logs /\ ui'.poll = ui.poll /\ srv' = srv /\ noise \subseteq noise'
        /\ noise' = {} => noise = {} /\ "sides" \notin DOMAIN net
        /\ net' = (IF ui.run = OnRun!NoRun THEN net ELSE OnRun!ReadLogs(net, f)) /\ clicks' \in 0..Bound.clicks.run
    BY <1>t, <1>c, <1>13 DEF OnRun!PickFilter, OnRun!Out
  <2>2. CASE ui.run = OnRun!NoRun
    <3>1. net' = net /\ "logs" \notin DOMAIN net
      BY <2>1, <2>2 DEF RunFollows
    <3>2. noise' = {} => RunReadsFilter'
      BY <2>1, <2>2, <3>1 DEF RunReadsFilter
    <3> QED
      BY <1>0, <1>t, <2>1, <3>1, <3>2, RunFollowsPage
  <2>3. CASE ui.run # OnRun!NoRun
    <3>1. net' = OnRun!ReadLogs(net, f)
      BY <2>1, <2>3
    <3>2. RunCarries(net') /\ DOMAIN net' = DOMAIN net \cup {"logs"}
      BY <1>0, <3>1, RunReads
    <3>3. net'["logs"].arg.of = f /\ net'["logs"].stage = "sent"
      BY <3>1 DEF OnRun!ReadLogs, OnRun!With
    <3>4. noise' = {} => RunReadsFilter'
      BY <2>1, <3>2, <3>3 DEF RunReadsFilter
    <3>5. DOMAIN net' \subseteq {"tick", "sides", "logs", "refresh", "cancel", "retry"}
      BY <1>t, <3>2
    <3> QED
      BY <1>0, <1>t, <2>1, <2>3, <3>2, <3>4, <3>5, RunFollowsPage
  <2> QED
    BY <2>2, <2>3
<1>14. ASSUME NEW k \in DOMAIN net, OnRun!Spoils(k) PROVE RunFollows'
  <2>1. /\ ui' = ui /\ srv' = srv /\ clicks' = clicks /\ noise' # {} /\ net' = [net EXCEPT ![k].stage = "failed", ![k].got = "nothing"]
    BY <1>14 DEF OnRun!Spoils, OnRun!Fails
  <2>2. /\ DOMAIN net' = DOMAIN net /\ net'[k].stage = "failed" /\ \A j \in DOMAIN net : j # k => net'[j] = net[j]
    BY <1>t, <2>1
  <2>3. OnRun!TypeOK'
    BY <2>1, <2>2 DEF RunFollows, RunTypes, OnRun!TypeOK
  <2>4. \A j : OnRun!Answered(j)' => OnRun!Answered(j) /\ net'[j].got = net[j].got
    BY <2>2 DEF OnRun!Answered, OnRun!Out
  <2>5. RunTypes'
    BY <2>1, <2>3, <2>4 DEF RunFollows, RunTypes
  <2> QED
    BY <1>0, <2>1, <2>2, <2>5 DEF RunFollows
<1>15. CASE OnRun!WorkerMoves
  <2>1. /\ ui' = ui /\ net' = net /\ noise' = noise /\ clicks' = clicks /\ srv'.asked = srv.asked /\ srv'.status \in OnRun!Status
    <3>1. {"status", "asked", "lines", "retries", "exists"} \subseteq DOMAIN srv
      BY <1>0 DEF RunKnows, RunShape
    <3> QED
      BY <1>15, <3>1 DEF OnRun!WorkerMoves, OnRun!Status, OnRun!Terminal
  <2>2. OnRun!TypeOK'
    BY <2>1 DEF RunFollows, RunTypes, OnRun!TypeOK
  <2>3. RunTypes'
    BY <2>1, <2>2 DEF RunFollows, RunTypes, OnRun!Answered, OnRun!Out
  <2>4. noise' = {} => RunReadsFilter'
    BY <2>1 DEF RunFollows, RunReadsFilter
  <2> QED
    BY <1>0, <2>1, <2>3, <2>4 DEF RunFollows
<1> QED
  BY <1>1, <1>2, <1>3, <1>4, <1>6, <1>7, <1>8, <1>10, <1>11, <1>12, <1>13, <1>14, <1>15, RunFollowsServe
  DEF OnRun!Next, OnRun!Deliver, OnRun!Returns, OnRun!UserActs

\* It is what the page promises.
LEMMA RunFollowsEnough == RunFollows => OnRun!LogsFollowFilter /\ OnRun!TypeOK
  BY DEF RunFollows, RunTypes, RunReadsFilter, OnRun!LogsFollowFilter, OnRun!Quiet

------------------------------------------------------------------------------
(* The list of runs *)

(* What it shows *)

\* An answer is of some moment so far, and right if it is of this one.
RunsAnswer(a) ==
  /\ a.of \in Queries /\ a.at \in Int /\ a.at <= srv.at
  /\ a.at = srv.at => a.count = OnRuns!Least(srv.total[a.of], a.limit)

\* What is kept.  What is being read is what is on the screen, and unless
\* something is being read, so is what was read last.
RunsTypes ==
  /\ OnRuns!TypeOK /\ DOMAIN ui = {"query", "local", "limit", "maxed", "rows", "ended"}
  /\ DOMAIN srv = {"total", "at", "retries"} /\ srv.at \in Int /\ DOMAIN srv.total = Queries
  /\ \A k \in DOMAIN net : DOMAIN net[k] = {"arg", "stage", "got"}
RunsRead ==
  \A k \in OnRuns!Polls \cap DOMAIN net :
    /\ net[k].arg = [of |-> ui.query, limit |-> ui.limit]
    /\ net[k].stage = "answered" => RunsAnswer(net[k].got) /\ net[k].got.of = ui.query /\ net[k].got.limit = ui.limit
RunsShown ==
  ui.rows # OnRuns!None =>
    /\ RunsAnswer(ui.rows)
    /\ OnRuns!Polls \cap DOMAIN net = {} => ui.rows.of = ui.query /\ ui.rows.limit = ui.limit
RunsShow == RunsTypes /\ RunsRead /\ RunsShown

\* It holds when the page opens.
LEMMA RunsShowInit == OnRuns!Init => RunsShow
<1> SUFFICES ASSUME OnRuns!Init PROVE RunsShow
  OBVIOUS
<1>0. PICK q \in Queries, n \in 0..(Bound.cap + 1) :
        /\ srv = [total |-> [x \in Queries |-> IF x = q THEN n ELSE 1], at |-> 0, retries |-> 0]
        /\ ui = [query |-> q, local |-> FALSE, limit |-> Bound.page, maxed |-> FALSE, rows |-> OnRuns!None, ended |-> FALSE]
        /\ net = OnRuns!With(<<>>, "poll one", [of |-> q, limit |-> Bound.page])
  BY Zenon DEF OnRuns!Init
<1>1. /\ ui.query = q /\ ui.limit = Bound.page /\ ui.rows = OnRuns!None
      /\ DOMAIN ui = {"query", "local", "limit", "maxed", "rows", "ended"}
      /\ DOMAIN srv = {"total", "at", "retries"} /\ srv.at = 0 /\ DOMAIN srv.total = Queries
  BY <1>0
<1>2. DOMAIN net = {"poll one"} /\ DOMAIN net["poll one"] = {"arg", "stage", "got"} /\ net["poll one"].stage = "sent"
      /\ net["poll one"].arg = [of |-> ui.query, limit |-> ui.limit]
  <2>1. net = OnRuns!With(<<>>, "poll one", [of |-> ui.query, limit |-> ui.limit])
    BY <1>0, <1>1
  <2> QED
    BY <2>1, NoRequests DEF OnRuns!With
<1>3. RunsTypes
  <2>1. Bound.page \in Bound.page..Bound.cap
    BY SizesAssumption
  <2>2. ui.rows.of = "nothing"
    BY <1>1 DEF OnRuns!None
  <2>3. DOMAIN net \subseteq OnRuns!Polls \cup {"retry"} /\ \A k \in DOMAIN net : DOMAIN net[k] = {"arg", "stage", "got"}
    BY <1>2 DEF OnRuns!Polls
  <2>4. srv.at \in Int
    BY <1>1
  <2> QED
    BY <1>1, <2>1, <2>2, <2>3, <2>4 DEF RunsTypes, OnRuns!TypeOK
<1> QED
  BY <1>1, <1>2, <1>3 DEF RunsShow, RunsRead, RunsShown

\* The list is read anew, for what is on the screen now.
LEMMA RunsAnew ==
  ASSUME RunsShow, DOMAIN ui' = DOMAIN ui, ui'.query \in Queries, ui'.limit \in Bound.page..Bound.cap, ui'.rows = ui.rows,
         net' = OnRuns!Restart(ui'.query, ui'.limit), srv' = srv
  PROVE  RunsShow'
<1>1. /\ \A k : k \in DOMAIN net' <=> k = "poll one" \/ (k \in DOMAIN net /\ k \notin OnRuns!Polls)
      /\ \A k \in DOMAIN net' : k # "poll one" => net'[k] = net[k]
      /\ DOMAIN net'["poll one"] = {"arg", "stage", "got"} /\ net'["poll one"].stage = "sent"
      /\ net'["poll one"].arg = [of |-> ui'.query, limit |-> ui'.limit]
  BY DEF OnRuns!Restart, OnRuns!With, OnRuns!Polls
<1>2. RunsTypes'
  <2>1. \A k \in DOMAIN net' : DOMAIN net'[k] = {"arg", "stage", "got"}
    BY <1>1 DEF RunsShow, RunsTypes
  <2>2. DOMAIN net' \subseteq OnRuns!Polls \cup {"retry"}
    BY <1>1 DEF RunsShow, RunsTypes, OnRuns!TypeOK, OnRuns!Polls
  <2> QED
    BY <2>1, <2>2 DEF RunsShow, RunsTypes, OnRuns!TypeOK
<1>3. OnRuns!Polls \cap DOMAIN net' = {"poll one"}
  BY <1>1 DEF OnRuns!Polls
<1>4. RunsRead'
  BY <1>1, <1>3 DEF RunsRead
<1>5. RunsShown'
  BY <1>3 DEF RunsShow, RunsShown, RunsAnswer
<1> QED
  BY <1>2, <1>4, <1>5 DEF RunsShow

\* What does not concern the list, of the page and of its requests.
LEMMA RunsRests ==
  ASSUME RunsShow, DOMAIN ui' = DOMAIN ui, ui'.query = ui.query, ui'.limit = ui.limit, ui'.rows = ui.rows,
         DOMAIN srv' = DOMAIN srv, srv'.total = srv.total, srv'.at = srv.at,
         \A k : k # "retry" => (k \in DOMAIN net' <=> k \in DOMAIN net), \A k \in DOMAIN net' : k # "retry" => net'[k] = net[k],
         "retry" \in DOMAIN net' => DOMAIN net'["retry"] = {"arg", "stage", "got"}
  PROVE  RunsShow'
<1>1. OnRuns!Polls \cap DOMAIN net' = OnRuns!Polls \cap DOMAIN net /\ \A k \in OnRuns!Polls \cap DOMAIN net : net'[k] = net[k]
  BY DEF OnRuns!Polls
<1>2. RunsTypes'
  BY DEF RunsShow, RunsTypes, OnRuns!TypeOK, OnRuns!Polls
<1>3. RunsRead'
  BY <1>1 DEF RunsShow, RunsRead, RunsAnswer
<1>4. RunsShown'
  BY <1>1 DEF RunsShow, RunsShown, RunsAnswer
<1> QED
  BY <1>2, <1>3, <1>4 DEF RunsShow

\* The user's clicks.
LEMMA RunsClicks == RunsShow /\ OnRuns!Clicks => RunsShow'
<1> SUFFICES ASSUME RunsShow, OnRuns!Clicks PROVE RunsShow'
  OBVIOUS
<1>0. /\ DOMAIN ui = {"query", "local", "limit", "maxed", "rows", "ended"} /\ ui.query \in Queries /\ ui.limit \in Bound.page..Bound.cap
      /\ Bound.page \in Bound.page..Bound.cap /\ Bound.page \in Nat /\ Bound.cap \in Nat
  BY SizesAssumption DEF RunsShow, RunsTypes, OnRuns!TypeOK
<1>1. CASE OnRuns!FilterHere
  <2>1. /\ DOMAIN ui' = DOMAIN ui /\ ui'.query = ui.query /\ ui'.limit = Bound.page /\ ui'.rows = ui.rows /\ srv' = srv
        /\ net' = IF ui.limit = Bound.page THEN net ELSE OnRuns!Restart(ui.query, Bound.page)
    BY <1>0, <1>1 DEF OnRuns!FilterHere
  <2>2. CASE ui.limit = Bound.page
    <3>1. "retry" \in DOMAIN net => DOMAIN net["retry"] = {"arg", "stage", "got"}
      BY DEF RunsShow, RunsTypes
    <3> QED
      BY <2>1, <2>2, <3>1, RunsRests
  <2>3. CASE ui.limit # Bound.page
    BY <1>0, <2>1, <2>3, RunsAnew
  <2> QED
    BY <2>2, <2>3
<1>2. CASE OnRuns!LoadMore
  <2> DEFINE limit == OnRuns!Least(ui.limit + Bound.page, Bound.cap)
  <2>1. limit \in Bound.page..Bound.cap
    BY <1>0 DEF OnRuns!Least
  <2>2. ui' = [ui EXCEPT !.limit = limit] /\ net' = (IF limit = ui.limit THEN net ELSE OnRuns!Restart(ui.query, limit)) /\ srv' = srv
    BY <1>2 DEF OnRuns!LoadMore
  <2> HIDE DEF limit
  <2>3. DOMAIN ui' = DOMAIN ui /\ ui'.query = ui.query /\ ui'.limit = limit /\ ui'.rows = ui.rows
    BY <1>0, <2>2
  <2>4. CASE limit = ui.limit
    <3>1. "retry" \in DOMAIN net => DOMAIN net["retry"] = {"arg", "stage", "got"}
      BY DEF RunsShow, RunsTypes
    <3> QED
      BY <2>2, <2>3, <2>4, <3>1, RunsRests
  <2>5. CASE limit # ui.limit
    BY <1>0, <2>1, <2>2, <2>3, <2>5, RunsAnew
  <2> QED
    BY <2>4, <2>5
<1>3. CASE OnRuns!Retry
  <2>1. net' = OnRuns!With(net, "retry", [of |-> ui.query, limit |-> 0]) /\ ui' = ui /\ srv' = srv
    BY <1>3 DEF OnRuns!Retry, OnRuns!Sent
  <2>2. /\ \A k : k # "retry" => (k \in DOMAIN net' <=> k \in DOMAIN net)
        /\ \A k \in DOMAIN net' : k # "retry" => net'[k] = net[k]
        /\ DOMAIN net'["retry"] = {"arg", "stage", "got"}
    BY <2>1 DEF OnRuns!With
  <2> QED
    BY <2>1, <2>2, RunsRests
<1>4. ASSUME NEW q \in Queries, OnRuns!Navigate(q) PROVE RunsShow'
  <2>1. /\ DOMAIN ui' = DOMAIN ui /\ ui'.query = q /\ ui'.limit = Bound.page /\ ui'.rows = ui.rows /\ srv' = srv
        /\ net' = OnRuns!Restart(q, Bound.page)
    BY <1>0, <1>4 DEF OnRuns!Navigate
  <2> QED
    BY <1>0, <2>1, RunsAnew
<1> QED
  BY <1>1, <1>2, <1>3, <1>4 DEF OnRuns!Clicks

\* The poll fires.
LEMMA RunsFires == RunsShow /\ OnRuns!PollFires => RunsShow'
<1> SUFFICES ASSUME RunsShow, OnRuns!PollFires PROVE RunsShow'
  OBVIOUS
<1>1. PICK k \in OnRuns!Polls : k \notin DOMAIN net /\ net' = OnRuns!With(net, k, [of |-> ui.query, limit |-> ui.limit])
  BY DEF OnRuns!PollFires, OnRuns!Out, OnRuns!Sent
<1>2. ui' = ui /\ srv' = srv
  BY DEF OnRuns!PollFires
<1>3. /\ \A j : j \in DOMAIN net' <=> j \in DOMAIN net \/ j = k
      /\ \A j \in DOMAIN net : net'[j] = net[j]
      /\ DOMAIN net'[k] = {"arg", "stage", "got"} /\ net'[k].stage = "sent" /\ net'[k].arg = [of |-> ui.query, limit |-> ui.limit]
  BY <1>1 DEF OnRuns!With
<1>4. RunsTypes'
  BY <1>1, <1>2, <1>3 DEF RunsShow, RunsTypes, OnRuns!TypeOK
<1>5. RunsRead'
  BY <1>2, <1>3 DEF RunsShow, RunsRead, RunsAnswer
<1>6. RunsShown'
  BY <1>1, <1>2, <1>3 DEF RunsShow, RunsShown, RunsAnswer
<1> QED
  BY <1>4, <1>5, <1>6 DEF RunsShow

\* A poll is answered, or its answer is lost.
LEMMA RunsBack == ASSUME RunsShow, NEW k \in OnRuns!Polls, OnRuns!PollBack(k) PROVE RunsShow'
<1>0. DOMAIN ui = {"query", "local", "limit", "maxed", "rows", "ended"}
  BY DEF RunsShow, RunsTypes
<1>1. k \in DOMAIN net /\ srv' = srv /\ net' = OnRuns!Closed(k)
  BY DEF OnRuns!PollBack, OnRuns!Returned, OnRuns!Answered, OnRuns!Rejected, OnRuns!Out
<1>2. /\ \A j : j \in DOMAIN net' <=> j \in DOMAIN net /\ j # k
      /\ \A j \in DOMAIN net' : net'[j] = net[j]
  BY <1>1 DEF OnRuns!Closed, OnRuns!Without, OnRuns!Restrict
<1>3. /\ DOMAIN ui' = DOMAIN ui /\ ui'.query = ui.query /\ ui'.limit = ui.limit
      /\ ui'.rows = OnRuns!None \/ (ui'.rows = net[k].got /\ net[k].stage = "answered")
  BY <1>0 DEF OnRuns!PollBack, OnRuns!Returned, OnRuns!Answered
<1>4. ui'.rows # OnRuns!None => RunsAnswer(net[k].got) /\ net[k].got.of = ui.query /\ net[k].got.limit = ui.limit /\ ui'.rows = net[k].got
  BY <1>1, <1>3 DEF RunsShow, RunsRead
<1>5. ui'.rows.of \in Queries \cup {"nothing"}
  BY <1>3, <1>4 DEF OnRuns!None, RunsAnswer
<1>6. RunsTypes'
  BY <1>1, <1>2, <1>3, <1>5 DEF RunsShow, RunsTypes, OnRuns!TypeOK
<1>7. RunsRead'
  BY <1>1, <1>2, <1>3 DEF RunsShow, RunsRead, RunsAnswer
<1>8. RunsShown'
  BY <1>1, <1>3, <1>4 DEF RunsShown, RunsAnswer
<1> QED
  BY <1>6, <1>7, <1>8 DEF RunsShow

\* The server answers, or a request fails.
LEMMA RunsServes == ASSUME RunsShow, OnRuns!Serve \/ (\E k \in DOMAIN net : OnRuns!Breaks(k)) PROVE RunsShow'
<1>1. ASSUME NEW k \in OnRuns!Polls, k \in DOMAIN net,
             OnRuns!Handles(k, srv, [of |-> net[k].arg.of, limit |-> net[k].arg.limit, count |-> OnRuns!Least(srv.total[net[k].arg.of], net[k].arg.limit), at |-> srv.at])
      PROVE  RunsShow'
  <2> DEFINE answer == [of |-> ui.query, limit |-> ui.limit, count |-> OnRuns!Least(srv.total[ui.query], ui.limit), at |-> srv.at]
  <2>1. net[k].arg = [of |-> ui.query, limit |-> ui.limit] /\ DOMAIN net[k] = {"arg", "stage", "got"}
    BY <1>1 DEF RunsShow, RunsRead, RunsTypes
  <2>2. OnRuns!Handles(k, srv, answer)
    BY <1>1, <2>1
  <2>3. RunsAnswer(answer) /\ answer.of = ui.query /\ answer.limit = ui.limit
    BY DEF RunsAnswer, RunsShow, RunsTypes, OnRuns!TypeOK
  <2> HIDE DEF answer
  <2>4. ui' = ui /\ srv' = srv /\ net' = [net EXCEPT ![k].stage = "answered", ![k].got = answer]
    BY <2>2 DEF OnRuns!Handles
  <2>5. /\ DOMAIN net' = DOMAIN net /\ \A j \in DOMAIN net : j # k => net'[j] = net[j]
        /\ DOMAIN net'[k] = {"arg", "stage", "got"} /\ net'[k].arg = net[k].arg /\ net'[k].got = answer
    BY <1>1, <2>1, <2>4
  <2>6. RunsTypes'
    BY <2>4, <2>5 DEF RunsShow, RunsTypes, OnRuns!TypeOK
  <2>7. RunsRead'
    BY <2>1, <2>3, <2>4, <2>5 DEF RunsShow, RunsRead, RunsAnswer
  <2>8. RunsShown'
    BY <2>4, <2>5 DEF RunsShow, RunsShown, RunsAnswer
  <2> QED
    BY <2>6, <2>7, <2>8 DEF RunsShow
<1>2. CASE OnRuns!Handles("retry", [srv EXCEPT !.retries = @ + 1], OnRuns!None)
  <2>1. /\ ui' = ui /\ srv' = [srv EXCEPT !.retries = @ + 1] /\ "retry" \in DOMAIN net
        /\ net' = [net EXCEPT !["retry"].stage = "answered", !["retry"].got = OnRuns!None]
    BY <1>2 DEF OnRuns!Handles, OnRuns!Out
  <2>2. /\ DOMAIN net' = DOMAIN net /\ \A j \in DOMAIN net : j # "retry" => net'[j] = net[j]
        /\ DOMAIN net'["retry"] = {"arg", "stage", "got"}
    BY <2>1 DEF RunsShow, RunsTypes
  <2>3. DOMAIN srv' = DOMAIN srv /\ srv'.total = srv.total /\ srv'.at = srv.at
    BY <2>1 DEF RunsShow, RunsTypes
  <2> QED
    BY <2>1, <2>2, <2>3, RunsRests
<1>3. ASSUME NEW k \in DOMAIN net, OnRuns!Breaks(k) PROVE RunsShow'
  <2>1. ui' = ui /\ srv' = srv /\ net' = [net EXCEPT ![k].stage = "failed", ![k].got = "nothing"]
    BY <1>3 DEF OnRuns!Breaks, OnRuns!Fails
  <2>2. DOMAIN net[k] = {"arg", "stage", "got"}
    BY DEF RunsShow, RunsTypes
  <2>3. /\ DOMAIN net' = DOMAIN net /\ \A j \in DOMAIN net : j # k => net'[j] = net[j]
        /\ DOMAIN net'[k] = {"arg", "stage", "got"} /\ net'[k].arg = net[k].arg /\ net'[k].stage = "failed"
    BY <2>1, <2>2
  <2>6. RunsTypes'
    BY <2>1, <2>3 DEF RunsShow, RunsTypes, OnRuns!TypeOK
  <2>7. RunsRead'
    BY <2>1, <2>3 DEF RunsShow, RunsRead, RunsAnswer
  <2>8. RunsShown'
    BY <2>1, <2>3 DEF RunsShow, RunsShown, RunsAnswer
  <2> QED
    BY <2>6, <2>7, <2>8 DEF RunsShow
<1> QED
  BY <1>1, <1>2, <1>3 DEF OnRuns!Serve, OnRuns!Out

\* Something happens elsewhere: what was read before is of a former moment.
LEMMA RunsElsewhere == RunsShow /\ OnRuns!Elsewhere => RunsShow'
<1> SUFFICES ASSUME RunsShow, OnRuns!Elsewhere PROVE RunsShow'
  OBVIOUS
<1>0. DOMAIN srv = {"total", "at", "retries"} /\ srv.at \in Int /\ DOMAIN srv.total = Queries
  BY DEF RunsShow, RunsTypes
<1>1. ui' = ui /\ net' = net /\ DOMAIN srv' = DOMAIN srv /\ srv'.at = srv.at + 1 /\ DOMAIN srv'.total = Queries
  BY <1>0 DEF OnRuns!Elsewhere
<1>2. ASSUME NEW a, RunsAnswer(a) PROVE a.of \in Queries /\ a.at \in Int /\ a.at <= srv.at + 1 /\ a.at # srv.at + 1
  BY <1>0, <1>2 DEF RunsAnswer
<1>3. RunsTypes'
  BY <1>0, <1>1 DEF RunsShow, RunsTypes, OnRuns!TypeOK
<1>4. RunsRead'
  BY <1>1, <1>2 DEF RunsShow, RunsRead, RunsAnswer
<1>5. RunsShown'
  BY <1>1, <1>2 DEF RunsShow, RunsShown, RunsAnswer
<1> QED
  BY <1>3, <1>4, <1>5 DEF RunsShow

\* Every step of the page keeps it.
LEMMA RunsShowStep == RunsShow /\ OnRuns!Next => RunsShow'
<1> SUFFICES ASSUME RunsShow, OnRuns!Next PROVE RunsShow'
  OBVIOUS
<1>1. CASE OnRuns!RetryBack
  <2>1. net' = OnRuns!Closed("retry") /\ ui' = ui /\ srv' = srv
    BY <1>1 DEF OnRuns!RetryBack
  <2>2. /\ \A k : k \in DOMAIN net' <=> k \in DOMAIN net /\ k # "retry"
        /\ \A k \in DOMAIN net' : net'[k] = net[k]
    BY <2>1 DEF OnRuns!Closed, OnRuns!Without, OnRuns!Restrict
  <2> QED
    BY <2>1, <2>2, RunsRests
<1> QED
  BY <1>1, RunsClicks, RunsFires, RunsBack, RunsServes, RunsElsewhere DEF OnRuns!Next, OnRuns!Returns

\* It is what the page promises.
LEMMA RunsShowEnough == RunsShow => OnRuns!ShowsQuery /\ OnRuns!TypeOK
<1> SUFFICES ASSUME RunsShow PROVE OnRuns!ShowsQuery /\ OnRuns!TypeOK
  OBVIOUS
<1>1. OnRuns!Quiet => OnRuns!Polls \cap DOMAIN net = {}
  BY DEF OnRuns!Quiet
<1> QED
  BY <1>1 DEF RunsShow, RunsTypes, RunsShown, RunsAnswer, OnRuns!ShowsQuery

------------------------------------------------------------------------------
(* The audit log *)

(* What it shows *)

\* What is kept.  The rows on the screen are a page of some moment since the
\* walk began, the one read is for the query on the screen, and the entries it
\* cannot bring have been seen.
AuditServed == ui.rows.ok => \E n \in ui.newest..srv : ui.rows.page = OnAudit!PageOf(n, ui.rows.of)
AuditBrought ==
  "rows" \in DOMAIN net =>
    /\ DOMAIN net["rows"] = {"arg", "stage", "got"} /\ net["rows"].arg = OnAudit!Query
    /\ net["rows"].stage = "answered" =>
         /\ net["rows"].got.newest \in ui.newest..srv
         /\ net["rows"].got.page = OnAudit!PageOf(net["rows"].got.newest, OnAudit!Query)
\* When n entries are written, what was not seen yet is on the page or after it.
AuditAhead(n) ==
  \A i \in OnAudit!Matching(ui.newest, ui.filter) : i \in ui.seen \/ OnAudit!Newer(i, OnAudit!Matching(n, ui.filter)) >= ui.offset
AuditTypes ==
  /\ OnAudit!TypeOK /\ srv \in 0..Bound.log /\ ui.newest \in 0..srv
  /\ DOMAIN ui = {"filter", "offset", "rows", "expanded", "seen", "newest"}
  /\ DOMAIN ui.rows = {"ok", "known", "of", "page"} /\ (~ui.rows.ok => ui.rows.page = {})
AuditShow ==
  /\ AuditTypes /\ AuditServed /\ AuditBrought /\ OnAudit!PagesMissNothing
  /\ "hasty" \notin noise /\ "rows" \in DOMAIN net /\ ui.offset > 0 =>
       /\ net["rows"].stage = "answered" => AuditAhead(net["rows"].got.newest)
       /\ net["rows"].stage = "sent" => AuditAhead(srv)

\* Entries that match are among those written, and their number is one.
LEMMA AuditMatching ==
  ASSUME NEW n \in 0..Bound.log, NEW f
  PROVE  /\ OnAudit!Matching(n, f) \subseteq 1..n /\ IsFiniteSet(OnAudit!Matching(n, f))
         /\ \A i : OnAudit!Newer(i, OnAudit!Matching(n, f)) = Cardinality({j \in OnAudit!Matching(n, f) : j > i})
         /\ \A i : OnAudit!Newer(i, OnAudit!Matching(n, f)) \in Nat /\ IsFiniteSet({j \in OnAudit!Matching(n, f) : j > i})
<1> DEFINE M == OnAudit!Matching(n, f)
<1>0. n \in Nat
  BY SizesAssumption
<1>1. M \subseteq 1..n
  BY DEF OnAudit!Matching
<1> HIDE DEF M
<1>2. IsFiniteSet(M)
  <2>1. IsFiniteSet(1..n)
    BY <1>0, FS_Interval
  <2> QED
    BY <1>1, <2>1, FS_Subset
<1>3. \A i : OnAudit!Newer(i, M) = Cardinality({j \in M : j > i})
  BY DEF OnAudit!Newer, OnAudit!Cardinality, Cardinality
<1>4. ASSUME NEW i PROVE IsFiniteSet({j \in M : j > i}) /\ Cardinality({j \in M : j > i}) \in Nat
  <2>1. {j \in M : j > i} \in SUBSET M
    OBVIOUS
  <2>2. IsFiniteSet({j \in M : j > i})
    BY <1>2, <2>1, FS_Subset
  <2> QED
    BY <2>2, FS_CardinalityType
<1> QED
  BY <1>1, <1>2, <1>3, <1>4 DEF M

\* The older entry has more newer ones, and entries written make no fewer.
LEMMA AuditOlder ==
  ASSUME NEW m \in 0..Bound.log, NEW n \in 0..Bound.log, m <= n, NEW f, NEW i \in Nat, NEW j \in Nat, i <= j
  PROVE  /\ OnAudit!Newer(j, OnAudit!Matching(m, f)) <= OnAudit!Newer(i, OnAudit!Matching(n, f))
         /\ i < j /\ j \in OnAudit!Matching(m, f) => OnAudit!Newer(j, OnAudit!Matching(m, f)) < OnAudit!Newer(i, OnAudit!Matching(n, f))
<1> DEFINE A == OnAudit!Matching(m, f)
           B == OnAudit!Matching(n, f)
           S == {k \in A : k > j}
           T == {k \in B : k > i}
<1>0. m \in Nat /\ n \in Nat
  BY SizesAssumption
<1>1. A \subseteq B /\ A \subseteq Nat
  BY <1>0 DEF OnAudit!Matching
<1>2. /\ IsFiniteSet(S) /\ IsFiniteSet(T) /\ Cardinality(S) \in Nat /\ Cardinality(T) \in Nat
      /\ OnAudit!Newer(j, A) = Cardinality(S) /\ OnAudit!Newer(i, B) = Cardinality(T)
  BY AuditMatching
<1> HIDE DEF A, B
<1>3. S \subseteq T
  <2>1. ASSUME NEW k \in S PROVE k \in T
    <3>1. k \in A /\ k \in B /\ k \in Nat /\ k > j
      BY <1>1
    <3>2. k > i
      BY <3>1
    <3> QED
      BY <3>1, <3>2
  <2> QED
    BY <2>1
<1>4. i < j /\ j \in A => j \in T /\ j \notin S
  BY <1>1
<1> HIDE DEF S, T
<1>5. Cardinality(S) <= Cardinality(T) /\ (Cardinality(S) = Cardinality(T) => S = T)
  BY <1>2, <1>3, FS_Subset
<1>6. i < j /\ j \in A => Cardinality(S) < Cardinality(T)
  BY <1>2, <1>4, <1>5
<1> QED
  BY <1>2, <1>5, <1>6 DEF A, B

\* Numbers below a bound have a greatest one.
LEMMA AuditGreatest ==
  ASSUME NEW n \in Nat, NEW S, S \subseteq 1..n, S # {}
  PROVE  \E x \in S : \A y \in S : y <= x
<1> DEFINE T == {n - x : x \in S}
<1>1. T \subseteq Nat /\ T # {}
  <2>1. ASSUME NEW x \in S PROVE n - x \in Nat
    <3>1. x \in 1..n
      OBVIOUS
    <3> QED
      BY <3>1
  <2>2. PICK x \in S : TRUE
    OBVIOUS
  <2>3. n - x \in T
    BY <2>2
  <2> QED
    BY <2>1, <2>3
<1>2. PICK m \in T : \A k \in T : <<k, m>> \notin OpToRel(<, Nat)
  BY <1>1, WFMin, NatLessThanWellFounded, Zenon
<1>3. ASSUME NEW k \in T PROVE m <= k
  <2>1. k \in Nat /\ m \in Nat
    BY <1>1
  <2>2. ~(k < m)
    BY <1>2, <2>1 DEF OpToRel
  <2> QED
    BY <2>1, <2>2
<1>4. PICK x \in S : m = n - x
  OBVIOUS
<1>5. ASSUME NEW y \in S PROVE y <= x
  <2>1. n - y \in T
    OBVIOUS
  <2>2. m <= n - y
    BY <1>3, <2>1
  <2> QED
    BY <1>4, <2>2
<1> QED
  BY <1>5

\* Where more than r entries are newer, one has exactly r newer ones.
LEMMA AuditRank ==
  ASSUME NEW n \in 0..Bound.log, NEW f, NEW r \in Nat, NEW i \in Nat, OnAudit!Newer(i, OnAudit!Matching(n, f)) > r
  PROVE  \E k \in OnAudit!Matching(n, f) : k > i /\ OnAudit!Newer(k, OnAudit!Matching(n, f)) = r
<1> DEFINE M == OnAudit!Matching(n, f)
           New(k) == {j \in M : j > k}
           S == {k \in M : k > i /\ OnAudit!Newer(k, M) >= r}
<1>0. n \in Nat
  BY SizesAssumption
<1>1. /\ M \subseteq 1..n /\ IsFiniteSet(M)
      /\ \A k : OnAudit!Newer(k, M) = Cardinality(New(k)) /\ OnAudit!Newer(k, M) \in Nat /\ IsFiniteSet(New(k))
  BY AuditMatching
<1>b. OnAudit!Newer(i, M) > r
  OBVIOUS
<1>c. \A k : OnAudit!Newer(k, M) \in Nat
  <2> HIDE DEF M, New
  <2> QED
    BY <1>1
<1> HIDE DEF M
\* The one that comes after k has one newer entry less.
<1>2. ASSUME NEW k \in Nat, OnAudit!Newer(k, M) > 0
      PROVE  \E j \in M : j > k /\ OnAudit!Newer(j, M) = OnAudit!Newer(k, M) - 1
  <2>1. New(k) # {} /\ New(k) \subseteq Nat
    <3>1. Cardinality(New(k)) # 0
      BY <1>1, <1>2
    <3>2. New(k) # {}
      BY <3>1, FS_EmptySet
    <3>3. New(k) \subseteq M /\ 1..n \subseteq Nat
      BY <1>0
    <3> QED
      BY <1>1, <3>2, <3>3, Zenon
  <2>2. PICK j \in New(k) : \A l \in New(k) : <<l, j>> \notin OpToRel(<, Nat)
    BY <2>1, WFMin, NatLessThanWellFounded, Zenon
  <2>3. ASSUME NEW l \in New(k) PROVE j <= l
    <3>1. l \in Nat /\ j \in Nat
      BY <2>1
    <3>2. ~(l < j)
      BY <2>2, <3>1 DEF OpToRel
    <3> QED
      BY <3>1, <3>2
  <2>4. New(j) = New(k) \ {j}
    <3>1. j \in M /\ j \in Nat /\ j > k
      BY <2>1
    <3>2. \A l \in New(j) : l \in New(k) /\ l # j
      BY <1>1, <3>1
    <3>3. \A l \in New(k) : l # j => l \in New(j)
      BY <1>1, <2>3, <3>1
    <3> HIDE DEF New
    <3>4. New(j) \subseteq New(k) \ {j}
      BY <3>2
    <3>5. New(k) \ {j} \subseteq New(j)
      BY <3>3
    <3> QED
      BY <3>4, <3>5
  <2>5. Cardinality(New(j)) = Cardinality(New(k)) - 1
    <3> HIDE DEF New
    <3> QED
      BY <1>1, <2>4, FS_RemoveElement
  <2> QED
    BY <1>1, <2>5
<1>3. S # {}
  <2>1. PICK j \in M : j > i /\ OnAudit!Newer(j, M) = OnAudit!Newer(i, M) - 1
    <3>1. OnAudit!Newer(i, M) > 0
      BY <1>b, <1>c
    <3> QED
      BY <1>2, <3>1
  <2>2. OnAudit!Newer(j, M) >= r
    <3>1. OnAudit!Newer(i, M) > r /\ OnAudit!Newer(i, M) \in Nat
      BY <1>b, <1>c
    <3> QED
      BY <2>1, <3>1
  <2> QED
    BY <2>1, <2>2
<1>4. PICK k \in S : \A j \in S : j <= k
  <2>1. S \subseteq 1..n
    BY <1>1
  <2> HIDE DEF S
  <2> QED
    BY <1>0, <1>3, <2>1, AuditGreatest
<1>5. k \in M /\ k \in Nat /\ k > i /\ OnAudit!Newer(k, M) >= r /\ OnAudit!Newer(k, M) \in Nat
  <2>1. k \in M /\ k > i /\ OnAudit!Newer(k, M) >= r
    OBVIOUS
  <2>2. k \in 1..n
    BY <1>1, <2>1
  <2> QED
    BY <1>0, <1>c, <2>1, <2>2
<1>6. OnAudit!Newer(k, M) = r
  <2> SUFFICES ASSUME OnAudit!Newer(k, M) > r PROVE FALSE
    BY <1>5
  <2>1. PICK j \in M : j > k /\ OnAudit!Newer(j, M) = OnAudit!Newer(k, M) - 1
    BY <1>2, <1>5
  <2>2. j \in Nat
    BY <1>1
  <2>3. OnAudit!Newer(j, M) >= r /\ j > i
    BY <1>5, <2>1, <2>2
  <2>4. j \in S
    BY <2>3
  <2> QED
    BY <1>4, <1>5, <2>1, <2>2, <2>4
<1> QED
  BY <1>5, <1>6 DEF M

\* What the pages are: entries that match, with as many newer ones.
LEMMA AuditPages ==
  ASSUME NEW n \in 0..Bound.log, NEW f, NEW o
  PROVE  LET P == OnAudit!PageOf(n, [filter |-> f, offset |-> o])
         IN  /\ P \subseteq OnAudit!Matching(n, f) /\ P \subseteq 1..n
             /\ \A i \in OnAudit!Matching(n, f) : i \in P <=> OnAudit!Newer(i, OnAudit!Matching(n, f)) \in o..(o + Bound.pageSize - 1)
<1>1. OnAudit!Matching(n, f) \subseteq 1..n
  BY AuditMatching
<1> QED
  BY <1>1 DEF OnAudit!PageOf

\* What has enough newer ones is on the page or older than all of it.
LEMMA AuditPaged ==
  ASSUME NEW n \in 0..Bound.log, NEW f, NEW o \in Nat, NEW i \in OnAudit!Matching(n, f), OnAudit!Newer(i, OnAudit!Matching(n, f)) >= o
  PROVE  LET P == OnAudit!PageOf(n, [filter |-> f, offset |-> o])
         IN  i \in P \/ (P # {} /\ \A j \in P : i < j)
<1> DEFINE M == OnAudit!Matching(n, f)
           P == OnAudit!PageOf(n, [filter |-> f, offset |-> o])
<1>0. n \in Nat /\ Bound.pageSize \in Nat \ {0}
  BY SizesAssumption
<1>1. P \subseteq M /\ \A k \in M : k \in P <=> OnAudit!Newer(k, M) \in o..(o + Bound.pageSize - 1)
  BY AuditPages
<1>2. M \subseteq 1..n /\ \A k : OnAudit!Newer(k, M) \in Nat
  BY AuditMatching
<1>3. i \in M /\ i \in Nat /\ OnAudit!Newer(i, M) >= o
  BY <1>0, <1>2
<1> SUFFICES ASSUME i \notin P PROVE P # {} /\ \A j \in P : i < j
  OBVIOUS
<1> HIDE DEF P
<1>4. OnAudit!Newer(i, M) \in Nat
  BY <1>2
<1>5. OnAudit!Newer(i, M) >= o + Bound.pageSize
  <2> HIDE DEF M
  <2>1. OnAudit!Newer(i, M) \notin o..(o + Bound.pageSize - 1)
    BY <1>1, <1>3
  <2> QED
    BY <1>0, <1>3, <1>4, <2>1
<1>6. P # {}
  <2>1. OnAudit!Newer(i, M) > o
    <3> HIDE DEF M
    <3> QED
      BY <1>0, <1>4, <1>5
  <2>2. PICK k \in M : OnAudit!Newer(k, M) = o
    BY <1>3, <2>1, AuditRank
  <2> HIDE DEF M
  <2>3. o \in o..(o + Bound.pageSize - 1)
    BY <1>0
  <2> QED
    BY <1>1, <2>2, <2>3
<1>7. ASSUME NEW j \in P PROVE i < j
  <2>1. j \in M /\ j \in Nat
    BY <1>0, <1>1, <1>2
  <2>2. OnAudit!Newer(j, M) <= o + Bound.pageSize - 1 /\ OnAudit!Newer(j, M) \in Nat
    <3> HIDE DEF M
    <3>1. OnAudit!Newer(j, M) \in o..(o + Bound.pageSize - 1)
      BY <1>1, <2>1
    <3> QED
      BY <1>0, <1>2, <3>1
  <2>3. j <= i => OnAudit!Newer(i, M) <= OnAudit!Newer(j, M)
    BY <1>0, <1>3, <2>1, AuditOlder
  <2> HIDE DEF M
  <2> QED
    BY <1>0, <1>3, <1>4, <1>5, <2>1, <2>2, <2>3
<1> QED
  BY <1>6, <1>7

\* What is older than a page has at least as many newer entries as it passes over,
\* and a full page more.
LEMMA AuditPassed ==
  ASSUME NEW n \in 0..Bound.log, NEW m \in 0..Bound.log, n <= m, NEW f, NEW o \in Nat, NEW i \in Nat,
         OnAudit!PageOf(n, [filter |-> f, offset |-> o]) # {},
         \A j \in OnAudit!PageOf(n, [filter |-> f, offset |-> o]) : i < j
  PROVE  /\ OnAudit!Newer(i, OnAudit!Matching(m, f)) >= o
         /\ OnAudit!Cardinality(OnAudit!PageOf(n, [filter |-> f, offset |-> o])) = Bound.pageSize =>
              OnAudit!Newer(i, OnAudit!Matching(m, f)) >= o + Bound.pageSize
<1> DEFINE M == OnAudit!Matching(n, f)
           P == OnAudit!PageOf(n, [filter |-> f, offset |-> o])
           New(k) == {j \in M : j > k}
<1>0. n \in Nat /\ Bound.pageSize \in Nat \ {0}
  BY SizesAssumption
<1>1. P \subseteq M /\ P \subseteq 1..n /\ \A k \in M : k \in P <=> OnAudit!Newer(k, M) \in o..(o + Bound.pageSize - 1)
  BY AuditPages
<1>a. M \subseteq 1..n /\ IsFiniteSet(M) /\ \A k : OnAudit!Newer(k, M) \in Nat
  BY AuditMatching
<1>b. \A k : OnAudit!Newer(k, M) = Cardinality(New(k)) /\ IsFiniteSet(New(k))
  BY AuditMatching
<1>2. /\ M \subseteq 1..n /\ IsFiniteSet(M) /\ \A k : OnAudit!Newer(k, M) \in Nat
      /\ \A k : OnAudit!Newer(k, M) = Cardinality(New(k)) /\ IsFiniteSet(New(k))
  BY <1>a, <1>b
<1>c. OnAudit!Newer(i, OnAudit!Matching(m, f)) \in Nat
  BY AuditMatching
<1>d. i <= i
  OBVIOUS
<1>3. OnAudit!Newer(i, M) <= OnAudit!Newer(i, OnAudit!Matching(m, f)) /\ OnAudit!Newer(i, OnAudit!Matching(m, f)) \in Nat
  BY <1>c, <1>d, AuditOlder
<1>4. P # {} /\ \A j \in P : i < j
  OBVIOUS
<1>5. OnAudit!Cardinality(P) = Cardinality(P)
  BY DEF OnAudit!Cardinality, Cardinality
<1> DEFINE all == OnAudit!Newer(i, OnAudit!Matching(m, f))
<1>6. all >= o /\ (Cardinality(P) = Bound.pageSize => all >= o + Bound.pageSize)
  <2> HIDE DEF all, M, P, New
  <2>1. PICK j \in P : \A k \in P : k <= j
    BY <1>0, <1>1, <1>4, AuditGreatest
  <2>2. j \in M /\ j \in Nat /\ j > i /\ OnAudit!Newer(j, M) >= o
    <3>1. j \in 1..n /\ OnAudit!Newer(j, M) \in o..(o + Bound.pageSize - 1)
      BY <1>1
    <3> QED
      BY <1>0, <1>1, <1>4, <3>1
  <2>3. New(j) \cup P \in SUBSET New(i) /\ New(j) \cap P = {}
    <3>1. ASSUME NEW k \in New(j) PROVE k \in New(i) /\ k \notin P
      <4>1. k \in M /\ k > j
        BY DEF New
      <4>2. k \in Nat /\ k > i
        BY <1>0, <1>2, <2>2, <4>1
      <4> QED
        BY <2>1, <2>2, <4>1, <4>2 DEF New
    <3>2. ASSUME NEW k \in P PROVE k \in New(i)
      <4>1. k \in M /\ k \in Nat /\ k > i
        BY <1>0, <1>1, <1>4
      <4> QED
        BY <4>1 DEF New
    <3> QED
      BY <3>1, <3>2
  <2>4. IsFiniteSet(P) /\ Cardinality(P) \in Nat
    BY <1>1, <1>2, FS_Subset, FS_CardinalityType
  <2>5. Cardinality(New(j) \cup P) = Cardinality(New(j)) + Cardinality(P) /\ Cardinality(New(j) \cup P) <= Cardinality(New(i))
    <3>1. Cardinality(New(j) \cup P) = Cardinality(New(j)) + Cardinality(P) - Cardinality(New(j) \cap P)
      BY <1>2, <2>4, FS_Union
    <3>2. Cardinality(New(j) \cap P) = 0
      BY <2>3, FS_EmptySet
    <3>3. Cardinality(New(j)) \in Nat
      BY <1>2
    <3> QED
      BY <1>2, <2>3, <2>4, <3>1, <3>2, <3>3, FS_Subset
  <2>6. OnAudit!Newer(j, M) + Cardinality(P) <= OnAudit!Newer(i, M)
    BY <1>2, <2>5
  <2>7. OnAudit!Newer(j, M) \in Nat /\ OnAudit!Newer(i, M) \in Nat /\ OnAudit!Newer(i, M) <= all /\ all \in Nat
    BY <1>2, <1>3 DEF all
  <2> QED
    BY <1>0, <2>2, <2>4, <2>6, <2>7
<1> QED
  BY <1>5, <1>6

\* The list is as it was where no answer comes and the query stays.
LEMMA AuditStays ==
  ASSUME AuditShow, net' = net, srv' \in srv..Bound.log, noise' = noise,
         ui'.filter = ui.filter, ui'.offset = ui.offset, ui'.rows = ui.rows, ui'.seen = ui.seen, ui'.newest = ui.newest, DOMAIN ui' = DOMAIN ui
  PROVE  AuditShow'
<1>0. srv \in Nat /\ Bound.log \in Nat /\ srv \in 0..Bound.log /\ ui.newest \in 0..srv
  BY SizesAssumption DEF AuditShow, AuditTypes
<1>1. srv' \in 0..Bound.log /\ srv <= srv' /\ srv' \in Nat /\ ui.newest \in 0..srv' /\ ui.newest \in Nat
  BY <1>0
<1>2. AuditTypes'
  BY <1>1 DEF AuditShow, AuditTypes, OnAudit!TypeOK
<1>3. AuditServed'
  <2> SUFFICES ASSUME ui.rows.ok PROVE \E n \in ui.newest..srv' : ui.rows.page = OnAudit!PageOf(n, ui.rows.of)
    BY DEF AuditServed
  <2>1. PICK n \in ui.newest..srv : ui.rows.page = OnAudit!PageOf(n, ui.rows.of)
    BY DEF AuditShow, AuditServed
  <2>2. n \in ui.newest..srv'
    BY <1>0, <1>1
  <2> QED
    BY <2>1, <2>2
<1>4. AuditBrought'
  <2> SUFFICES ASSUME "rows" \in DOMAIN net, net["rows"].stage = "answered" PROVE net["rows"].got.newest \in ui.newest..srv'
    BY DEF AuditShow, AuditBrought, OnAudit!Query
  <2>1. net["rows"].got.newest \in ui.newest..srv
    BY DEF AuditShow, AuditBrought
  <2> QED
    BY <1>0, <1>1, <2>1
<1>5. OnAudit!PagesMissNothing'
  BY DEF AuditShow, OnAudit!PagesMissNothing, OnAudit!Quiet, OnAudit!Query
<1>6. "hasty" \notin noise /\ "rows" \in DOMAIN net /\ ui.offset > 0 =>
       /\ net["rows"].stage = "answered" => AuditAhead(net["rows"].got.newest)'
       /\ net["rows"].stage = "sent" => AuditAhead(srv)'
  <2> SUFFICES ASSUME "hasty" \notin noise, "rows" \in DOMAIN net, ui.offset > 0
               PROVE  /\ net["rows"].stage = "answered" => AuditAhead(net["rows"].got.newest)'
                      /\ net["rows"].stage = "sent" => AuditAhead(srv)'
    OBVIOUS
  <2>1. net["rows"].stage = "answered" => AuditAhead(net["rows"].got.newest)'
    BY DEF AuditShow, AuditAhead
  <2>2. ASSUME net["rows"].stage = "sent", NEW i \in OnAudit!Matching(ui.newest, ui.filter), i \notin ui.seen
        PROVE  OnAudit!Newer(i, OnAudit!Matching(srv', ui.filter)) >= ui.offset
    <3>1. OnAudit!Newer(i, OnAudit!Matching(srv, ui.filter)) >= ui.offset
      BY <2>2 DEF AuditShow, AuditAhead
    <3>2. i \in Nat
      BY <1>1, <2>2 DEF OnAudit!Matching
    <3>3. OnAudit!Newer(i, OnAudit!Matching(srv, ui.filter)) <= OnAudit!Newer(i, OnAudit!Matching(srv', ui.filter))
      <4>1. i <= i
        BY <3>2
      <4> QED
        BY <1>0, <1>1, <3>2, <4>1, AuditOlder
    <3>4. OnAudit!Newer(i, OnAudit!Matching(srv, ui.filter)) \in Nat /\ OnAudit!Newer(i, OnAudit!Matching(srv', ui.filter)) \in Nat /\ ui.offset \in Nat
      BY <1>0, <1>1, AuditMatching DEF AuditShow, AuditTypes, OnAudit!TypeOK
    <3> QED
      BY <3>1, <3>3, <3>4
  <2>3. net["rows"].stage = "sent" => AuditAhead(srv)'
    BY <2>2 DEF AuditAhead
  <2> QED
    BY <2>1, <2>3
<1> QED
  BY <1>2, <1>3, <1>4, <1>5, <1>6 DEF AuditShow

\* It holds when the page opens.
LEMMA AuditShowInit == OnAudit!Init => AuditShow
<1> SUFFICES ASSUME OnAudit!Init PROVE AuditShow
  OBVIOUS
<1>0. Bound.log \in Nat
  BY SizesAssumption
<1>1. /\ srv \in 0..Bound.log /\ noise = {}
      /\ ui = [filter |-> OnAudit!NoFilter, offset |-> 0, rows |-> OnAudit!NoRows, expanded |-> {}, seen |-> {}, newest |-> 0]
      /\ net = OnAudit!With(<<>>, "rows", [filter |-> OnAudit!NoFilter, offset |-> 0])
  BY DEF OnAudit!Init
<1>2. DOMAIN net = {"rows"} /\ net["rows"] = [arg |-> [filter |-> OnAudit!NoFilter, offset |-> 0], stage |-> "sent", got |-> "nothing"]
  BY <1>1, DOMAIN <<>> = {} DEF OnAudit!With
<1>3. AuditTypes
  <2>1. OnAudit!NoFilter \in OnAudit!Filters
    BY DEF OnAudit!NoFilter, OnAudit!Filters
  <2> QED
    BY <1>0, <1>1, <1>2, <2>1 DEF AuditTypes, OnAudit!TypeOK, OnAudit!NoRows
<1>4. AuditServed /\ AuditBrought /\ OnAudit!PagesMissNothing /\ ui.offset = 0
  BY <1>1, <1>2 DEF AuditServed, AuditBrought, OnAudit!NoRows, OnAudit!Query, OnAudit!PagesMissNothing, OnAudit!Quiet
<1> QED
  BY <1>3, <1>4 DEF AuditShow

\* Another query is asked, or the same one goes on.
LEMMA AuditAsks ==
  ASSUME AuditShow, NEW f \in OnAudit!Filters, NEW o \in Nat, OnAudit!Ask(f, o), noise \subseteq noise',
         "hasty" \notin noise' /\ o > 0 /\ o # ui.offset =>
           /\ f = ui.filter
           /\ \A i \in OnAudit!Matching(ui.newest, f) : i \in ui.seen \/ OnAudit!Newer(i, OnAudit!Matching(srv, f)) >= o,
         o = ui.offset => noise' = noise /\ (o # 0 => f = ui.filter)
  PROVE  AuditShow'
<1>0. DOMAIN ui = {"filter", "offset", "rows", "expanded", "seen", "newest"}
  BY DEF AuditShow, AuditTypes
<1>1. /\ ui'.filter = f /\ ui'.offset = o /\ ui'.rows = ui.rows /\ ui'.seen = ui.seen /\ ui'.newest = ui.newest /\ DOMAIN ui' = DOMAIN ui
      /\ srv' = srv
  BY <1>0 DEF OnAudit!Ask
<1>2. CASE f = ui.filter /\ o = ui.offset
  <2>1. net' = net /\ noise' = noise
    BY <1>2 DEF OnAudit!Ask
  <2>2. srv' \in srv..Bound.log
    BY <1>1, SizesAssumption DEF AuditShow, AuditTypes
  <2> QED
    BY <1>1, <1>2, <2>1, <2>2, AuditStays
<1>3. CASE ~(f = ui.filter /\ o = ui.offset)
  <2>1. net' = OnAudit!With(net, "rows", [filter |-> f, offset |-> o])
    BY <1>3 DEF OnAudit!Ask, OnAudit!Sent
  <2>2. /\ DOMAIN net' = DOMAIN net \cup {"rows"}
        /\ net'["rows"] = [arg |-> [filter |-> f, offset |-> o], stage |-> "sent", got |-> "nothing"]
    BY <2>1 DEF OnAudit!With
  <2>3. AuditTypes' /\ AuditServed'
    BY <1>1, <2>2 DEF AuditShow, AuditTypes, AuditServed, OnAudit!TypeOK
  <2>4. AuditBrought' /\ OnAudit!PagesMissNothing'
    BY <1>1, <2>2 DEF AuditBrought, OnAudit!Query, OnAudit!PagesMissNothing, OnAudit!Quiet
  <2>5. ASSUME "hasty" \notin noise', o > 0 PROVE AuditAhead(srv)'
    BY <1>1, <1>3, <2>5 DEF AuditAhead
  <2>6. net'["rows"].stage = "sent"
    BY <2>2
  <2> QED
    BY <1>1, <2>3, <2>4, <2>5, <2>6 DEF AuditShow
<1> QED
  BY <1>2, <1>3

\* The answer to a query.
LEMMA AuditRowsBack == ASSUME AuditShow, OnAudit!RowsBack PROVE AuditShow'
<1> DEFINE shown(ok, p) == [ui EXCEPT !.rows = [ok |-> ok, known |-> TRUE, of |-> net["rows"].arg, page |-> p]]
<1>0. /\ DOMAIN ui = {"filter", "offset", "rows", "expanded", "seen", "newest"} /\ srv \in 0..Bound.log /\ ui.newest \in 0..srv
      /\ Bound.log \in Nat /\ srv \in Nat /\ ui.newest \in Nat /\ ui.offset \in Nat /\ ui.filter \in OnAudit!Filters
  BY SizesAssumption DEF AuditShow, AuditTypes, OnAudit!TypeOK
<1>1. /\ "rows" \in DOMAIN net /\ net["rows"].arg = OnAudit!Query /\ srv' = srv /\ noise' = noise /\ net' = OnAudit!Closed("rows")
  BY DEF OnAudit!RowsBack, OnAudit!Returned, OnAudit!Answered, OnAudit!Rejected, OnAudit!Out, AuditShow, AuditBrought
<1>2. DOMAIN net' = {}
  BY <1>1 DEF OnAudit!Closed, OnAudit!Without, OnAudit!Restrict, AuditShow, AuditTypes, OnAudit!TypeOK
<1>3. CASE OnAudit!Rejected("rows")
  <2>1. ui' = shown(FALSE, {})
    BY <1>3 DEF OnAudit!RowsBack, OnAudit!Rejected, OnAudit!Answered
  <2>2. /\ ui'.rows = [ok |-> FALSE, known |-> TRUE, of |-> OnAudit!Query, page |-> {}] /\ ui'.filter = ui.filter /\ ui'.offset = ui.offset
        /\ ui'.newest = ui.newest /\ DOMAIN ui' = DOMAIN ui
    BY <1>0, <1>1, <2>1
  <2>3. AuditTypes' /\ AuditServed' /\ AuditBrought' /\ OnAudit!PagesMissNothing'
    BY <1>0, <1>1, <1>2, <2>2 DEF AuditTypes, AuditServed, AuditBrought, OnAudit!TypeOK, OnAudit!PagesMissNothing, OnAudit!Query, OnAudit!Quiet
  <2> QED
    BY <1>2, <2>3 DEF AuditShow
<1>4. CASE ~OnAudit!Rejected("rows")
  <2> DEFINE n == net["rows"].got.newest
             P == OnAudit!PageOf(n, [filter |-> ui.filter, offset |-> ui.offset])
  <2>1. net["rows"].stage = "answered" /\ OnAudit!Answered("rows")
    BY <1>4 DEF OnAudit!RowsBack, OnAudit!Returned, OnAudit!Answered
  <2>2. n \in ui.newest..srv /\ net["rows"].got.page = P
    BY <1>1, <2>1 DEF AuditShow, AuditBrought, OnAudit!Query
  <2>3. n \in 0..Bound.log /\ n \in Nat /\ n \in 0..srv /\ n <= srv
    BY <1>0, <2>2
  <2>4. P \subseteq 1..n /\ P \subseteq 1..Bound.log
    BY <1>0, <2>3, AuditPages
  <2>5. ui' = IF net["rows"].arg.offset = 0 THEN [shown(TRUE, P) EXCEPT !.seen = P, !.newest = n] ELSE [shown(TRUE, P) EXCEPT !.seen = @ \cup P]
    BY <1>4, <2>1, <2>2 DEF OnAudit!RowsBack
  <2> HIDE DEF P, n
  <2>6. /\ ui'.rows = [ok |-> TRUE, known |-> TRUE, of |-> OnAudit!Query, page |-> P] /\ ui'.filter = ui.filter /\ ui'.offset = ui.offset
        /\ DOMAIN ui' = DOMAIN ui
        /\ IF ui.offset = 0 THEN ui'.seen = P /\ ui'.newest = n ELSE ui'.seen = ui.seen \cup P /\ ui'.newest = ui.newest
    BY <1>0, <1>1, <2>5 DEF OnAudit!Query
  <2>7. ui'.newest <= n /\ ui'.newest \in Nat
    BY <1>0, <2>2, <2>3, <2>6
  <2>8. AuditTypes' /\ AuditBrought'
    BY <1>0, <1>1, <1>2, <2>3, <2>4, <2>6, <2>7 DEF AuditTypes, AuditBrought, OnAudit!TypeOK
  <2>9. AuditServed'
    <3>1. n \in ui'.newest..srv'
      BY <1>0, <1>1, <2>3, <2>7
    <3>2. ui'.rows.page = OnAudit!PageOf(n, ui'.rows.of)
      BY <2>6 DEF P, OnAudit!Query
    <3> QED
      BY <3>1, <3>2 DEF AuditServed
  <2>10. ASSUME "hasty" \notin noise, NEW i \in OnAudit!Matching(ui'.newest, ui.filter)
         PROVE  i \in ui'.seen \/ (P # {} /\ \A j \in P : i < j)
    <3>1. i \in OnAudit!Matching(n, ui.filter)
      BY <2>3, <2>7 DEF OnAudit!Matching
    <3>2. OnAudit!Newer(i, OnAudit!Matching(n, ui.filter)) \in Nat
      BY <2>3, AuditMatching
    <3>3. CASE ui.offset = 0
      BY <1>0, <2>3, <2>6, <3>1, <3>2, <3>3, AuditPaged DEF P
    <3>4. CASE ui.offset # 0
      <4>1. i \in ui.seen \/ OnAudit!Newer(i, OnAudit!Matching(n, ui.filter)) >= ui.offset
        <5>1. AuditAhead(net["rows"].got.newest)
          BY <1>0, <1>1, <2>1, <2>10, <3>4 DEF AuditShow
        <5> QED
          BY <2>6, <2>10, <3>4, <5>1 DEF AuditAhead, n
      <4> QED
        BY <1>0, <2>3, <2>6, <3>1, <3>4, <4>1, AuditPaged DEF P
    <3> QED
      BY <3>3, <3>4
  <2>11. OnAudit!PagesMissNothing'
    <3>1. ui'.rows.known /\ ui'.rows.of = OnAudit!Query'
      BY <2>6 DEF OnAudit!Query
    <3>2. "hasty" \notin noise' => \A i \in OnAudit!Matching(ui'.newest, ui'.filter) : i \in ui'.seen \/ (ui'.rows.page # {} /\ \A j \in ui'.rows.page : i < j)
      BY <1>1, <2>6, <2>10
    <3> QED
      BY <3>1, <3>2 DEF OnAudit!PagesMissNothing
  <2> QED
    BY <1>2, <2>8, <2>9, <2>11 DEF AuditShow
<1> QED
  BY <1>3, <1>4

\* Paging on or back passes over nothing.
LEMMA AuditTurns == ASSUME AuditShow, OnAudit!Previous \/ OnAudit!NextPage PROVE AuditShow'
<1>0. /\ srv \in 0..Bound.log /\ ui.newest \in 0..srv /\ Bound.log \in Nat /\ srv \in Nat /\ ui.newest \in Nat /\ ui.offset \in Nat
      /\ ui.filter \in OnAudit!Filters /\ Bound.pageSize \in Nat \ {0} /\ (~ui.rows.ok => ui.rows.page = {}) /\ DOMAIN net \subseteq {"rows"}
  BY SizesAssumption DEF AuditShow, AuditTypes, OnAudit!TypeOK
<1> DEFINE P == ui.rows.page
           back == IF ui.offset > Bound.pageSize THEN ui.offset - Bound.pageSize ELSE 0
           on == ui.offset + Bound.pageSize
<1>1. noise' = IF "rows" \in DOMAIN net THEN noise \cup {"hasty"} ELSE noise
  BY DEF OnAudit!Previous, OnAudit!NextPage, OnAudit!Hasty, OnAudit!Out
<1>2. /\ OnAudit!Previous => P # {} /\ ui.offset > 0 /\ OnAudit!Ask(ui.filter, back)
      /\ OnAudit!NextPage => OnAudit!Cardinality(P) = Bound.pageSize /\ OnAudit!Ask(ui.filter, on)
  BY DEF OnAudit!Previous, OnAudit!NextPage
<1>3. P # {}
  <2>1. CASE OnAudit!NextPage
    <3>1. OnAudit!Cardinality(P) = Cardinality(P)
      BY DEF OnAudit!Cardinality, Cardinality
    <3> QED
      BY <1>0, <1>2, <2>1, <3>1, FS_EmptySet
  <2> QED
    BY <1>2, <2>1
\* What was not seen before the click has all that is on the screen before it.
<1>4. ASSUME "hasty" \notin noise', NEW i \in OnAudit!Matching(ui.newest, ui.filter), i \notin ui.seen
      PROVE  /\ OnAudit!Newer(i, OnAudit!Matching(srv, ui.filter)) >= ui.offset /\ OnAudit!Newer(i, OnAudit!Matching(srv, ui.filter)) \in Nat
             /\ OnAudit!Cardinality(P) = Bound.pageSize => OnAudit!Newer(i, OnAudit!Matching(srv, ui.filter)) >= on
  <2>1. DOMAIN net = {} /\ "hasty" \notin noise
    BY <1>0, <1>1, <1>4
  <2>2. ui.rows.ok /\ ui.rows.of = [filter |-> ui.filter, offset |-> ui.offset] /\ \A j \in P : i < j
    BY <1>0, <1>3, <1>4, <2>1 DEF AuditShow, OnAudit!PagesMissNothing, OnAudit!Quiet, OnAudit!Query
  <2>3. PICK n \in ui.newest..srv : P = OnAudit!PageOf(n, [filter |-> ui.filter, offset |-> ui.offset])
    BY <2>2 DEF AuditShow, AuditServed
  <2>4. i \in Nat /\ n \in 0..Bound.log /\ n <= srv
    BY <1>0, <1>4 DEF OnAudit!Matching
  <2>5. OnAudit!Newer(i, OnAudit!Matching(srv, ui.filter)) \in Nat
    BY <1>0, AuditMatching
  <2> HIDE DEF P
  <2> QED
    BY <1>0, <1>3, <2>2, <2>3, <2>4, <2>5, AuditPassed
<1> HIDE DEF P
<1>5. CASE OnAudit!Previous
  <2>1. back \in Nat /\ back < ui.offset /\ noise \subseteq noise' /\ OnAudit!Ask(ui.filter, back)
    BY <1>0, <1>1, <1>2, <1>5
  <2>2. ASSUME "hasty" \notin noise', NEW i \in OnAudit!Matching(ui.newest, ui.filter), i \notin ui.seen
        PROVE  OnAudit!Newer(i, OnAudit!Matching(srv, ui.filter)) >= back
    BY <1>0, <1>4, <2>1, <2>2
  <2>3. back # ui.offset
    BY <1>0, <2>1
  <2> HIDE DEF back
  <2> QED
    BY <1>0, <2>1, <2>2, <2>3, AuditAsks
<1>6. CASE OnAudit!NextPage
  <2>1. on \in Nat /\ on # ui.offset /\ noise \subseteq noise' /\ OnAudit!Ask(ui.filter, on)
    BY <1>0, <1>1, <1>2, <1>6
  <2>2. ASSUME "hasty" \notin noise', NEW i \in OnAudit!Matching(ui.newest, ui.filter), i \notin ui.seen
        PROVE  OnAudit!Newer(i, OnAudit!Matching(srv, ui.filter)) >= on
    BY <1>2, <1>4, <1>6, <2>2
  <2> HIDE DEF on
  <2> QED
    BY <1>0, <2>1, <2>2, AuditAsks
<1> QED
  BY <1>5, <1>6

\* The server answers, or a request fails.
LEMMA AuditServes == ASSUME AuditShow, OnAudit!Serve \/ (\E k \in DOMAIN net : OnAudit!Breaks(k)) PROVE AuditShow'
<1>0. srv \in Nat /\ ui.newest \in 0..srv /\ DOMAIN net \subseteq {"rows"}
  BY SizesAssumption DEF AuditShow, AuditTypes, OnAudit!TypeOK
<1>1. /\ "rows" \in DOMAIN net /\ ui' = ui /\ srv' = srv /\ noise' = noise
      /\ \/ net' = [net EXCEPT !["rows"].stage = "answered", !["rows"].got = [page |-> OnAudit!PageOf(srv, net["rows"].arg), newest |-> srv]] /\ net["rows"].stage = "sent"
         \/ net' = [net EXCEPT !["rows"].stage = "failed", !["rows"].got = "nothing"]
  <2>1. CASE OnAudit!Serve
    BY <2>1 DEF OnAudit!Serve, OnAudit!Handles, OnAudit!Out
  <2>2. ASSUME NEW k \in DOMAIN net, OnAudit!Breaks(k) PROVE k = "rows" /\ OnAudit!Breaks("rows")
    BY <2>2 DEF AuditShow, AuditTypes, OnAudit!TypeOK
  <2> QED
    BY <2>1, <2>2 DEF OnAudit!Breaks, OnAudit!Fails, OnAudit!Out
<1>2. DOMAIN net["rows"] = {"arg", "stage", "got"} /\ net["rows"].arg = OnAudit!Query
  BY <1>1 DEF AuditShow, AuditBrought
<1>3. /\ DOMAIN net' = DOMAIN net /\ DOMAIN net'["rows"] = {"arg", "stage", "got"} /\ net'["rows"].arg = OnAudit!Query
      /\ \/ /\ net["rows"].stage = "sent" /\ net'["rows"].stage = "answered"
            /\ net'["rows"].got = [page |-> OnAudit!PageOf(srv, OnAudit!Query), newest |-> srv]
         \/ net'["rows"].stage = "failed"
  <2> DEFINE got == [page |-> OnAudit!PageOf(srv, OnAudit!Query), newest |-> srv]
             served == [net["rows"] EXCEPT !.stage = "answered", !.got = got]
             broken == [net["rows"] EXCEPT !.stage = "failed", !.got = "nothing"]
  <2>1. \/ net' = [net EXCEPT !["rows"] = served] /\ net["rows"].stage = "sent"
        \/ net' = [net EXCEPT !["rows"] = broken]
    BY <1>1, <1>2
  <2> HIDE DEF got
  <2>2. /\ DOMAIN served = {"arg", "stage", "got"} /\ served.arg = OnAudit!Query /\ served.stage = "answered" /\ served.got = got
        /\ DOMAIN broken = {"arg", "stage", "got"} /\ broken.arg = OnAudit!Query /\ broken.stage = "failed"
    BY <1>2
  <2> HIDE DEF served, broken
  <2>3. \/ net'["rows"] = served /\ net["rows"].stage = "sent" /\ DOMAIN net' = DOMAIN net
        \/ net'["rows"] = broken /\ DOMAIN net' = DOMAIN net
    BY <1>1, <2>1
  <2> QED
    BY <2>2, <2>3 DEF got
<1>4. AuditTypes' /\ AuditServed'
  BY <1>1, <1>3 DEF AuditShow, AuditTypes, AuditServed, OnAudit!TypeOK
<1>5. AuditBrought' /\ OnAudit!PagesMissNothing'
  <2>1. srv \in ui.newest..srv
    BY SizesAssumption DEF AuditShow, AuditTypes
  <2> QED
    BY <1>1, <1>3, <2>1 DEF AuditBrought, OnAudit!Query, OnAudit!PagesMissNothing, OnAudit!Quiet
<1>6. ASSUME "hasty" \notin noise, ui.offset > 0, net'["rows"].stage = "answered" PROVE AuditAhead(net["rows"].got.newest)'
  <2>1. net'["rows"].got.newest = srv /\ AuditAhead(srv)
    BY <1>1, <1>3, <1>6 DEF AuditShow
  <2> QED
    BY <1>1, <2>1 DEF AuditAhead
<1> QED
  BY <1>1, <1>3, <1>4, <1>5, <1>6 DEF AuditShow

\* Every step of the page keeps it.
LEMMA AuditShowStep == AuditShow /\ OnAudit!Next => AuditShow'
<1> SUFFICES ASSUME AuditShow, OnAudit!Next PROVE AuditShow'
  OBVIOUS
<1>0. /\ ui.offset \in Nat /\ ui.filter \in OnAudit!Filters /\ srv \in 0..Bound.log /\ Bound.log \in Nat
      /\ DOMAIN ui = {"filter", "offset", "rows", "expanded", "seen", "newest"}
  BY SizesAssumption DEF AuditShow, AuditTypes, OnAudit!TypeOK
<1>1. ASSUME NEW f \in OnAudit!Filters, OnAudit!SetFilter(f) PROVE AuditShow'
  <2>1. OnAudit!Ask(f, 0) /\ noise' = noise
    BY <1>1 DEF OnAudit!SetFilter
  <2> QED
    BY <2>1, AuditAsks
<1>2. ASSUME NEW i, OnAudit!FilterResource(i) PROVE AuditShow'
  <2>1. OnAudit!Ask([ui.filter EXCEPT !.resource = OnAudit!About(i)], 0) /\ noise' = noise
    BY <1>2 DEF OnAudit!FilterResource
  <2>2. [ui.filter EXCEPT !.resource = OnAudit!About(i)] \in OnAudit!Filters
    BY <1>0 DEF OnAudit!Filters, OnAudit!About
  <2> QED
    BY <2>1, <2>2, AuditAsks
<1>3. ASSUME NEW i, OnAudit!Toggle(i) PROVE AuditShow'
  <2>1. /\ net' = net /\ srv' = srv /\ noise' = noise /\ ui'.filter = ui.filter /\ ui'.offset = ui.offset /\ ui'.rows = ui.rows
        /\ ui'.seen = ui.seen /\ ui'.newest = ui.newest /\ DOMAIN ui' = DOMAIN ui
    BY <1>0, <1>3 DEF OnAudit!Toggle
  <2>2. srv' \in srv..Bound.log
    BY <1>0, <2>1
  <2> QED
    BY <2>1, <2>2, AuditStays
<1>4. CASE OnAudit!Written
  <2>1. srv < Bound.log /\ srv' = srv + 1 /\ ui' = ui /\ net' = net /\ noise' = noise
    BY <1>4 DEF OnAudit!Written
  <2>2. srv' \in srv..Bound.log
    BY <1>0, <2>1
  <2> QED
    BY <2>1, <2>2, AuditStays
<1> QED
  BY <1>1, <1>2, <1>3, <1>4, AuditTurns, AuditServes, AuditRowsBack DEF OnAudit!Next, OnAudit!Clicks

\* It is what the page promises.
LEMMA AuditShowEnough == AuditShow => OnAudit!PagesMissNothing /\ OnAudit!TypeOK
  BY DEF AuditShow, AuditTypes

------------------------------------------------------------------------------
(* The dashboard *)

(* What it shows *)

\* What the server had at some moment, until now; it is what it has if nothing
\* happened since.
DashboardSnap(x) ==
  /\ x.at \in Int /\ x.at <= srv.at /\ (x.at = srv.at => x = srv)
  /\ x.pipelines \subseteq Rows /\ x.connections \subseteq Rows /\ x.runs \subseteq Rows /\ x.sensors \subseteq Rows
DashboardKeys == {OnDashboard!Load(i) : i \in 1..Bound.loads} \cup {OnDashboard!Schedules(i) : i \in 1..Bound.loads}

\* The types of the page, of the server and of the answers.
DashboardUi == DOMAIN ui = {"pipelines", "connections", "runs", "sensors", "schedules", "of"} /\ ui.of \in Int /\ ui.of <= srv.at
DashboardServer ==
  /\ DOMAIN srv = {"pipelines", "connections", "schedules", "runs", "sensors", "at"} /\ srv.at \in Int
  /\ srv.pipelines \subseteq Rows /\ srv.connections \subseteq Rows /\ srv.runs \subseteq Rows /\ srv.sensors \subseteq Rows
  /\ srv.schedules \subseteq srv.pipelines
DashboardNet ==
  /\ \A k \in DOMAIN net : DOMAIN net[k] = {"arg", "stage", "got"}
  /\ \A i \in 1..Bound.loads : OnDashboard!Load(i) \in DOMAIN net =>
       /\ net[OnDashboard!Load(i)].arg.at \in Int /\ net[OnDashboard!Load(i)].arg.at <= srv.at
       /\ net[OnDashboard!Load(i)].stage = "answered" =>
            /\ net[OnDashboard!Load(i)].got.read \subseteq OnDashboard!Lists
            /\ DashboardSnap(net[OnDashboard!Load(i)].got.lists)
            /\ net[OnDashboard!Load(i)].arg.at <= net[OnDashboard!Load(i)].got.lists.at
  /\ \A i \in 1..Bound.loads : OnDashboard!Schedules(i) \in DOMAIN net =>
       (net[OnDashboard!Schedules(i)].stage = "answered" => net[OnDashboard!Schedules(i)].got \subseteq Rows)

\* What is shown is what the server has, if nothing happened since the load.
DashboardListed ==
  ui.of = srv.at =>
    ui.pipelines = srv.pipelines /\ ui.connections = srv.connections /\ ui.runs = srv.runs /\ ui.sensors = srv.sensors

\* One load at a time; when it reads the schedules, the lists are read, and when
\* nothing is read, so are the schedules.
DashboardFresh ==
  /\ DOMAIN net = {} => DashboardListed /\ (ui.of = srv.at => ui.schedules = srv.schedules)
  /\ \A i \in 1..Bound.loads : OnDashboard!Schedules(i) \in DOMAIN net =>
       /\ DashboardListed /\ net[OnDashboard!Schedules(i)].stage # "failed"
       /\ ui.of = srv.at => net[OnDashboard!Schedules(i)].arg = srv.pipelines
       /\ ui.of = srv.at /\ net[OnDashboard!Schedules(i)].stage = "answered" => net[OnDashboard!Schedules(i)].got = srv.schedules
DashboardShow ==
  /\ DashboardUi /\ DashboardServer /\ DashboardNet /\ OnDashboard!TypeOK
  /\ "overlap" \notin noise => \A j, k \in DOMAIN net : j = k
  /\ noise = {} => DashboardFresh

\* The requests are told from each other.
LEMMA DashboardNamed == \A i, j \in 1..Bound.loads : OnDashboard!Load(i) # OnDashboard!Schedules(j)
<1> DEFINE ops == {"load", "schedules"}
           several == 1..Bound.loads
<1>0. Distinct(ops, several, {})
  BY SizesAssumption
<1>1. \A op \in ops, r \in several, op2 \in ops, s \in several : op \o ToString(r) = op2 \o ToString(s) => op = op2 /\ r = s
  BY <1>0 DEF Distinct
<1> QED
  BY <1>1 DEF OnDashboard!Load, OnDashboard!Schedules, OnDashboard!Named

\* It holds when the page opens.
LEMMA DashboardShowInit == OnDashboard!Init => DashboardShow
<1> SUFFICES ASSUME OnDashboard!Init PROVE DashboardShow
  OBVIOUS
<1> DEFINE first == OnDashboard!Load(1)
<1>0. 1 \in 1..Bound.loads /\ Rows \subseteq Nat \ {0}
  BY SizesAssumption, RowsAssumption
<1>1. /\ ui = [pipelines |-> {0}, connections |-> {0}, runs |-> {0}, sensors |-> {0}, schedules |-> {0}, of |-> 0]
      /\ srv = [pipelines |-> Rows, connections |-> Rows, schedules |-> Rows, runs |-> {}, sensors |-> Rows, at |-> 0]
      /\ net = OnDashboard!With(<<>>, first, [at |-> 0])
  BY DEF OnDashboard!Init, OnDashboard!Unread, OnDashboard!ServerStart
<1> HIDE DEF first
<1>2. DOMAIN net = {first} /\ net[first] = [arg |-> [at |-> 0], stage |-> "sent", got |-> "nothing"]
  BY <1>1, NoRequests DEF OnDashboard!With
<1>3. DashboardUi /\ DashboardServer
  BY <1>1 DEF DashboardUi, DashboardServer
<1>4. first \in DashboardKeys /\ \A i \in 1..Bound.loads : OnDashboard!Schedules(i) # first
  BY <1>0, DashboardNamed DEF first, DashboardKeys
<1>5. DashboardNet
  BY <1>1, <1>2, <1>4 DEF DashboardNet
<1>6. OnDashboard!TypeOK
  <2>1. \A l \in OnDashboard!Lists \cup {"schedules"} : ui[l] = {0}
    BY <1>1 DEF OnDashboard!Lists
  <2> QED
    BY <1>2, <1>4, <2>1 DEF OnDashboard!TypeOK, OnDashboard!Unread, DashboardKeys
<1> QED
  BY <1>2, <1>3, <1>4, <1>5, <1>6 DEF DashboardShow, DashboardFresh

\* A load begins.
LEMMA DashboardStarts == DashboardShow /\ OnDashboard!TimerFires => DashboardShow'
<1> SUFFICES ASSUME DashboardShow, OnDashboard!TimerFires PROVE DashboardShow'
  OBVIOUS
<1>1. PICK i \in 1..Bound.loads :
        /\ net' = OnDashboard!With(net, OnDashboard!Load(i), [at |-> srv.at])
        /\ noise' = IF OnDashboard!Loading = {} THEN noise \ {"failure"} ELSE noise \cup {"overlap"}
        /\ ui' = ui /\ srv' = srv
  BY DEF OnDashboard!TimerFires, OnDashboard!Sent
<1> DEFINE k == OnDashboard!Load(i)
<1>2. k \in DashboardKeys /\ \A j \in 1..Bound.loads : OnDashboard!Schedules(j) # k
  BY DashboardNamed DEF DashboardKeys
<1>3. OnDashboard!Loading = {} => DOMAIN net = {}
  BY DEF OnDashboard!Loading, OnDashboard!Out, DashboardShow, OnDashboard!TypeOK
<1>4. net' = OnDashboard!With(net, k, [at |-> srv.at])
  BY <1>1
<1> HIDE DEF k
<1>5. /\ \A j : j \in DOMAIN net' <=> j \in DOMAIN net \/ j = k
      /\ \A j \in DOMAIN net : j # k => net'[j] = net[j]
  BY <1>4 DEF OnDashboard!With
<1>6. net'[k] = [arg |-> [at |-> srv.at], stage |-> "sent", got |-> "nothing"]
  BY <1>4 DEF OnDashboard!With
<1>7. srv.at \in Int
  BY DEF DashboardShow, DashboardServer
<1>8. DashboardUi' /\ DashboardServer'
  BY <1>1 DEF DashboardShow, DashboardUi, DashboardServer
<1>9. DashboardNet'
  <2>1. \A j \in DOMAIN net' : DOMAIN net'[j] = {"arg", "stage", "got"}
    BY <1>5, <1>6 DEF DashboardShow, DashboardNet
  <2>2. ASSUME NEW j \in 1..Bound.loads, OnDashboard!Load(j) \in DOMAIN net'
        PROVE  OnDashboard!Load(j) = k \/ (OnDashboard!Load(j) \in DOMAIN net /\ net'[OnDashboard!Load(j)] = net[OnDashboard!Load(j)])
    BY <1>5, <2>2
  <2>3. ASSUME NEW j \in 1..Bound.loads, OnDashboard!Schedules(j) \in DOMAIN net'
        PROVE  OnDashboard!Schedules(j) \in DOMAIN net /\ net'[OnDashboard!Schedules(j)] = net[OnDashboard!Schedules(j)]
    BY <1>2, <1>5, <2>3
  <2> QED
    BY <1>1, <1>6, <1>7, <2>1, <2>2, <2>3 DEF DashboardShow, DashboardNet, DashboardSnap
<1>10. OnDashboard!TypeOK'
  BY <1>1, <1>2, <1>5 DEF DashboardShow, OnDashboard!TypeOK, DashboardKeys
<1>11. "overlap" \notin noise' => \A j, l \in DOMAIN net' : j = l
  BY <1>1, <1>3, <1>5
<1>12. noise' = {} => DashboardFresh'
  BY <1>1, <1>2, <1>3, <1>5 DEF DashboardFresh
<1> QED
  BY <1>8, <1>9, <1>10, <1>11, <1>12 DEF DashboardShow

\* A load is answered: what was read is shown, and the schedules are asked for.
LEMMA DashboardLoads == ASSUME DashboardShow, NEW i \in 1..Bound.loads, OnDashboard!LoadBack(i) PROVE DashboardShow'
<1> DEFINE k == OnDashboard!Load(i)
           s == OnDashboard!Schedules(i)
           got == net[k].got
           asks == IF "pipelines" \in got.read THEN got.lists.pipelines ELSE {}
<1>1. /\ k \in DOMAIN net /\ net[k].stage = "answered"
      /\ ui' = [[f \in DOMAIN ui |-> IF f \in got.read THEN got.lists[f] ELSE ui[f]] EXCEPT !.of = net[k].arg.at]
      /\ net' = OnDashboard!With(OnDashboard!Closed(k), s, asks)
      /\ noise' = (IF got.read = OnDashboard!Lists THEN noise ELSE noise \cup {"failure"}) /\ srv' = srv
  BY DEF OnDashboard!LoadBack, OnDashboard!Answered, OnDashboard!Out
<1>2. /\ k # s /\ s \in DashboardKeys /\ k \in DashboardKeys
      /\ \A j \in 1..Bound.loads : OnDashboard!Load(j) # s /\ OnDashboard!Schedules(j) # k
  BY DashboardNamed DEF DashboardKeys
<1>3. /\ got.read \subseteq OnDashboard!Lists /\ DashboardSnap(got.lists) /\ net[k].arg.at <= got.lists.at
      /\ net[k].arg.at \in Int /\ net[k].arg.at <= srv.at
  BY <1>1 DEF DashboardShow, DashboardNet
<1> HIDE DEF k, s
<1>4. /\ \A j : j \in DOMAIN net' <=> j = s \/ (j \in DOMAIN net /\ j # k)
      /\ \A j \in DOMAIN net' : j # s => net'[j] = net[j]
  BY <1>1 DEF OnDashboard!With, OnDashboard!Closed, OnDashboard!Without, OnDashboard!Restrict
<1> HIDE DEF asks
<1>5. net'[s] = [arg |-> asks, stage |-> "sent", got |-> "nothing"]
  BY <1>1 DEF OnDashboard!With
<1> HIDE DEF got
<1>6. DOMAIN ui = {"pipelines", "connections", "runs", "sensors", "schedules", "of"}
  BY DEF DashboardShow, DashboardUi
<1>7. /\ DOMAIN ui' = DOMAIN ui /\ ui'.of = net[k].arg.at
      /\ \A f \in OnDashboard!Lists : ui'[f] = IF f \in got.read THEN got.lists[f] ELSE ui[f]
      /\ ui'.schedules = ui.schedules
  BY <1>1, <1>3, <1>6 DEF OnDashboard!Lists
<1>8. DashboardUi' /\ DashboardServer'
  BY <1>1, <1>3, <1>7 DEF DashboardShow, DashboardUi, DashboardServer
<1>9. DashboardNet'
  <2>1. \A j \in DOMAIN net' : DOMAIN net'[j] = {"arg", "stage", "got"}
    BY <1>4, <1>5 DEF DashboardShow, DashboardNet
  <2>2. ASSUME NEW j \in 1..Bound.loads, OnDashboard!Load(j) \in DOMAIN net'
        PROVE  OnDashboard!Load(j) \in DOMAIN net /\ net'[OnDashboard!Load(j)] = net[OnDashboard!Load(j)]
    BY <1>2, <1>4, <2>2
  <2>3. ASSUME NEW j \in 1..Bound.loads, OnDashboard!Schedules(j) \in DOMAIN net'
        PROVE  OnDashboard!Schedules(j) = s \/ (OnDashboard!Schedules(j) \in DOMAIN net /\ net'[OnDashboard!Schedules(j)] = net[OnDashboard!Schedules(j)])
    BY <1>4, <2>3
  <2> QED
    BY <1>1, <1>5, <2>1, <2>2, <2>3 DEF DashboardShow, DashboardNet, DashboardSnap
<1>10. OnDashboard!TypeOK'
  <2>1. \A f \in OnDashboard!Lists : got.lists[f] \subseteq Rows
    BY <1>3 DEF DashboardSnap, OnDashboard!Lists
  <2>2. \A f \in OnDashboard!Lists \cup {"schedules"} : ui'[f] \subseteq Rows \cup OnDashboard!Unread
    BY <1>7, <2>1 DEF DashboardShow, OnDashboard!TypeOK
  <2>3. DOMAIN net' \subseteq DashboardKeys
    BY <1>2, <1>4 DEF DashboardShow, OnDashboard!TypeOK, DashboardKeys
  <2> QED
    BY <2>2, <2>3 DEF OnDashboard!TypeOK, DashboardKeys
<1>11. "overlap" \notin noise' => DOMAIN net' = {s}
  <2> SUFFICES ASSUME "overlap" \notin noise' PROVE DOMAIN net' = {s}
    OBVIOUS
  <2>1. "overlap" \notin noise
    BY <1>1
  <2>2. \A j \in DOMAIN net : j = k
    BY <1>1, <2>1 DEF DashboardShow
  <2> QED
    BY <1>4, <2>2
<1>12. noise' = {} => DashboardFresh'
  <2> SUFFICES ASSUME noise' = {} PROVE DashboardFresh'
    OBVIOUS
  <2>1. got.read = OnDashboard!Lists /\ DOMAIN net' = {s}
    BY <1>1, <1>11
  <2>2. ui'.of = srv.at => got.lists = srv
    <3>1. srv.at \in Int
      BY DEF DashboardShow, DashboardServer
    <3> QED
      BY <1>3, <1>7, <3>1 DEF DashboardSnap
  <2>3. asks = got.lists.pipelines
    BY <2>1 DEF asks, OnDashboard!Lists
  <2>4. /\ ui'.pipelines = got.lists.pipelines /\ ui'.connections = got.lists.connections
        /\ ui'.runs = got.lists.runs /\ ui'.sensors = got.lists.sensors
    BY <1>7, <2>1 DEF OnDashboard!Lists
  <2>5. DashboardListed'
    BY <1>1, <2>2, <2>4 DEF DashboardListed
  <2>6. ui'.of = srv'.at => asks = srv'.pipelines
    BY <1>1, <2>2, <2>3
  <2>7. \A j \in 1..Bound.loads : OnDashboard!Schedules(j) \in DOMAIN net' => OnDashboard!Schedules(j) = s
    BY <2>1
  <2> QED
    BY <1>5, <2>1, <2>5, <2>6, <2>7 DEF DashboardFresh
<1> QED
  BY <1>8, <1>9, <1>10, <1>11, <1>12 DEF DashboardShow

\* The schedules are answered, or cannot be read.
LEMMA DashboardScheduled == ASSUME DashboardShow, NEW i \in 1..Bound.loads, OnDashboard!SchedulesBack(i) PROVE DashboardShow'
<1> DEFINE s == OnDashboard!Schedules(i)
<1>1. /\ s \in DOMAIN net /\ net[s].stage \in {"answered", "failed"}
      /\ ui' = (IF net[s].stage = "answered" THEN [ui EXCEPT !.schedules = net[s].got] ELSE ui)
      /\ net' = OnDashboard!Closed(s) /\ srv' = srv /\ noise' = noise
  BY DEF OnDashboard!SchedulesBack, OnDashboard!Returned, OnDashboard!Answered, OnDashboard!Rejected, OnDashboard!Out
<1>2. net[s].stage = "answered" => net[s].got \subseteq Rows
  BY <1>1 DEF DashboardShow, DashboardNet
<1> HIDE DEF s
<1>3. /\ \A j : j \in DOMAIN net' <=> j \in DOMAIN net /\ j # s
      /\ \A j \in DOMAIN net' : net'[j] = net[j]
  BY <1>1 DEF OnDashboard!Closed, OnDashboard!Without, OnDashboard!Restrict
<1>4. /\ DOMAIN ui = {"pipelines", "connections", "runs", "sensors", "schedules", "of"}
      /\ DOMAIN ui' = DOMAIN ui /\ \A f \in DOMAIN ui : f # "schedules" => ui'[f] = ui[f]
      /\ ui'.schedules = IF net[s].stage = "answered" THEN net[s].got ELSE ui.schedules
  BY <1>1 DEF DashboardShow, DashboardUi
<1>5. DashboardUi' /\ DashboardServer'
  BY <1>1, <1>4 DEF DashboardShow, DashboardUi, DashboardServer
<1>6. DashboardNet'
  BY <1>1, <1>3 DEF DashboardShow, DashboardNet, DashboardSnap
<1>7. OnDashboard!TypeOK'
  BY <1>2, <1>3, <1>4 DEF DashboardShow, OnDashboard!TypeOK, OnDashboard!Lists
<1>8. "overlap" \notin noise' => DOMAIN net' = {}
  <2> SUFFICES ASSUME "overlap" \notin noise PROVE DOMAIN net' = {}
    BY <1>1
  <2>1. \A j \in DOMAIN net : j = s
    BY <1>1 DEF DashboardShow
  <2> QED
    BY <1>3, <2>1
<1>9. noise' = {} => DashboardFresh'
  <2> SUFFICES ASSUME noise = {} PROVE DashboardFresh'
    BY <1>1
  <2>1. DashboardFresh /\ DOMAIN net' = {}
    BY <1>1, <1>8 DEF DashboardShow
  <2>2. DashboardListed /\ net[s].stage = "answered" /\ (ui.of = srv.at => net[s].got = srv.schedules)
    BY <1>1, <2>1 DEF DashboardFresh, s
  <2>3. DashboardListed'
    BY <1>1, <1>4, <2>2 DEF DashboardListed
  <2> QED
    BY <1>1, <1>4, <2>1, <2>2, <2>3 DEF DashboardFresh
<1> QED
  BY <1>5, <1>6, <1>7, <1>8, <1>9 DEF DashboardShow

\* The server answers.
LEMMA DashboardServes == DashboardShow /\ OnDashboard!Serve => DashboardShow'
<1> SUFFICES ASSUME DashboardShow, OnDashboard!Serve PROVE DashboardShow'
  OBVIOUS
<1>1. ASSUME NEW k \in DashboardKeys, NEW a, OnDashboard!Handles(k, srv, a),
             \A i \in 1..Bound.loads : k = OnDashboard!Load(i) => DashboardSnap(a.lists) /\ a.lists.at = srv.at /\ a.read \subseteq OnDashboard!Lists,
             \A i \in 1..Bound.loads : k = OnDashboard!Schedules(i) => a = srv.schedules \cap net[k].arg
      PROVE  DashboardShow'
  <2>1. /\ k \in DOMAIN net /\ ui' = ui /\ srv' = srv /\ noise' = noise
        /\ net' = [net EXCEPT ![k].stage = "answered", ![k].got = a]
    BY <1>1 DEF OnDashboard!Handles, OnDashboard!Out
  <2>2. DOMAIN net[k] = {"arg", "stage", "got"}
    BY <2>1 DEF DashboardShow, DashboardNet
  <2>3. /\ DOMAIN net' = DOMAIN net /\ \A j \in DOMAIN net : j # k => net'[j] = net[j]
        /\ DOMAIN net'[k] = {"arg", "stage", "got"} /\ net'[k].got = a /\ net'[k].arg = net[k].arg /\ net'[k].stage = "answered"
    BY <2>1, <2>2
  <2>4. DashboardUi' /\ DashboardServer'
    BY <2>1 DEF DashboardShow, DashboardUi, DashboardServer
  <2>5. DashboardNet'
    <3>1. \A j \in DOMAIN net' : DOMAIN net'[j] = {"arg", "stage", "got"}
      BY <2>3 DEF DashboardShow, DashboardNet
    <3>2. ASSUME NEW i \in 1..Bound.loads, OnDashboard!Load(i) \in DOMAIN net'
          PROVE  LET r == net'[OnDashboard!Load(i)]
                 IN  /\ r.arg.at \in Int /\ r.arg.at <= srv.at
                     /\ r.stage = "answered" => r.got.read \subseteq OnDashboard!Lists /\ DashboardSnap(r.got.lists) /\ r.arg.at <= r.got.lists.at
      <4>1. CASE OnDashboard!Load(i) = k
        <5>1. net[k].arg.at \in Int /\ net[k].arg.at <= srv.at
          BY <2>1, <4>1 DEF DashboardShow, DashboardNet
        <5> QED
          BY <1>1, <2>3, <4>1, <5>1
      <4>2. CASE OnDashboard!Load(i) # k
        BY <2>3, <3>2, <4>2 DEF DashboardShow, DashboardNet
      <4> QED
        BY <4>1, <4>2
    <3>3. ASSUME NEW i \in 1..Bound.loads, OnDashboard!Schedules(i) \in DOMAIN net', net'[OnDashboard!Schedules(i)].stage = "answered"
          PROVE  net'[OnDashboard!Schedules(i)].got \subseteq Rows
      <4>1. srv.schedules \subseteq Rows
        BY DEF DashboardShow, DashboardServer
      <4> QED
        BY <1>1, <2>3, <3>3, <4>1 DEF DashboardShow, DashboardNet
    <3> QED
      BY <2>1, <3>1, <3>2, <3>3 DEF DashboardNet, DashboardSnap
  <2>6. OnDashboard!TypeOK'
    BY <2>1, <2>3 DEF DashboardShow, OnDashboard!TypeOK
  <2>7. noise' = {} => DashboardFresh'
    <3> SUFFICES ASSUME noise = {} PROVE DashboardFresh'
      BY <2>1
    <3>1. DashboardFresh
      BY DEF DashboardShow
    <3>2. DashboardListed => DashboardListed'
      BY <2>1 DEF DashboardListed
    <3>3. ASSUME NEW i \in 1..Bound.loads, OnDashboard!Schedules(i) \in DOMAIN net'
          PROVE  LET r == net'[OnDashboard!Schedules(i)]
                 IN  /\ r.stage # "failed" /\ (ui.of = srv.at => r.arg = srv.pipelines)
                     /\ ui.of = srv.at /\ r.stage = "answered" => r.got = srv.schedules
      <4>1. CASE OnDashboard!Schedules(i) = k
        <5>1. ui.of = srv.at => net[k].arg = srv.pipelines
          BY <2>1, <3>1, <4>1 DEF DashboardFresh
        <5>2. srv.schedules \subseteq srv.pipelines
          BY DEF DashboardShow, DashboardServer
        <5> QED
          BY <1>1, <2>3, <4>1, <5>1, <5>2
      <4>2. CASE OnDashboard!Schedules(i) # k
        BY <2>3, <3>1, <3>3, <4>2 DEF DashboardFresh
      <4> QED
        BY <4>1, <4>2
    <3>4. \A i \in 1..Bound.loads : OnDashboard!Schedules(i) \in DOMAIN net' => DashboardListed
      BY <2>3, <3>1 DEF DashboardFresh
    <3> QED
      BY <2>1, <2>3, <3>1, <3>2, <3>3, <3>4 DEF DashboardFresh
  <2> QED
    BY <2>1, <2>3, <2>4, <2>5, <2>6, <2>7 DEF DashboardShow
<1>2. ASSUME NEW i \in 1..Bound.loads, NEW read \in {OnDashboard!Lists} \cup {OnDashboard!Lists \ {l} : l \in OnDashboard!Lists},
             OnDashboard!Handles(OnDashboard!Load(i), srv, [lists |-> srv, read |-> read])
      PROVE  DashboardShow'
  <2> DEFINE a == [lists |-> srv, read |-> read]
  <2>1. DashboardSnap(srv)
    BY DEF DashboardShow, DashboardServer, DashboardSnap
  <2>2. a.lists = srv /\ a.read \subseteq OnDashboard!Lists /\ OnDashboard!Handles(OnDashboard!Load(i), srv, a)
    BY <1>2
  <2> HIDE DEF a
  <2>3. OnDashboard!Load(i) \in DashboardKeys /\ \A j \in 1..Bound.loads : OnDashboard!Load(i) # OnDashboard!Schedules(j)
    BY DashboardNamed DEF DashboardKeys
  <2> QED
    BY <1>1, <2>1, <2>2, <2>3
<1>3. ASSUME NEW i \in 1..Bound.loads, OnDashboard!Handles(OnDashboard!Schedules(i), srv, srv.schedules \cap net[OnDashboard!Schedules(i)].arg)
      PROVE  DashboardShow'
  <2>1. OnDashboard!Schedules(i) \in DashboardKeys /\ \A j \in 1..Bound.loads : OnDashboard!Load(j) # OnDashboard!Schedules(i)
    BY DashboardNamed DEF DashboardKeys
  <2> QED
    BY <1>1, <1>3, <2>1
<1> QED
  BY <1>2, <1>3 DEF OnDashboard!Serve

\* The schedules cannot be read.
LEMMA DashboardFails == ASSUME DashboardShow, NEW i \in 1..Bound.loads, OnDashboard!Spoils(OnDashboard!Schedules(i)) PROVE DashboardShow'
<1> DEFINE k == OnDashboard!Schedules(i)
<1>1. /\ k \in DOMAIN net /\ ui' = ui /\ srv' = srv /\ noise' = noise \cup {"failure"}
      /\ net' = [net EXCEPT ![k].stage = "failed", ![k].got = "nothing"]
  BY DEF OnDashboard!Spoils, OnDashboard!Fails, OnDashboard!Out
<1>n. \A j \in 1..Bound.loads : OnDashboard!Load(j) # k
  BY DashboardNamed
<1> HIDE DEF k
<1>2. DOMAIN net[k] = {"arg", "stage", "got"}
  BY <1>1 DEF DashboardShow, DashboardNet
<1>3. /\ DOMAIN net' = DOMAIN net /\ \A j \in DOMAIN net : j # k => net'[j] = net[j]
      /\ DOMAIN net'[k] = {"arg", "stage", "got"} /\ net'[k].stage = "failed"
  BY <1>1, <1>2
<1>4. DashboardUi' /\ DashboardServer'
  BY <1>1 DEF DashboardShow, DashboardUi, DashboardServer
<1>5. DashboardNet'
  <2>1. \A j \in DOMAIN net' : DOMAIN net'[j] = {"arg", "stage", "got"}
    BY <1>3 DEF DashboardShow, DashboardNet
  <2>2. \A j \in 1..Bound.loads : OnDashboard!Load(j) \in DOMAIN net' => OnDashboard!Load(j) \in DOMAIN net /\ net'[OnDashboard!Load(j)] = net[OnDashboard!Load(j)]
    BY <1>3, <1>n
  <2>3. \A j \in DOMAIN net' : net'[j].stage = "answered" => net'[j] = net[j]
    BY <1>3
  <2> QED
    BY <1>1, <1>3, <2>1, <2>2, <2>3 DEF DashboardShow, DashboardNet, DashboardSnap
<1>6. OnDashboard!TypeOK'
  BY <1>1, <1>3 DEF DashboardShow, OnDashboard!TypeOK
<1> QED
  BY <1>1, <1>3, <1>4, <1>5, <1>6 DEF DashboardShow

\* Something happens elsewhere: what was read before is of a former moment.
LEMMA DashboardElsewhere == DashboardShow /\ OnDashboard!Elsewhere => DashboardShow'
<1> SUFFICES ASSUME DashboardShow, OnDashboard!Elsewhere PROVE DashboardShow'
  OBVIOUS
<1>0. DashboardServer
  BY DEF DashboardShow
<1>1. ui' = ui /\ net' = net /\ noise' = noise /\ srv'.at = srv.at + 1 /\ srv.at \in Int
  BY <1>0 DEF OnDashboard!Elsewhere, DashboardServer
<1>2. DashboardServer'
  <2>1. PICK p \in Rows :
          \/ srv' = [srv EXCEPT !.connections = @ \ {p}, !.at = @ + 1]
          \/ srv' = [srv EXCEPT !.pipelines = @ \ {p}, !.schedules = @ \ {p}, !.sensors = @ \ {p}, !.at = @ + 1]
          \/ srv' = [srv EXCEPT !.runs = @ \cup {p}, !.at = @ + 1]
    BY Zenon DEF OnDashboard!Elsewhere
  <2>2. CASE srv' = [srv EXCEPT !.connections = @ \ {p}, !.at = @ + 1]
    BY <1>0, <2>2 DEF DashboardServer
  <2>3. CASE srv' = [srv EXCEPT !.pipelines = @ \ {p}, !.schedules = @ \ {p}, !.sensors = @ \ {p}, !.at = @ + 1]
    BY <1>0, <2>3 DEF DashboardServer
  <2>4. CASE srv' = [srv EXCEPT !.runs = @ \cup {p}, !.at = @ + 1]
    BY <1>0, <2>4 DEF DashboardServer
  <2> QED
    BY <2>1, <2>2, <2>3, <2>4
<1>3. ui.of \in Int /\ ui.of <= srv.at /\ ui'.of # srv'.at /\ DashboardUi'
  BY <1>1 DEF DashboardShow, DashboardUi
<1>5. DashboardNet'
  <2>1. \A i \in 1..Bound.loads : OnDashboard!Load(i) \in DOMAIN net => net[OnDashboard!Load(i)].arg.at <= srv'.at
    BY <1>1 DEF DashboardShow, DashboardNet
  <2>2. ASSUME NEW i \in 1..Bound.loads, OnDashboard!Load(i) \in DOMAIN net, net[OnDashboard!Load(i)].stage = "answered"
        PROVE  DashboardSnap(net[OnDashboard!Load(i)].got.lists)'
    <3>1. DashboardSnap(net[OnDashboard!Load(i)].got.lists)
      BY <2>2 DEF DashboardShow, DashboardNet
    <3> QED
      BY <1>1, <3>1 DEF DashboardSnap
  <2> QED
    BY <1>1, <2>1, <2>2 DEF DashboardShow, DashboardNet
<1>6. OnDashboard!TypeOK'
  BY <1>1 DEF DashboardShow, OnDashboard!TypeOK
<1>7. DashboardListed'
  BY <1>3 DEF DashboardListed
<1>8. noise' = {} => DashboardFresh'
  BY <1>1, <1>3, <1>7 DEF DashboardShow, DashboardFresh
<1> QED
  BY <1>1, <1>2, <1>3, <1>5, <1>6, <1>8 DEF DashboardShow

\* Every step of the page keeps it.
LEMMA DashboardShowStep == DashboardShow /\ OnDashboard!Next => DashboardShow'
  BY DashboardStarts, DashboardLoads, DashboardScheduled, DashboardServes, DashboardFails, DashboardElsewhere DEF OnDashboard!Next

\* It is what the page promises.
LEMMA DashboardShowEnough == DashboardShow => OnDashboard!ShowsServer /\ OnDashboard!TypeOK
<1> SUFFICES ASSUME DashboardShow, OnDashboard!Quiet, noise = {}, ui.of = srv.at
             PROVE  /\ OnDashboard!BrokenPipelines = srv.pipelines \ srv.connections
                    /\ OnDashboard!UnusedConnections = srv.connections \ srv.pipelines
                    /\ OnDashboard!FailingSchedules = srv.schedules \cap srv.runs
                    /\ OnDashboard!FailingSensors = srv.sensors \cap srv.runs
  BY DEF DashboardShow, OnDashboard!ShowsServer
<1>1. /\ ui.pipelines = srv.pipelines /\ ui.connections = srv.connections /\ ui.runs = srv.runs
      /\ ui.sensors = srv.sensors /\ ui.schedules = srv.schedules
  BY DEF DashboardShow, DashboardFresh, DashboardListed, OnDashboard!Quiet
<1>2. 0 \notin Rows
  BY RowsAssumption
<1>3. /\ ui.pipelines # {0} /\ ui.connections # {0} /\ ui.runs # {0} /\ ui.sensors # {0} /\ ui.schedules # {0}
  BY <1>1, <1>2 DEF DashboardShow, DashboardServer
<1> QED
  BY <1>1, <1>3 DEF OnDashboard!BrokenPipelines, OnDashboard!UnusedConnections, OnDashboard!FailingSchedules, OnDashboard!FailingSensors,
                    OnDashboard!Known, OnDashboard!Unread
=============================================================================
