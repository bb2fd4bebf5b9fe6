------------------------------ MODULE Browser ------------------------------
(***************************************************************************)
(* What the pages of the web client (services/anyduct-web) share.  A page   *)
(* is a record `ui` of React state; `net` holds the requests under way by   *)
(* name, each with what it closed over (`arg`), how far it is (`stage`) and *)
(* what came back (`got`); `srv` is the part of the server the page reads   *)
(* and writes.  Requests are handled and answered in any order, and each    *)
(* may fail, before the server took it or after.  A module of a page        *)
(* EXTENDS this one and gives the clicks of its user, what the server does  *)
(* with each request, and what the page does with each answer.              *)
(***************************************************************************)
EXTENDS Integers, Sequences, FiniteSets, Functions, TLC

VARIABLES
  ui,       \* what the page remembers
  net,      \* requests under way: name -> [arg, stage, got]
  srv,      \* what the server has
  clicks,   \* how often the user acted: bounded by MaxClicks
  noise     \* ghost: what happened that a page cannot make good

CONSTANT MaxClicks

pageState == <<ui, net, srv, clicks, noise>>

\* The request op about row p, where several rows may have one.
Named(op, p) == op \o ToString(p)

Out(k) == k \in DOMAIN net
Quiet == DOMAIN net = {}

\* The requests, with one more named k: an older one of that name is one whose
\* answer the page ignores from now on (`cancelled = true` in an effect).
With(requests, k, arg) ==
  [j \in DOMAIN requests \cup {k} |->
     IF j = k THEN [arg |-> arg, stage |-> "sent", got |-> "nothing"] ELSE requests[j]]
Without(requests, k) == Restrict(requests, DOMAIN requests \ {k})

Sent(k, arg) == With(net, k, arg)
Closed(k) == Without(net, k)

Answered(k) == Out(k) /\ net[k].stage = "answered"
Rejected(k) == Out(k) /\ net[k].stage = "failed"
Returned(k) == Answered(k) \/ Rejected(k)

\* One gesture of the user.
Click == clicks < MaxClicks /\ clicks' = clicks + 1

\* The server takes request k: `state` afterwards, and its answer.
Handles(k, state, answer) ==
  /\ Out(k) /\ net[k].stage = "sent"
  /\ srv' = state
  /\ net' = [net EXCEPT ![k].stage = "answered", ![k].got = answer]
  /\ UNCHANGED <<ui, clicks, noise>>

\* A request is refused or lost, or its answer is.
Fails(k) ==
  /\ Out(k) /\ ~Rejected(k)
  /\ net' = [net EXCEPT ![k].stage = "failed", ![k].got = "nothing"]
  /\ UNCHANGED <<ui, srv, clicks>>
Breaks(k) == Fails(k) /\ UNCHANGED noise
\* The same, where a page's property makes an exception of it.
Spoils(k) == Fails(k) /\ noise' = noise \cup {"failure"}
=============================================================================
