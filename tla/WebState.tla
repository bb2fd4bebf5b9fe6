------------------------------ MODULE WebState ------------------------------
(***************************************************************************)
(* The state the screens of the web client have in common, when one of them *)
(* is open: what the page remembers, its requests under way, the part of    *)
(* the server it sees.                                                      *)
(***************************************************************************)
EXTENDS Integers, Sequences, FiniteSets, TLC

CONSTANTS
  Rows,           \* what a list has at first: small numbers
  Bound           \* how often the user acts on each screen, and how much there is

VARIABLES ui, net, srv, clicks, noise

browser == <<ui, net, srv, clicks, noise>>

ASSUME RowsAssumption == Rows \subseteq Nat \ {0} /\ IsFiniteSet(Rows)

\* The requests of a page about its rows have names of their own.
Distinct(ops, rows, plain) ==
  \A op \in ops, p \in rows :
    /\ op \o ToString(p) \notin plain
    /\ \A op2 \in ops, q \in rows : op \o ToString(p) = op2 \o ToString(q) => op = op2 /\ p = q

(* What a step does to the requests under way, for the proofs *)

\* One more is sent.
Sends(old, new, k) ==
  /\ \A j : j \in DOMAIN new <=> j \in DOMAIN old \/ j = k
  /\ \A j \in DOMAIN old : j # k => new[j] = old[j]
  /\ DOMAIN new[k] = {"arg", "stage", "got"} /\ new[k].stage = "sent"

\* One is no longer waited for.
Closes(old, new, k) ==
  /\ k \in DOMAIN old /\ \A j : j \in DOMAIN new <=> j \in DOMAIN old /\ j # k
  /\ \A j \in DOMAIN new : new[j] = old[j]

\* One gets further.
Turns(old, new, k) ==
  /\ k \in DOMAIN old /\ DOMAIN new = DOMAIN old /\ DOMAIN new[k] = DOMAIN old[k]
  /\ \A j \in DOMAIN old : j # k => new[j] = old[j]
=============================================================================
