--------------------------- MODULE WebListsProofs ---------------------------
(***************************************************************************)
(* Proofs about the lists of the web client, for any rows and bounds.       *)
(* Each page has up to three invariants of its own.  ...Spins is the        *)
(* page's property that no button stays busy when no request is under way   *)
(* that would free it, and what its answers rely on.  ...Rules says what    *)
(* the page knows of the server and what was sent, so that what is written  *)
(* keeps the rules only its writers enforce.  ...Show has the types, and    *)
(* that nothing read is out of date unless a write is under way whose       *)
(* answer makes the page read again, or what the page's property excepts    *)
(* came: a list at rest then shows what the server has.  That the names of  *)
(* requests about rows can be told apart is NamesAssumption of WebLists.    *)
(***************************************************************************)
EXTENDS WebLists, TLAPS, FiniteSetTheorems, WellFoundedInduction

------------------------------------------------------------------------------
(* What the proofs share *)

\* A flag is up while a request is under way, or the one that follows it; they
\* never are together.
Paired(requests, w, r, flag) ==
  /\ w \in DOMAIN requests \/ r \in DOMAIN requests => flag
  /\ w \notin DOMAIN requests \/ r \notin DOMAIN requests

\* What reads brought has rows there can be.
Brought(requests, reads, rows) ==
  \A k \in reads \cap DOMAIN requests : requests[k].stage = "answered" => DOMAIN requests[k].got \subseteq rows

(* What a list shows *)

\* One read of the list at a time; and unless a write has been answered, what was
\* read is what is there, and so is what is shown when nothing is being read.
Fresh(requests, shown, there, reads, writes) ==
  /\ \A j, k \in reads \cap DOMAIN requests : j = k
  /\ (\A k \in writes \cap DOMAIN requests : requests[k].stage \in {"sent", "counted"}) =>
       /\ \A k \in reads \cap DOMAIN requests : requests[k].stage = "answered" => requests[k].got = there
       /\ reads \cap DOMAIN requests = {} => shown = there

\* Lists that could not be read or were read twice at once, and writes whose
\* answer was lost: what the pages' promises leave out.
Excuses == {"stale rows", "lost answer"}

\* So it is unless one of the things happened that excuse it; reads and writes
\* are different requests.
Listing(requests, happened, shown, there, reads, writes, excuses) ==
  /\ \A k \in DOMAIN requests : {"stage", "got"} \subseteq DOMAIN requests[k]
  /\ reads \cap writes = {}
  /\ happened \cap excuses = {} => Fresh(requests, shown, there, reads, writes)

\* The first read of a list brings whatever is there.
LEMMA ListingStarts ==
  ASSUME NEW new, NEW happened, NEW shown, NEW there, NEW reads, NEW writes, NEW excuses, NEW k,
         reads \cap writes = {}, \A j \in DOMAIN new : DOMAIN new[j] = {"arg", "stage", "got"} /\ new[j].stage = "sent",
         k \in DOMAIN new, reads \cap DOMAIN new = {k}
  PROVE  Listing(new, happened, shown, there, reads, writes, excuses)
  BY DEF Listing, Fresh

\* What happens to other things than the list does not matter, nor does that a
\* write is sent.
LEMMA ListingSends ==
  ASSUME NEW old, NEW new, NEW happened, NEW shown, NEW there, NEW reads, NEW writes, NEW excuses, NEW k,
         Listing(old, happened, shown, there, reads, writes, excuses),
         Sends(old, new, k), k \notin reads, k \in writes => k \notin DOMAIN old
  PROVE  Listing(new, happened, shown, there, reads, writes, excuses)
<1>1. reads \cap DOMAIN new = reads \cap DOMAIN old /\ \A j \in reads \cap DOMAIN old : new[j] = old[j]
  BY DEF Sends
<1>2. \A j \in writes \cap DOMAIN old : j \in DOMAIN new /\ new[j] = old[j]
  BY DEF Sends
<1>3. \A j \in DOMAIN new : {"stage", "got"} \subseteq DOMAIN new[j]
  BY DEF Sends, Listing
<1> QED
  BY <1>1, <1>2, <1>3 DEF Listing, Fresh

\* The list is read again after a request, alone or with an excuse.
LEMMA ListingFollows ==
  ASSUME NEW old, NEW mid, NEW new, NEW happened, NEW later, NEW shown, NEW there, NEW there2, NEW reads, NEW writes, NEW excuses,
         NEW w, NEW k, Listing(old, happened, shown, there, reads, writes, excuses),
         Closes(old, mid, w), Sends(mid, new, k), k \in reads,
         later \cap excuses = {} => DOMAIN mid \cap reads = {}
  PROVE  Listing(new, later, shown, there2, reads, writes, excuses)
<1>1. later \cap excuses = {} => reads \cap DOMAIN new = {k} /\ new[k].stage = "sent"
  BY DEF Sends
<1>2. \A j \in DOMAIN new : {"stage", "got"} \subseteq DOMAIN new[j]
  BY DEF Sends, Closes, Listing
<1> QED
  BY <1>1, <1>2 DEF Listing, Fresh

\* A read is answered and shown, or there is an excuse.
LEMMA ListingShows ==
  ASSUME NEW old, NEW new, NEW happened, NEW later, NEW shown, NEW shown2, NEW there, NEW reads, NEW writes, NEW excuses, NEW k,
         Listing(old, happened, shown, there, reads, writes, excuses),
         Closes(old, new, k), k \in reads,
         later \cap excuses = {} => happened \cap excuses = {} /\ old[k].stage = "answered" /\ (old[k].got = there => shown2 = there)
  PROVE  Listing(new, later, shown2, there, reads, writes, excuses)
<1>1. \A j \in DOMAIN new : {"stage", "got"} \subseteq DOMAIN new[j]
  BY DEF Closes, Listing
<1>2. ASSUME later \cap excuses = {} PROVE Fresh(new, shown2, there, reads, writes)
  <2>1. Fresh(old, shown, there, reads, writes)
    BY <1>2 DEF Listing
  <2>2. reads \cap DOMAIN new = {}
    BY <2>1 DEF Closes, Fresh
  <2>3. writes \cap DOMAIN new = writes \cap DOMAIN old /\ \A j \in writes \cap DOMAIN old : new[j] = old[j]
    BY DEF Closes, Listing
  <2> QED
    BY <1>2, <2>1, <2>2, <2>3 DEF Closes, Fresh
<1> QED
  BY <1>1, <1>2 DEF Listing

\* Another answer does not matter, if it is not that of a write or there is an
\* excuse.
LEMMA ListingCloses ==
  ASSUME NEW old, NEW new, NEW happened, NEW later, NEW shown, NEW there, NEW reads, NEW writes, NEW excuses, NEW k,
         Listing(old, happened, shown, there, reads, writes, excuses),
         Closes(old, new, k), later \cap excuses = {} => happened \cap excuses = {} /\ k \notin reads \cup writes
  PROVE  Listing(new, later, shown, there, reads, writes, excuses)
<1>1. \A j \in DOMAIN new : {"stage", "got"} \subseteq DOMAIN new[j]
  BY DEF Closes, Listing
<1>2. k \notin reads \cup writes =>
        /\ reads \cap DOMAIN new = reads \cap DOMAIN old /\ writes \cap DOMAIN new = writes \cap DOMAIN old
        /\ \A j \in DOMAIN new : new[j] = old[j]
  BY DEF Closes
<1> QED
  BY <1>1, <1>2 DEF Listing, Fresh

\* The server answers a read with what is there, takes a write, or something
\* else that leaves what is there.
LEMMA ListingServed ==
  ASSUME NEW old, NEW new, NEW happened, NEW shown, NEW there, NEW there2, NEW reads, NEW writes, NEW excuses, NEW k,
         Listing(old, happened, shown, there, reads, writes, excuses),
         Turns(old, new, k), new[k].stage = "answered",
         k \in writes \/ (there2 = there /\ (k \in reads => new[k].got = there))
  PROVE  Listing(new, happened, shown, there2, reads, writes, excuses)
<1>1. \A j \in DOMAIN new : {"stage", "got"} \subseteq DOMAIN new[j]
  BY DEF Turns, Listing
<1>2. CASE k \in writes
  BY <1>1, <1>2 DEF Listing, Fresh, Turns
<1>3. CASE k \notin writes /\ there2 = there /\ (k \in reads => new[k].got = there)
  <2>1. \A j \in writes \cap DOMAIN old : new[j] = old[j]
    BY <1>3 DEF Turns
  <2> QED
    BY <1>1, <1>3, <2>1 DEF Listing, Fresh, Turns
<1> QED
  BY <1>2, <1>3

\* A request that fails brings nothing.
LEMMA ListingFails ==
  ASSUME NEW old, NEW new, NEW happened, NEW shown, NEW there, NEW reads, NEW writes, NEW excuses, NEW k,
         Listing(old, happened, shown, there, reads, writes, excuses),
         Turns(old, new, k), new[k].stage = "failed"
  PROVE  Listing(new, happened, shown, there, reads, writes, excuses)
<1>1. \A j \in DOMAIN new : {"stage", "got"} \subseteq DOMAIN new[j]
  BY DEF Turns, Listing
<1>2. CASE k \in writes
  BY <1>1, <1>2 DEF Listing, Fresh, Turns
<1>3. CASE k \notin writes
  <2>1. \A j \in writes \cap DOMAIN old : new[j] = old[j]
    BY <1>3 DEF Turns
  <2> QED
    BY <1>1, <1>3, <2>1 DEF Listing, Fresh, Turns
<1> QED
  BY <1>2, <1>3

\* A write gets as far as a count: the list is as it was.
LEMMA ListingCounts ==
  ASSUME NEW old, NEW new, NEW happened, NEW shown, NEW there, NEW reads, NEW writes, NEW excuses, NEW k,
         Listing(old, happened, shown, there, reads, writes, excuses),
         Turns(old, new, k), k \in writes, old[k].stage = "sent"
  PROVE  Listing(new, happened, shown, there, reads, writes, excuses)
<1>1. \A j \in DOMAIN new : {"stage", "got"} \subseteq DOMAIN new[j]
  BY DEF Turns, Listing
<1>2. \A j \in DOMAIN old : j # k => new[j] = old[j]
  BY DEF Turns
<1> QED
  BY <1>1, <1>2 DEF Listing, Fresh, Turns

------------------------------------------------------------------------------
(* The list of migrations *)

\* What is kept on this page: bulk operations that are busy are of the two
\* kinds there are.
MigrationsSpins ==
  /\ {"busy", "triggering"} \subseteq DOMAIN ui /\ ui.busy \subseteq OnMigrations!Bulks
  /\ OnMigrations!SpinnersHaveRequests

\* It holds when the page opens.
LEMMA MigrationsInit == OnMigrations!Init => MigrationsSpins
  BY DEF OnMigrations!Init, MigrationsSpins, OnMigrations!SpinnersHaveRequests

\* Every step of the page keeps it.
LEMMA MigrationsStep == MigrationsSpins /\ OnMigrations!Next => MigrationsSpins'
<1> SUFFICES ASSUME MigrationsSpins, OnMigrations!Next PROVE MigrationsSpins'
  OBVIOUS
<1> USE DEF MigrationsSpins, OnMigrations!SpinnersHaveRequests, OnMigrations!Out, OnMigrations!Bulks
<1>1. CASE OnMigrations!Serve
  BY <1>1 DEF OnMigrations!Serve, OnMigrations!Handles
<1>2. CASE OnMigrations!ListBack
  <2>1. ui'.busy = ui.busy /\ DOMAIN ui' = DOMAIN ui /\ (ui'.triggering = ui.triggering \/ ui'.triggering = OnMigrations!Nobody)
    BY <1>2 DEF OnMigrations!ListBack, OnMigrations!Returned
  <2>2. DOMAIN net' = DOMAIN net \ {"list"}
    BY <1>2 DEF OnMigrations!ListBack, OnMigrations!Closed, OnMigrations!Without, OnMigrations!Restrict, OnMigrations!With, OnMigrations!Sent
  <2> QED
    BY <2>1, <2>2
<1>3. CASE OnMigrations!PollBack
  <2>1. ui'.busy = ui.busy /\ DOMAIN ui' = DOMAIN ui /\ (ui'.triggering = ui.triggering \/ ui'.triggering = OnMigrations!Nobody)
    BY <1>3 DEF OnMigrations!PollBack, OnMigrations!Returned
  <2>2. DOMAIN net' = DOMAIN net \ {"poll"}
    BY <1>3 DEF OnMigrations!PollBack, OnMigrations!Closed, OnMigrations!Without, OnMigrations!Restrict, OnMigrations!With, OnMigrations!Sent
  <2> QED
    BY <2>1, <2>2
<1>4. CASE OnMigrations!RunOneBack
  <2>1. ui'.busy = ui.busy /\ DOMAIN ui' = DOMAIN ui /\ ui'.triggering = OnMigrations!Nobody
    BY <1>4 DEF OnMigrations!RunOneBack
  <2>2. DOMAIN net' = DOMAIN net \ {"trigger"}
    BY <1>4 DEF OnMigrations!RunOneBack, OnMigrations!Closed, OnMigrations!Without, OnMigrations!Restrict, OnMigrations!With, OnMigrations!Sent
  <2> QED
    BY <2>1, <2>2
<1>5. CASE OnMigrations!ReloadBack
  <2>1. ui'.busy = ui.busy /\ DOMAIN ui' = DOMAIN ui /\ (ui'.triggering = ui.triggering \/ ui'.triggering = OnMigrations!Nobody)
    BY <1>5 DEF OnMigrations!ReloadBack, OnMigrations!Returned
  <2>2. DOMAIN net' = DOMAIN net \ {"reload"}
    BY <1>5 DEF OnMigrations!ReloadBack, OnMigrations!Closed, OnMigrations!Without, OnMigrations!Restrict, OnMigrations!With, OnMigrations!Sent
  <2> QED
    BY <2>1, <2>2
<1>6. ASSUME NEW b \in OnMigrations!Bulks, OnMigrations!Continues(b) PROVE MigrationsSpins'
  <2> DEFINE p == OnMigrations!FirstOf(net[b].arg)
             painted == IF b = "run" /\ OnMigrations!Answered(b) THEN [ui EXCEPT !.runs[p] = net[b].got.runs[p]] ELSE ui
  <2>1. DOMAIN painted = DOMAIN ui /\ painted.busy = ui.busy /\ painted.triggering = ui.triggering
    OBVIOUS
  <2>2. b \in DOMAIN net
    BY <1>6 DEF OnMigrations!Continues, OnMigrations!Returned, OnMigrations!Answered, OnMigrations!Rejected
  <2>3. CASE net[b].arg \ {p} = {}
    <3>1. OnMigrations!Ends(b, painted, OnMigrations!Closed(b))
      BY <1>6, <2>3 DEF OnMigrations!Continues
    <3>2. DOMAIN ui' = DOMAIN ui /\ ui'.busy = ui.busy \ {b} /\ ui'.triggering = ui.triggering
      <4> HIDE DEF painted
      <4> QED
        BY <3>1, <2>1 DEF OnMigrations!Ends, OnMigrations!Bulks
    <3>3. DOMAIN net' = DOMAIN net \ {b} \/ DOMAIN net' = (DOMAIN net \ {b}) \cup {"reload"}
      <4> HIDE DEF painted
      <4> QED
        BY <3>1 DEF OnMigrations!Ends, OnMigrations!Bulks, OnMigrations!Closed, OnMigrations!Without, OnMigrations!Restrict, OnMigrations!With, OnMigrations!Sent
    <3> QED
      BY <3>2, <3>3
  <2>4. CASE net[b].arg \ {p} # {}
    <3>1. ui' = painted
      BY <1>6, <2>4 DEF OnMigrations!Continues
    <3>2. DOMAIN net' = DOMAIN net \cup {b}
      BY <1>6, <2>4 DEF OnMigrations!Continues, OnMigrations!Closed, OnMigrations!Without, OnMigrations!Restrict, OnMigrations!With, OnMigrations!Sent
    <3> HIDE DEF painted
    <3> QED
      BY <3>1, <3>2, <2>1
  <2> QED
    BY <2>3, <2>4
<1>7. ASSUME NEW p, OnMigrations!Toggle(p) PROVE MigrationsSpins'
  BY <1>7 DEF OnMigrations!Toggle
<1>8. ASSUME NEW p, OnMigrations!RunOne(p) PROVE MigrationsSpins'
  BY <1>8 DEF OnMigrations!RunOne, OnMigrations!Sent, OnMigrations!With
<1>9. CASE OnMigrations!ToggleAll
  BY <1>9 DEF OnMigrations!ToggleAll
<1>10. CASE OnMigrations!Filter
  BY <1>10 DEF OnMigrations!Filter
<1>11. CASE OnMigrations!ClearSelection
  BY <1>11 DEF OnMigrations!ClearSelection
<1>12. CASE OnMigrations!CloseDialog
  BY <1>12 DEF OnMigrations!CloseDialog
<1>13. ASSUME NEW b \in OnMigrations!Bulks, OnMigrations!OpenDialog(b) PROVE MigrationsSpins'
  BY <1>13 DEF OnMigrations!OpenDialog
<1>14. ASSUME NEW b \in OnMigrations!Bulks, OnMigrations!Starts(b) PROVE MigrationsSpins'
  BY <1>14 DEF OnMigrations!Starts, OnMigrations!Sent, OnMigrations!With
<1>15. CASE OnMigrations!PollFires
  BY <1>15 DEF OnMigrations!PollFires, OnMigrations!Sent, OnMigrations!With
<1>16. ASSUME NEW k \in DOMAIN net, OnMigrations!Breaks(k) PROVE MigrationsSpins'
  BY <1>16 DEF OnMigrations!Breaks, OnMigrations!Fails
<1> QED
  BY <1>1, <1>2, <1>3, <1>4, <1>5, <1>6, <1>7, <1>8, <1>9, <1>10, <1>11, <1>12, <1>13, <1>14, <1>15, <1>16 DEF OnMigrations!Next, OnMigrations!Returns, OnMigrations!Clicks

\* With it, what was true of the buttons when a dialog was opened stays true
\* while it is open.
MigrationsRules ==
  /\ {"busy", "dialog"} \subseteq DOMAIN ui /\ ui.busy \subseteq OnMigrations!Bulks /\ ui.dialog \in OnMigrations!Dialogs
  /\ ui.dialog = "delete" => ui.busy \cap {"run", "schedule"} = {}
  /\ ui.dialog = "schedule" => ui.busy \cap {"run", "delete"} = {}
  /\ OnMigrations!BulksExclude

\* It holds when the page opens.
LEMMA MigrationsRulesInit == OnMigrations!Init => MigrationsRules
  BY DEF OnMigrations!Init, MigrationsRules, OnMigrations!BulksExclude, OnMigrations!Dialogs

\* Every step of the page keeps it.
LEMMA MigrationsRulesStep == MigrationsRules /\ OnMigrations!Next => MigrationsRules'
<1> SUFFICES ASSUME MigrationsRules, OnMigrations!Next PROVE MigrationsRules'
  OBVIOUS
<1>0. ASSUME DOMAIN ui' = DOMAIN ui, ui'.busy \subseteq ui.busy, ui'.dialog \in {ui.dialog, "none"} PROVE MigrationsRules'
  BY <1>0 DEF MigrationsRules, OnMigrations!BulksExclude, OnMigrations!Dialogs
<1>1. CASE OnMigrations!Serve
  BY <1>0, <1>1 DEF OnMigrations!Serve, OnMigrations!Handles
<1>2. CASE OnMigrations!ListBack \/ OnMigrations!PollBack \/ OnMigrations!RunOneBack \/ OnMigrations!ReloadBack
  <2>1. DOMAIN ui' = DOMAIN ui /\ ui'.busy = ui.busy /\ ui'.dialog = ui.dialog
    BY <1>2 DEF MigrationsRules, OnMigrations!ListBack, OnMigrations!PollBack, OnMigrations!RunOneBack, OnMigrations!ReloadBack
  <2> QED
    BY <2>1, <1>0
<1>3. ASSUME NEW b \in OnMigrations!Bulks, OnMigrations!Continues(b) PROVE MigrationsRules'
  <2> DEFINE p == OnMigrations!FirstOf(net[b].arg)
             painted == IF b = "run" /\ OnMigrations!Answered(b) THEN [ui EXCEPT !.runs[p] = net[b].got.runs[p]] ELSE ui
  <2>1. DOMAIN painted = DOMAIN ui /\ painted.busy = ui.busy /\ painted.dialog = ui.dialog
    BY DEF MigrationsRules
  <2>2. CASE net[b].arg \ {p} = {}
    <3>1. OnMigrations!Ends(b, painted, OnMigrations!Closed(b))
      BY <1>3, <2>2 DEF OnMigrations!Continues
    <3> HIDE DEF painted
    <3>2. DOMAIN ui' = DOMAIN ui /\ ui'.busy = ui.busy \ {b} /\ ui'.dialog \in {ui.dialog, "none"}
      BY <3>1, <2>1 DEF OnMigrations!Ends, OnMigrations!Bulks, MigrationsRules
    <3> QED
      BY <3>2, <1>0
  <2>3. CASE net[b].arg \ {p} # {}
    <3>1. ui' = painted
      BY <1>3, <2>3 DEF OnMigrations!Continues
    <3> HIDE DEF painted
    <3> QED
      BY <3>1, <2>1, <1>0
  <2> QED
    BY <2>2, <2>3
<1>4. CASE OnMigrations!Clicks
  <2>1. ASSUME NEW p, OnMigrations!Toggle(p) \/ OnMigrations!RunOne(p) PROVE MigrationsRules'
    <3>1. DOMAIN ui' = DOMAIN ui /\ ui'.busy = ui.busy /\ ui'.dialog = ui.dialog
      BY <2>1 DEF OnMigrations!Toggle, OnMigrations!RunOne, MigrationsRules
    <3> QED
      BY <3>1, <1>0
  <2>2. CASE OnMigrations!ToggleAll \/ OnMigrations!Filter \/ OnMigrations!ClearSelection \/ OnMigrations!CloseDialog
    <3>1. DOMAIN ui' = DOMAIN ui /\ ui'.busy = ui.busy /\ ui'.dialog \in {ui.dialog, "none"}
      BY <2>2 DEF OnMigrations!ToggleAll, OnMigrations!Filter, OnMigrations!ClearSelection, OnMigrations!CloseDialog, MigrationsRules
    <3> QED
      BY <3>1, <1>0
  <2>3. ASSUME NEW b \in OnMigrations!Bulks, OnMigrations!OpenDialog(b) PROVE MigrationsRules'
    <3>1. DOMAIN ui' = DOMAIN ui /\ ui'.busy = ui.busy /\ ui'.dialog = b /\ ui.busy \cap OnMigrations!Blocks[b] = {} /\ b \in OnMigrations!Dialogs
      BY <2>3 DEF OnMigrations!OpenDialog, OnMigrations!Allowed, MigrationsRules
    <3>2. OnMigrations!Blocks["delete"] = {"run", "schedule"} /\ OnMigrations!Blocks["schedule"] = {"run", "delete", "schedule"}
      BY DEF OnMigrations!Blocks
    <3> QED
      BY <3>1, <3>2 DEF MigrationsRules, OnMigrations!BulksExclude
  <2>4. ASSUME NEW b \in OnMigrations!Bulks, OnMigrations!Starts(b) PROVE MigrationsRules'
    <3> DEFINE ids == OnMigrations!Todo(b, ui.selected)
    <3>1. CASE ids = {}
      BY <2>4, <3>1, <1>0 DEF OnMigrations!Starts
    <3>2. CASE ids # {}
      <4>1. DOMAIN ui' = DOMAIN ui /\ ui'.busy = ui.busy \cup {b} /\ ui'.dialog = ui.dialog
        BY <2>4, <3>2 DEF OnMigrations!Starts, MigrationsRules
      <4>2. \/ b \in {"dry", "run"} /\ ui.dialog = "none" /\ ui.busy \cap OnMigrations!Blocks[b] = {}
            \/ b = ui.dialog
        BY <2>4 DEF OnMigrations!Starts, OnMigrations!Allowed
      <4>3. OnMigrations!Blocks["dry"] = OnMigrations!Bulks /\ OnMigrations!Blocks["run"] = OnMigrations!Bulks
        BY DEF OnMigrations!Blocks
      <4> HIDE DEF ids
      <4> QED
        BY <4>1, <4>2, <4>3 DEF MigrationsRules, OnMigrations!BulksExclude, OnMigrations!Bulks, OnMigrations!Dialogs
    <3> QED
      BY <3>1, <3>2
  <2> QED
    BY <1>4, <2>1, <2>2, <2>3, <2>4 DEF OnMigrations!Clicks
<1>5. CASE OnMigrations!PollFires
  BY <1>5, <1>0 DEF OnMigrations!PollFires
<1>6. ASSUME NEW k \in DOMAIN net, OnMigrations!Breaks(k) PROVE MigrationsRules'
  BY <1>6, <1>0 DEF OnMigrations!Breaks, OnMigrations!Fails
<1> QED
  BY <1>1, <1>2, <1>3, <1>4, <1>5, <1>6 DEF OnMigrations!Next, OnMigrations!Returns

(* What it shows *)

\* The list is read once, when nothing is selected, and after a bulk delete;
\* unless one is under way, what was read is what is there, and so is what is
\* shown when nothing is being read.
MigrationsReads == {"list", "reload"}
MigrationsNames == OnMigrations!Bulks \cup {"list", "poll", "trigger", "reload"}
MigrationsBrought ==
  /\ DOMAIN net \subseteq MigrationsNames /\ \A k \in DOMAIN net : {"stage", "got"} \subseteq DOMAIN net[k]
  /\ \A k \in MigrationsReads \cap DOMAIN net : net[k].stage = "answered" => net[k].got.there \subseteq Rows
  /\ "list" \in DOMAIN net => ui.rows = OnMigrations!NoRows /\ ui.selected = {} /\ {"delete", "reload"} \cap DOMAIN net = {}
MigrationsFresh ==
  "stale rows" \notin noise /\ "delete" \notin DOMAIN net =>
    /\ \A k \in MigrationsReads \cap DOMAIN net : net[k].stage = "answered" => net[k].got.there = srv.there
    /\ MigrationsReads \cap DOMAIN net = {} => ui.rows = srv.there
MigrationsTypes ==
  /\ {"rows", "selected"} \subseteq DOMAIN ui /\ "there" \in DOMAIN srv
  /\ ui.rows \subseteq Rows \cup OnMigrations!NoRows /\ ui.selected \subseteq Rows /\ srv.there \subseteq Rows
MigrationsShow == MigrationsRules /\ MigrationsTypes /\ MigrationsBrought /\ MigrationsFresh

\* What the page's helpers do to the requests.
LEMMA MigrationsNet ==
  /\ \A requests, k, arg : Sends(requests, OnMigrations!With(requests, k, arg), k)
  /\ \A k \in DOMAIN net : Closes(net, OnMigrations!Closed(k), k)
  /\ \A k, state, answer : MigrationsShow /\ OnMigrations!Handles(k, state, answer) =>
       Turns(net, net', k) /\ net'[k].stage = "answered" /\ net'[k].got = answer /\ srv' = state /\ ui' = ui /\ noise' = noise
  /\ \A k : MigrationsShow /\ OnMigrations!Breaks(k) =>
       Turns(net, net', k) /\ net'[k].stage = "failed" /\ srv' = srv /\ ui' = ui /\ noise' = noise
<1>1. \A requests, k, arg : Sends(requests, OnMigrations!With(requests, k, arg), k)
  BY DEF Sends, OnMigrations!With
<1>2. \A k \in DOMAIN net : Closes(net, OnMigrations!Closed(k), k)
  BY DEF Closes, OnMigrations!Closed, OnMigrations!Without, OnMigrations!Restrict
<1>3. ASSUME NEW k, NEW state, NEW answer, MigrationsShow, OnMigrations!Handles(k, state, answer)
      PROVE  Turns(net, net', k) /\ net'[k].stage = "answered" /\ net'[k].got = answer /\ srv' = state /\ ui' = ui /\ noise' = noise
  BY <1>3 DEF Turns, OnMigrations!Handles, OnMigrations!Out, MigrationsShow, MigrationsBrought
<1>4. ASSUME NEW k, MigrationsShow, OnMigrations!Breaks(k)
      PROVE  Turns(net, net', k) /\ net'[k].stage = "failed" /\ srv' = srv /\ ui' = ui /\ noise' = noise
  BY <1>4 DEF Turns, OnMigrations!Breaks, OnMigrations!Fails, OnMigrations!Out, MigrationsShow, MigrationsBrought
<1> QED
  BY <1>1, <1>2, <1>3, <1>4

\* It holds when the page opens.
LEMMA MigrationsShowInit == OnMigrations!Init => MigrationsShow
<1> SUFFICES ASSUME OnMigrations!Init PROVE MigrationsShow
  OBVIOUS
<1>1. net = OnMigrations!With(<<>>, "list", {}) /\ MigrationsTypes
  BY DEF OnMigrations!Init, MigrationsTypes
<1>2. DOMAIN net = {"list"} /\ DOMAIN net["list"] = {"arg", "stage", "got"} /\ net["list"].stage = "sent"
  BY <1>1, DOMAIN <<>> = {} DEF OnMigrations!With
<1>3. ui.rows = OnMigrations!NoRows /\ ui.selected = {}
  BY DEF OnMigrations!Init
<1>4. MigrationsRules
  BY MigrationsRulesInit
<1> QED
  BY <1>1, <1>2, <1>3, <1>4 DEF MigrationsShow, MigrationsBrought, MigrationsFresh, MigrationsNames, MigrationsReads

\* What does not concern the list; nothing is selected before it is there.
LEMMA MigrationsRests ==
  ASSUME MigrationsShow, MigrationsRules', {"rows", "selected"} \subseteq DOMAIN ui', ui'.rows = ui.rows,
         ui'.selected \subseteq Rows, ui.rows = OnMigrations!NoRows => ui'.selected \subseteq ui.selected,
         net' = net, srv' = srv, noise' = noise
  PROVE  MigrationsShow'
  BY DEF MigrationsShow, MigrationsTypes, MigrationsBrought, MigrationsFresh

\* A request is sent that is not a read.
LEMMA MigrationsAsks ==
  ASSUME MigrationsShow, MigrationsRules', NEW k \in MigrationsNames \ MigrationsReads, NEW arg, net' = OnMigrations!Sent(k, arg),
         k = "delete" => "delete" \in DOMAIN net \/ ui.selected # {},
         {"rows", "selected"} \subseteq DOMAIN ui', ui'.rows = ui.rows, ui'.selected = ui.selected, srv' = srv, noise' = noise
  PROVE  MigrationsShow'
<1>1. Sends(net, net', k)
  BY MigrationsNet DEF OnMigrations!Sent
<1>2. MigrationsBrought'
  BY <1>1 DEF MigrationsShow, Sends, MigrationsBrought, MigrationsNames, MigrationsReads
<1>3. MigrationsFresh'
  BY <1>1 DEF MigrationsShow, Sends, MigrationsFresh, MigrationsReads
<1> QED
  BY <1>2, <1>3 DEF MigrationsShow, MigrationsTypes

\* An answer that does not concern the list.
LEMMA MigrationsCloses ==
  ASSUME MigrationsShow, MigrationsRules', NEW k \in DOMAIN net \ (MigrationsReads \cup {"delete"}), net' = OnMigrations!Closed(k),
         {"rows", "selected"} \subseteq DOMAIN ui', ui'.rows = ui.rows, ui'.selected = ui.selected, srv' = srv, noise' = noise
  PROVE  MigrationsShow'
<1>1. Closes(net, net', k)
  BY MigrationsNet
<1>2. MigrationsBrought'
  BY <1>1 DEF MigrationsShow, Closes, MigrationsBrought, MigrationsReads
<1>3. MigrationsFresh'
  BY <1>1 DEF MigrationsShow, Closes, MigrationsFresh, MigrationsReads
<1> QED
  BY <1>2, <1>3 DEF MigrationsShow, MigrationsTypes

\* The server answers a request: a read with what is there.
LEMMA MigrationsTakes ==
  ASSUME MigrationsShow, MigrationsRules', NEW k, NEW state, NEW answer, OnMigrations!Handles(k, state, answer), "there" \in DOMAIN state,
         \/ k = "delete" /\ state.there \subseteq srv.there
         \/ state.there = srv.there /\ (k \in MigrationsReads => answer.there = srv.there)
  PROVE  MigrationsShow'
<1>1. Turns(net, net', k) /\ net'[k].stage = "answered" /\ net'[k].got = answer /\ srv' = state /\ ui' = ui /\ noise' = noise
  BY MigrationsNet
<1>2. MigrationsBrought'
  BY <1>1 DEF MigrationsShow, Turns, MigrationsBrought, MigrationsTypes, MigrationsReads
<1>3. MigrationsFresh'
  BY <1>1 DEF MigrationsShow, Turns, MigrationsFresh, MigrationsReads
<1>4. MigrationsTypes'
  BY <1>1 DEF MigrationsShow, MigrationsTypes
<1> QED
  BY <1>2, <1>3, <1>4 DEF MigrationsShow

\* The server's answers keep it: a list is answered with the rows there are, and a poll or a run changes none of them.
LEMMA MigrationsServe == MigrationsShow /\ MigrationsRules' /\ OnMigrations!Serve => MigrationsShow'
<1> SUFFICES ASSUME MigrationsShow, MigrationsRules', OnMigrations!Serve PROVE MigrationsShow'
  OBVIOUS
<1>0. "there" \in DOMAIN srv
  BY DEF MigrationsShow, MigrationsTypes
<1>1. ASSUME NEW k, OnMigrations!Handles(k, srv, OnMigrations!Listed) PROVE MigrationsShow'
  BY <1>0, <1>1, MigrationsTakes DEF OnMigrations!Listed
<1>2. CASE OnMigrations!Handles("poll", srv, OnMigrations!Health)
  BY <1>0, <1>2, MigrationsTakes DEF MigrationsReads
<1>3. ASSUME NEW k \in {"trigger", "run"}, NEW p, NEW answer, OnMigrations!Handles(k, OnMigrations!Ran(p), answer) PROVE MigrationsShow'
  <2> DEFINE state == OnMigrations!Ran(p)
  <2>1. "there" \in DOMAIN state /\ state.there = srv.there
    BY <1>0 DEF OnMigrations!Ran
  <2> HIDE DEF state
  <2>2. OnMigrations!Handles(k, state, answer)
    BY <1>3 DEF state
  <2> QED
    BY <2>1, <2>2, MigrationsTakes DEF MigrationsReads
<1>4. ASSUME NEW t, OnMigrations!Handles("schedule", [srv EXCEPT !.scheduled = t], OnMigrations!Listed) PROVE MigrationsShow'
  BY <1>0, <1>4, MigrationsTakes DEF MigrationsReads
<1>5. ASSUME NEW p, OnMigrations!Handles("delete", [srv EXCEPT !.there = @ \ {p}, !.scheduled = @ \ {p}], OnMigrations!Listed) PROVE MigrationsShow'
  <2> DEFINE state == [srv EXCEPT !.there = @ \ {p}, !.scheduled = @ \ {p}]
  <2>1. "there" \in DOMAIN state /\ state.there \subseteq srv.there /\ OnMigrations!Handles("delete", state, OnMigrations!Listed)
    BY <1>0, <1>5
  <2> HIDE DEF state
  <2> QED
    BY <2>1, MigrationsTakes
<1> QED
  BY <1>1, <1>2, <1>3, <1>4, <1>5 DEF OnMigrations!Serve

\* The list is read.
LEMMA MigrationsReadBack ==
  ASSUME MigrationsShow, MigrationsRules', OnMigrations!ListBack \/ OnMigrations!ReloadBack
  PROVE  MigrationsShow'
<1>0. PICK k \in MigrationsReads : (k = "list" /\ OnMigrations!ListBack) \/ (k = "reload" /\ OnMigrations!ReloadBack)
  BY DEF MigrationsReads
<1>1. k \in DOMAIN net /\ Closes(net, net', k) /\ srv' = srv /\ (net[k].stage = "answered" \/ "stale rows" \in noise') /\ noise \subseteq noise'
  BY <1>0, MigrationsNet, ZenonT(60) DEF OnMigrations!ListBack, OnMigrations!ReloadBack, OnMigrations!Returned, OnMigrations!Answered, OnMigrations!Rejected, OnMigrations!Out
<1>2. /\ DOMAIN ui' = DOMAIN ui /\ ui'.selected = ui.selected
      /\ net[k].stage = "answered" => ui'.rows = net[k].got.there
      /\ net[k].stage # "answered" => ui'.rows \in {{}, ui.rows}
  BY <1>0, <1>1 DEF OnMigrations!ListBack, OnMigrations!ReloadBack, OnMigrations!Answered, OnMigrations!Out, MigrationsShow, MigrationsTypes
<1>3. MigrationsTypes'
  BY <1>1, <1>2 DEF MigrationsShow, MigrationsTypes, MigrationsBrought
<1>4. "list" \notin DOMAIN net' /\ MigrationsBrought'
  BY <1>0, <1>1 DEF MigrationsShow, Closes, MigrationsBrought, MigrationsReads
<1>5. MigrationsReads \cap DOMAIN net' = {}
  BY <1>0, <1>1 DEF MigrationsShow, Closes, MigrationsBrought, MigrationsReads
<1>6. "stale rows" \notin noise' /\ "delete" \notin DOMAIN net' => ui'.rows = srv'.there
  BY <1>1, <1>2 DEF MigrationsShow, Closes, MigrationsFresh, MigrationsReads
<1> QED
  BY <1>3, <1>4, <1>5, <1>6 DEF MigrationsShow, MigrationsFresh

\* A bulk operation goes on to the next row, or ends: a delete reads the list.
LEMMA MigrationsContinues ==
  ASSUME MigrationsShow, MigrationsRules', NEW b \in OnMigrations!Bulks, OnMigrations!Continues(b)
  PROVE  MigrationsShow'
<1> DEFINE p == OnMigrations!FirstOf(net[b].arg)
           painted == IF b = "run" /\ OnMigrations!Answered(b) THEN [ui EXCEPT !.runs[p] = net[b].got.runs[p]] ELSE ui
           closed == OnMigrations!Closed(b)
<1>1. DOMAIN painted = DOMAIN ui /\ painted.rows = ui.rows /\ painted.selected = ui.selected
  BY DEF MigrationsShow, MigrationsTypes
<1>2. b \in DOMAIN net /\ Closes(net, closed, b) /\ srv' = srv /\ {"rows", "selected"} \subseteq DOMAIN ui
  BY MigrationsNet DEF OnMigrations!Continues, OnMigrations!Returned, OnMigrations!Answered, OnMigrations!Rejected, MigrationsShow, MigrationsTypes, OnMigrations!Out
<1>n. b \in MigrationsNames \ MigrationsReads
  BY DEF MigrationsNames, MigrationsReads, OnMigrations!Bulks
<1>3. CASE net[b].arg \ {p} # {}
  <2>1. ui' = painted /\ net' = OnMigrations!Sent(b, net[b].arg \ {p}) /\ noise' = noise
    BY <1>3 DEF OnMigrations!Continues
  <2> HIDE DEF painted
  <2> QED
    BY <1>1, <1>2, <1>n, <2>1, MigrationsAsks
<1>4. CASE net[b].arg \ {p} = {} /\ b # "delete"
  <2>1. OnMigrations!Ends(b, painted, closed)
    BY <1>4 DEF OnMigrations!Continues
  <2> HIDE DEF painted
  <2>2. DOMAIN ui' = DOMAIN ui /\ ui'.rows = ui.rows /\ ui'.selected = ui.selected /\ net' = closed /\ noise' = noise
    BY <1>1, <1>4, <2>1 DEF OnMigrations!Ends, OnMigrations!Bulks, MigrationsShow, MigrationsTypes
  <2> QED
    BY <1>2, <1>4, <1>n, <2>2, MigrationsCloses
<1>5. CASE net[b].arg \ {p} = {} /\ b = "delete"
  <2>1. OnMigrations!Ends(b, painted, closed)
    BY <1>5 DEF OnMigrations!Continues
  <2> HIDE DEF painted
  <2>2. DOMAIN ui' = DOMAIN ui /\ ui'.rows = ui.rows /\ ui'.selected = {} /\ net' = OnMigrations!With(closed, "reload", {})
        /\ noise' = IF "reload" \in DOMAIN net THEN noise \cup {"stale rows"} ELSE noise
    BY <1>1, <1>5, <2>1 DEF OnMigrations!Ends, OnMigrations!Out, MigrationsShow, MigrationsTypes
  <2>3. Sends(closed, net', "reload")
    BY <2>2, MigrationsNet
  <2> HIDE DEF closed
  <2>4. "list" \notin DOMAIN net
    BY <1>2, <1>5 DEF MigrationsShow, MigrationsBrought
  <2>5. MigrationsBrought'
    BY <1>2, <1>5, <2>3, <2>4 DEF MigrationsShow, Sends, Closes, MigrationsBrought, MigrationsNames, MigrationsReads
  <2>6. MigrationsFresh'
    BY <1>2, <1>5, <2>3, <2>4 DEF Sends, Closes, MigrationsFresh, MigrationsReads
  <2> QED
    BY <1>2, <2>2, <2>5, <2>6 DEF MigrationsShow, MigrationsTypes
<1> QED
  BY <1>3, <1>4, <1>5

\* The user's clicks.
LEMMA MigrationsClicks == MigrationsShow /\ MigrationsRules' /\ OnMigrations!Clicks => MigrationsShow'
<1> SUFFICES ASSUME MigrationsShow, MigrationsRules', OnMigrations!Clicks PROVE MigrationsShow'
  OBVIOUS
<1>t. {"rows", "selected"} \subseteq DOMAIN ui /\ ui.rows \subseteq Rows \cup OnMigrations!NoRows /\ ui.selected \subseteq Rows
  BY DEF MigrationsShow, MigrationsTypes
<1>v. OnMigrations!Visible \subseteq Rows /\ (ui.rows = OnMigrations!NoRows => OnMigrations!Visible = {})
  BY <1>t DEF OnMigrations!Visible
<1>1. ASSUME NEW p \in Rows, OnMigrations!Toggle(p) PROVE MigrationsShow'
  <2>1. /\ DOMAIN ui' = DOMAIN ui /\ ui'.rows = ui.rows /\ ui'.selected \subseteq ui.selected \cup {p}
        /\ net' = net /\ srv' = srv /\ noise' = noise /\ p \in OnMigrations!Visible
    BY <1>t, <1>1 DEF OnMigrations!Toggle
  <2>2. ui'.selected \subseteq Rows /\ (ui.rows = OnMigrations!NoRows => ui'.selected \subseteq ui.selected)
    BY <1>t, <1>v, <2>1
  <2> QED
    BY <1>t, <2>1, <2>2, MigrationsRests
<1>2. CASE OnMigrations!ToggleAll
  <2>1. /\ DOMAIN ui' = DOMAIN ui /\ ui'.rows = ui.rows /\ ui'.selected \subseteq ui.selected \cup OnMigrations!Visible
        /\ net' = net /\ srv' = srv /\ noise' = noise
    BY <1>t, <1>2 DEF OnMigrations!ToggleAll
  <2>2. ui'.selected \subseteq Rows /\ (ui.rows = OnMigrations!NoRows => ui'.selected \subseteq ui.selected)
    BY <1>t, <1>v, <2>1
  <2> QED
    BY <1>t, <2>1, <2>2, MigrationsRests
<1>3. CASE OnMigrations!Filter \/ OnMigrations!ClearSelection \/ OnMigrations!CloseDialog
  <2>1. /\ DOMAIN ui' = DOMAIN ui /\ ui'.rows = ui.rows /\ ui'.selected \subseteq ui.selected
        /\ net' = net /\ srv' = srv /\ noise' = noise
    BY <1>t, <1>3 DEF OnMigrations!Filter, OnMigrations!ClearSelection, OnMigrations!CloseDialog
  <2>2. ui'.selected \subseteq Rows
    BY <1>t, <2>1
  <2> QED
    BY <1>t, <2>1, <2>2, MigrationsRests
<1>4. ASSUME NEW b, OnMigrations!OpenDialog(b) PROVE MigrationsShow'
  BY <1>t, <1>4, MigrationsRests DEF OnMigrations!OpenDialog
<1>5. ASSUME NEW p, OnMigrations!RunOne(p) PROVE MigrationsShow'
  <2>1. "trigger" \in MigrationsNames \ MigrationsReads
    BY DEF MigrationsNames, MigrationsReads
  <2> QED
    BY <1>t, <1>5, <2>1, MigrationsAsks DEF OnMigrations!RunOne
<1>6. ASSUME NEW b \in OnMigrations!Bulks, OnMigrations!Starts(b) PROVE MigrationsShow'
  <2> DEFINE ids == OnMigrations!Todo(b, ui.selected)
  <2>1. b \in MigrationsNames \ MigrationsReads /\ (b = "delete" => ui.selected # {})
    BY <1>6 DEF MigrationsNames, MigrationsReads, OnMigrations!Bulks, OnMigrations!Starts
  <2>2. /\ srv' = srv /\ noise' = noise
        /\ IF ids = {} THEN ui' = ui /\ net' = net
           ELSE ui' = [ui EXCEPT !.busy = @ \cup {b}] /\ net' = OnMigrations!Sent(b, ids)
    BY <1>6 DEF OnMigrations!Starts
  <2> HIDE DEF ids
  <2>3. CASE ids = {}
    BY <1>t, <2>2, <2>3, MigrationsRests
  <2>4. CASE ids # {}
    BY <1>t, <2>1, <2>2, <2>4, MigrationsAsks
  <2> QED
    BY <2>3, <2>4
<1> QED
  BY <1>1, <1>2, <1>3, <1>4, <1>5, <1>6 DEF OnMigrations!Clicks

\* Every step of the page keeps it.
LEMMA MigrationsShowStep == MigrationsShow /\ OnMigrations!Next => MigrationsShow'
<1> SUFFICES ASSUME MigrationsShow, OnMigrations!Next PROVE MigrationsShow'
  OBVIOUS
<1>0. MigrationsRules' /\ {"rows", "selected"} \subseteq DOMAIN ui
  BY MigrationsRulesStep DEF MigrationsShow, MigrationsTypes
<1>1. ASSUME NEW k \in {"poll", "trigger"}, IF k = "poll" THEN OnMigrations!PollBack ELSE OnMigrations!RunOneBack PROVE MigrationsShow'
  <2>1. k \in DOMAIN net \ (MigrationsReads \cup {"delete"})
    BY <1>1 DEF OnMigrations!PollBack, OnMigrations!RunOneBack, OnMigrations!Returned, OnMigrations!Answered, OnMigrations!Rejected, OnMigrations!Out, MigrationsReads
  <2>2. DOMAIN ui' = DOMAIN ui /\ ui'.rows = ui.rows /\ ui'.selected = ui.selected /\ srv' = srv /\ noise' = noise /\ net' = OnMigrations!Closed(k)
    BY <1>0, <1>1 DEF OnMigrations!PollBack, OnMigrations!RunOneBack
  <2> QED
    BY <1>0, <2>1, <2>2, MigrationsCloses
<1>2. CASE OnMigrations!PollFires
  <2>1. "poll" \in MigrationsNames \ MigrationsReads
    BY DEF MigrationsNames, MigrationsReads
  <2> QED
    BY <1>0, <1>2, <2>1, MigrationsAsks DEF OnMigrations!PollFires
<1>3. ASSUME NEW k \in DOMAIN net, OnMigrations!Breaks(k) PROVE MigrationsShow'
  <2>1. Turns(net, net', k) /\ net'[k].stage = "failed" /\ ui' = ui /\ srv' = srv /\ noise' = noise
    BY <1>3, MigrationsNet
  <2>2. MigrationsBrought' /\ MigrationsFresh'
    BY <2>1 DEF MigrationsShow, Turns, MigrationsBrought, MigrationsFresh
  <2> QED
    BY <1>0, <2>1, <2>2 DEF MigrationsShow, MigrationsTypes
<1> QED
  BY <1>0, <1>1, <1>2, <1>3, MigrationsClicks, MigrationsServe, MigrationsReadBack, MigrationsContinues DEF OnMigrations!Next, OnMigrations!Returns

\* It is what the page promises.
LEMMA MigrationsShowEnough == MigrationsShow => OnMigrations!ShowsServer /\ OnMigrations!TypeOK
  BY DEF MigrationsShow, MigrationsRules, MigrationsTypes, MigrationsBrought, MigrationsNames, MigrationsFresh, OnMigrations!ShowsServer, OnMigrations!TypeOK, OnMigrations!Quiet

------------------------------------------------------------------------------
(* The list of pipelines *)

\* What is kept on this page: the row being run is one there is, a bulk that
\* is busy of a kind there is.
PipelinesSpins ==
  /\ {"busy", "deleting", "submitting", "triggering"} \subseteq DOMAIN ui
  /\ ui.busy \subseteq OnPipelines!Bulks /\ ui.triggering \in Rows \cup {OnPipelines!Nobody}
  /\ OnPipelines!SpinnersHaveRequests

\* It holds when the page opens.
LEMMA PipelinesInit == OnPipelines!Init => PipelinesSpins
<1> SUFFICES ASSUME OnPipelines!Init PROVE PipelinesSpins
  OBVIOUS
<1>1. PICK preset : ui = [rows |-> OnPipelines!NoRows, conns |-> FALSE, ran |-> {}, filter |-> preset, selected |-> {}, dialog |-> OnPipelines!Nobody,
             deleting |-> FALSE, triggering |-> OnPipelines!Nobody, asksParams |-> OnPipelines!Nobody, busy |-> {},
             creating |-> FALSE, submitting |-> FALSE, left |-> FALSE]
  BY Zenon DEF OnPipelines!Init
<1> QED
  BY <1>1 DEF PipelinesSpins, OnPipelines!SpinnersHaveRequests, OnPipelines!Nobody

\* The requests of the page that are about no row.
PipelinesNames == {"list", "conns", "runs", "create", "remove", "reload", "params", "dry", "run", "delete"}

\* The requests about a row are told from these and from each other.
LEMMA PipelinesNamed == \A p \in Rows : OnPipelines!Named("trigger", p) \notin PipelinesNames
  BY NamesAssumption DEF Distinct, PipelinesNames, OnPipelines!Named

\* Every step of the page keeps it.
LEMMA PipelinesStep == PipelinesSpins /\ OnPipelines!Next => PipelinesSpins'
<1> SUFFICES ASSUME PipelinesSpins, OnPipelines!Next PROVE PipelinesSpins'
  OBVIOUS
<1> USE DEF PipelinesSpins, OnPipelines!SpinnersHaveRequests, OnPipelines!Out, OnPipelines!Nobody
<1>n. ui.triggering # OnPipelines!Nobody => OnPipelines!Named("trigger", ui.triggering) \notin PipelinesNames
  BY PipelinesNamed
<1>m. ui.busy \subseteq {"dry", "run", "delete"}
  BY DEF OnPipelines!Bulks
<1>1. CASE OnPipelines!Serve
  BY <1>1 DEF OnPipelines!Serve, OnPipelines!Handles
<1>2. CASE OnPipelines!ListBack
  <2>1. DOMAIN ui' = DOMAIN ui /\ ui'.busy = ui.busy /\ ui'.deleting = ui.deleting /\ ui'.submitting = ui.submitting /\ ui'.triggering = ui.triggering
    BY <1>2 DEF OnPipelines!ListBack
  <2>2. DOMAIN net' = DOMAIN net \ {"list"}
    BY <1>2 DEF OnPipelines!ListBack, OnPipelines!Closed, OnPipelines!Without, OnPipelines!Restrict, OnPipelines!With, OnPipelines!Sent
  <2> QED
    BY <2>1, <2>2, <1>n, <1>m DEF PipelinesNames
<1>3. CASE OnPipelines!ConnsBack
  <2>1. DOMAIN ui' = DOMAIN ui /\ ui'.busy = ui.busy /\ ui'.deleting = ui.deleting /\ ui'.submitting = ui.submitting /\ ui'.triggering = ui.triggering
    BY <1>3 DEF OnPipelines!ConnsBack
  <2>2. DOMAIN net' = DOMAIN net \ {"conns"}
    BY <1>3 DEF OnPipelines!ConnsBack, OnPipelines!Closed, OnPipelines!Without, OnPipelines!Restrict, OnPipelines!With, OnPipelines!Sent
  <2> QED
    BY <2>1, <2>2, <1>n, <1>m DEF PipelinesNames
<1>4. CASE OnPipelines!RunsBack
  <2>1. DOMAIN ui' = DOMAIN ui /\ ui'.busy = ui.busy /\ ui'.deleting = ui.deleting /\ ui'.submitting = ui.submitting /\ ui'.triggering = ui.triggering
    BY <1>4 DEF OnPipelines!RunsBack
  <2>2. DOMAIN net' = DOMAIN net \ {"runs"}
    BY <1>4 DEF OnPipelines!RunsBack, OnPipelines!Closed, OnPipelines!Without, OnPipelines!Restrict, OnPipelines!With, OnPipelines!Sent
  <2> QED
    BY <2>1, <2>2, <1>n, <1>m DEF PipelinesNames
<1>5. CASE OnPipelines!CreateBack
  <2>1. DOMAIN ui' = DOMAIN ui /\ ui'.busy = ui.busy /\ ui'.deleting = ui.deleting /\ ui'.submitting = FALSE /\ ui'.triggering = ui.triggering
    BY <1>5 DEF OnPipelines!CreateBack
  <2>2. DOMAIN net' = DOMAIN net \ {"create"}
    BY <1>5 DEF OnPipelines!CreateBack, OnPipelines!Closed, OnPipelines!Without, OnPipelines!Restrict, OnPipelines!With, OnPipelines!Sent
  <2> QED
    BY <2>1, <2>2, <1>n, <1>m DEF PipelinesNames
<1>6. CASE OnPipelines!RemoveBack
  <2>1. DOMAIN ui' = DOMAIN ui /\ ui'.busy = ui.busy /\ ui'.submitting = ui.submitting /\ ui'.triggering = ui.triggering
    BY <1>6 DEF OnPipelines!RemoveBack
  <2>2. \/ DOMAIN net' = (DOMAIN net \ {"remove"}) \cup {"reload"}
        \/ DOMAIN net' = DOMAIN net \ {"remove"} /\ ui'.deleting = FALSE
    BY <1>6 DEF OnPipelines!RemoveBack, OnPipelines!Closed, OnPipelines!Without, OnPipelines!Restrict, OnPipelines!With, OnPipelines!Sent
  <2> QED
    BY <2>1, <2>2, <1>n, <1>m DEF PipelinesNames
<1>7. CASE OnPipelines!ReloadBack
  <2>1. DOMAIN ui' = DOMAIN ui /\ ui'.busy = ui.busy /\ ui'.deleting = FALSE /\ ui'.submitting = ui.submitting /\ ui'.triggering = ui.triggering
    BY <1>7 DEF OnPipelines!ReloadBack
  <2>2. DOMAIN net' = DOMAIN net \ {"reload"}
    BY <1>7 DEF OnPipelines!ReloadBack, OnPipelines!Closed, OnPipelines!Without, OnPipelines!Restrict, OnPipelines!With, OnPipelines!Sent
  <2> QED
    BY <2>1, <2>2, <1>n, <1>m DEF PipelinesNames
<1>8. CASE OnPipelines!ParamsBack
  <2>1. DOMAIN ui' = DOMAIN ui /\ ui'.busy = ui.busy /\ ui'.deleting = ui.deleting /\ ui'.submitting = ui.submitting /\ ui'.triggering = ui.triggering
    BY <1>8 DEF OnPipelines!ParamsBack
  <2>2. DOMAIN net' = DOMAIN net \ {"params"}
    BY <1>8 DEF OnPipelines!ParamsBack, OnPipelines!Closed, OnPipelines!Without, OnPipelines!Restrict, OnPipelines!With, OnPipelines!Sent
  <2> QED
    BY <2>1, <2>2, <1>n, <1>m DEF PipelinesNames
<1>9. ASSUME NEW p \in Rows, OnPipelines!TriggerBack(p) PROVE PipelinesSpins'
  <2> DEFINE k == OnPipelines!Named("trigger", p)
  <2>1. DOMAIN ui' = DOMAIN ui /\ ui'.busy = ui.busy /\ ui'.submitting = ui.submitting /\ ui'.deleting = ui.deleting /\ ui'.triggering = OnPipelines!Nobody
    BY <1>9 DEF OnPipelines!TriggerBack
  <2>2. DOMAIN net' = DOMAIN net \ {k}
    BY <1>9 DEF OnPipelines!TriggerBack, OnPipelines!Closed, OnPipelines!Without, OnPipelines!Restrict, OnPipelines!With, OnPipelines!Sent
  <2>3. k \notin PipelinesNames
    BY PipelinesNamed
  <2> HIDE DEF k
  <2> QED
    BY <2>1, <2>2, <2>3, <1>m DEF PipelinesNames
<1>10. ASSUME NEW b \in OnPipelines!Bulks, OnPipelines!Continues(b) PROVE PipelinesSpins'
  <2>1. \/ ui' = ui /\ DOMAIN net' = DOMAIN net \cup {b}
        \/ /\ DOMAIN ui' = DOMAIN ui /\ ui'.submitting = ui.submitting /\ ui'.deleting = ui.deleting /\ ui'.triggering = ui.triggering
           /\ ui'.busy = ui.busy \ {b} /\ DOMAIN net' = DOMAIN net \ {b}
    BY <1>10 DEF OnPipelines!Continues, OnPipelines!Closed, OnPipelines!Without, OnPipelines!Restrict, OnPipelines!With, OnPipelines!Sent
  <2> QED
    BY <2>1, <1>n, <1>m DEF PipelinesNames, OnPipelines!Bulks
<1>11. ASSUME NEW p \in Rows, OnPipelines!Toggle(p) PROVE PipelinesSpins'
  BY <1>11 DEF OnPipelines!Toggle
<1>12. ASSUME NEW p \in Rows, OnPipelines!AskDelete(p) PROVE PipelinesSpins'
  BY <1>12 DEF OnPipelines!AskDelete
<1>13. ASSUME NEW p \in Rows, OnPipelines!Trigger(p) PROVE PipelinesSpins'
  <2> DEFINE k == OnPipelines!Named("trigger", p)
  <2>1. /\ DOMAIN ui' = DOMAIN ui /\ ui'.busy = ui.busy /\ ui'.submitting = ui.submitting /\ ui'.deleting = ui.deleting
        /\ \/ ui'.triggering = ui.triggering /\ net' = net
           \/ ui'.triggering = p /\ DOMAIN net' = DOMAIN net \cup {k}
    BY <1>13 DEF OnPipelines!Trigger, OnPipelines!Closed, OnPipelines!Without, OnPipelines!Restrict, OnPipelines!With, OnPipelines!Sent
  <2>2. CASE ui'.triggering = ui.triggering /\ net' = net
    BY <2>1, <2>2
  <2>3. CASE ui'.triggering = p /\ DOMAIN net' = DOMAIN net \cup {k}
    BY <2>1, <2>3
  <2> QED
    BY <2>1, <2>2, <2>3
<1>14. ASSUME NEW kind, OnPipelines!Create(kind) PROVE PipelinesSpins'
  BY <1>14 DEF OnPipelines!Create, OnPipelines!Sent, OnPipelines!With
<1>15. ASSUME NEW b \in OnPipelines!Bulks, OnPipelines!Starts(b) PROVE PipelinesSpins'
  <2>1. \/ ui' = ui /\ net' = net
        \/ /\ DOMAIN ui' = DOMAIN ui /\ ui'.submitting = ui.submitting /\ ui'.deleting = ui.deleting /\ ui'.triggering = ui.triggering
           /\ ui'.busy = ui.busy \cup {b} /\ DOMAIN net' = DOMAIN net \cup {b}
    BY <1>15 DEF OnPipelines!Starts, OnPipelines!Closed, OnPipelines!Without, OnPipelines!Restrict, OnPipelines!With, OnPipelines!Sent
  <2> QED
    BY <2>1 DEF OnPipelines!Bulks
<1>16. ASSUME NEW f, OnPipelines!SetFilter(f) PROVE PipelinesSpins'
  BY <1>16 DEF OnPipelines!SetFilter
<1>17. CASE OnPipelines!ToggleAll
  BY <1>17 DEF OnPipelines!ToggleAll
<1>18. CASE OnPipelines!OpenCard
  BY <1>18 DEF OnPipelines!OpenCard
<1>19. CASE OnPipelines!LeaveDialog
  BY <1>19 DEF OnPipelines!LeaveDialog
<1>20. CASE OnPipelines!ConfirmDelete
  BY <1>20 DEF OnPipelines!ConfirmDelete, OnPipelines!Sent, OnPipelines!With
<1>21. CASE OnPipelines!SubmitParams
  BY <1>21 DEF OnPipelines!SubmitParams, OnPipelines!Sent, OnPipelines!With
<1>22. CASE OnPipelines!LeaveParams
  BY <1>22 DEF OnPipelines!LeaveParams
<1>23. CASE OnPipelines!ClearSelection
  BY <1>23 DEF OnPipelines!ClearSelection
<1>24. CASE OnPipelines!AskBulkDelete
  BY <1>24 DEF OnPipelines!AskBulkDelete
<1>25. CASE OnPipelines!RunsPollFires
  BY <1>25 DEF OnPipelines!RunsPollFires, OnPipelines!Sent, OnPipelines!With
<1>26. ASSUME NEW k \in DOMAIN net, OnPipelines!Breaks(k) PROVE PipelinesSpins'
  BY <1>26 DEF OnPipelines!Breaks, OnPipelines!Fails
<1> QED
  BY <1>1, <1>2, <1>3, <1>4, <1>5, <1>6, <1>7, <1>8, <1>9, <1>10, <1>11, <1>12, <1>13, <1>14, <1>15, <1>16, <1>17, <1>18, <1>19, <1>20, <1>21, <1>22, <1>23, <1>24, <1>25, <1>26 DEF OnPipelines!Next, OnPipelines!Returns, OnPipelines!Clicks

(* What it shows *)

\* The list is read once, when nothing is selected, and after a single delete.
\* A bulk delete takes its rows off the screen when it is over: those it has
\* deleted so far are gone before the screen shows it.
PipelinesReads == {"list", "reload"}
PipelinesMain == PipelinesReads \cup {"remove", "delete"}
PipelinesExcuses == {"stale rows", "lost remove"}
PipelinesGone ==
  IF "delete" \in DOMAIN net
  THEN LET d == net["delete"] IN (d.arg.all \ d.arg.ids) \cup IF d.stage = "answered" THEN {OnPipelines!FirstOf(d.arg.ids)} ELSE {}
  ELSE {}
PipelinesFailed == "delete" \in DOMAIN net /\ (net["delete"].arg.failed \/ net["delete"].stage = "failed")
PipelinesFresh ==
  noise \cap PipelinesExcuses = {} /\ ~ui.left /\ "remove" \notin DOMAIN net =>
    /\ "delete" \notin DOMAIN net => \A k \in PipelinesReads \cap DOMAIN net : net[k].stage = "answered" => net[k].got = srv.there
    /\ PipelinesReads \cap DOMAIN net = {} /\ ~PipelinesFailed => ui.rows \ PipelinesGone = srv.there

\* A bulk delete has rows to go on with, and is the only bulk operation.
PipelinesDelete ==
  "delete" \in DOMAIN net =>
    /\ "delete" \in ui.busy /\ net["delete"].arg.ids # {}
    /\ DOMAIN net["delete"].arg = {"ids", "all", "failed"}
    /\ net["delete"].arg.ids \subseteq net["delete"].arg.all /\ net["delete"].arg.all \subseteq Rows
PipelinesBrought ==
  /\ \A k \in PipelinesMain \cap DOMAIN net : {"arg", "stage", "got"} \subseteq DOMAIN net[k]
  /\ \A k \in PipelinesReads \cap DOMAIN net : net[k].stage = "answered" => net[k].got \subseteq Rows
  /\ "list" \in DOMAIN net =>
       /\ ui.rows = OnPipelines!NoRows /\ ui.selected = {} /\ ui.dialog = OnPipelines!Nobody
       /\ PipelinesMain \cap DOMAIN net = {"list"}
PipelinesTypes ==
  /\ {"rows", "selected", "busy", "dialog", "deleting", "left"} \subseteq DOMAIN ui /\ "there" \in DOMAIN srv
  /\ ui.dialog = OnPipelines!ToBulk => ui.busy = {}
  /\ OnPipelines!TypeOK
PipelinesShow ==
  PipelinesTypes /\ PipelinesBrought /\ PipelinesDelete /\ PipelinesFresh /\ Paired(net, "remove", "reload", ui.deleting)

\* The first of some rows is one of them.
LEMMA FirstOfRows == ASSUME NEW ids, ids \subseteq Rows, ids # {} PROVE OnPipelines!FirstOf(ids) \in ids
<1>1. \E p \in ids : \A q \in ids : p <= q
  <2>1. ids \subseteq Nat
    BY RowsAssumption
  <2>2. PICK p \in ids : \A q \in ids : <<q, p>> \notin OpToRel(<, Nat)
    BY <2>1, WFMin, NatLessThanWellFounded, Zenon
  <2>3. ASSUME NEW q \in ids PROVE p <= q
    <3>1. p \in Nat /\ q \in Nat
      BY <2>1
    <3>2. ~(q < p)
      BY <2>2, <3>1 DEF OpToRel
    <3> QED
      BY <3>1, <3>2
  <2> QED
    BY <2>3
<1> QED
  BY <1>1 DEF OnPipelines!FirstOf

\* The requests of the page that are about rows are told from the others.
LEMMA PipelinesTold ==
  /\ \A p \in Rows : OnPipelines!Named("trigger", p) \notin PipelinesMain
  /\ \A p \in Rows : p # OnPipelines!Nobody /\ p # OnPipelines!ToBulk
  /\ OnPipelines!Nobody # OnPipelines!ToBulk
<1>1. \A p \in Rows : OnPipelines!Named("trigger", p) \notin PipelinesMain
  BY PipelinesNamed DEF PipelinesNames, PipelinesMain, PipelinesReads
<1>2. \A p \in Rows : p \in Nat /\ p # 0
  BY RowsAssumption
<1>3. \A p \in Rows : p # 0 /\ p # -1
  BY <1>2
<1> QED
  BY <1>1, <1>3 DEF OnPipelines!Nobody, OnPipelines!ToBulk

\* What the page's helpers do to the requests.
LEMMA PipelinesNet ==
  /\ \A requests, k, arg : Sends(requests, OnPipelines!With(requests, k, arg), k)
  /\ \A k \in DOMAIN net : Closes(net, OnPipelines!Closed(k), k)
<1>1. \A requests, k, arg : Sends(requests, OnPipelines!With(requests, k, arg), k)
  BY DEF Sends, OnPipelines!With
<1>2. \A k \in DOMAIN net : Closes(net, OnPipelines!Closed(k), k)
  BY DEF Closes, OnPipelines!Closed, OnPipelines!Without, OnPipelines!Restrict
<1> QED
  BY <1>1, <1>2

\* It holds when the page opens.
LEMMA PipelinesShowInit == OnPipelines!Init => PipelinesShow
<1> SUFFICES ASSUME OnPipelines!Init PROVE PipelinesShow
  OBVIOUS
<1>1. PICK preset : ui = [rows |-> OnPipelines!NoRows, conns |-> FALSE, ran |-> {}, filter |-> preset, selected |-> {}, dialog |-> OnPipelines!Nobody,
             deleting |-> FALSE, triggering |-> OnPipelines!Nobody, asksParams |-> OnPipelines!Nobody, busy |-> {},
             creating |-> FALSE, submitting |-> FALSE, left |-> FALSE]
  BY Zenon DEF OnPipelines!Init
<1>2. PICK conns : srv = [there |-> Rows, runs |-> [p \in Rows |-> 0], saved |-> Rows,
              broken |-> IF conns THEN {} ELSE {1}, params |-> Rows \ {1}, conns |-> conns, created |-> FALSE]
  BY Zenon DEF OnPipelines!Init
<1>3. PipelinesTypes
  BY <1>1, <1>2 DEF PipelinesTypes, OnPipelines!TypeOK
<1>4. net = OnPipelines!With(OnPipelines!With(<<>>, "list", {}), "conns", {})
  BY DEF OnPipelines!Init
<1>5. DOMAIN net = {"list", "conns"} /\ DOMAIN net["list"] = {"arg", "stage", "got"} /\ net["list"].stage = "sent"
  BY <1>4, DOMAIN <<>> = {} DEF OnPipelines!With
<1> QED
  BY <1>1, <1>3, <1>5 DEF PipelinesShow, PipelinesBrought, PipelinesDelete, PipelinesFresh, Paired, PipelinesMain, PipelinesReads

\* The requests that have to do with the list, and the list, are as they were.
PipelinesSame ==
  /\ \A k \in PipelinesMain : (k \in DOMAIN net' <=> k \in DOMAIN net) /\ (k \in DOMAIN net => net'[k] = net[k])
  /\ DOMAIN ui' = DOMAIN ui /\ ui'.rows = ui.rows /\ ui'.deleting = ui.deleting /\ (~ui'.left => ~ui.left)
  /\ "there" \in DOMAIN srv' /\ srv'.there = srv.there /\ noise' = noise

\* Then only the types are left.
LEMMA PipelinesRests ==
  ASSUME PipelinesShow, PipelinesSame, ui'.selected \subseteq Rows, ui'.busy \subseteq OnPipelines!Bulks,
         ui'.dialog \in Rows \cup {OnPipelines!Nobody, OnPipelines!ToBulk},
         ui'.dialog = OnPipelines!ToBulk => ui'.busy = {},
         "delete" \in DOMAIN net => "delete" \in ui'.busy,
         "list" \in DOMAIN net => ui'.selected = {} /\ ui'.dialog = OnPipelines!Nobody
  PROVE  PipelinesShow'
<1>1. PipelinesTypes'
  BY DEF PipelinesShow, PipelinesSame, PipelinesTypes, OnPipelines!TypeOK
<1>2. PipelinesReads \subseteq PipelinesMain /\ "remove" \in PipelinesMain /\ "delete" \in PipelinesMain /\ "list" \in PipelinesMain /\ "reload" \in PipelinesMain
  BY DEF PipelinesMain, PipelinesReads
<1>3. PipelinesMain \cap DOMAIN net' = PipelinesMain \cap DOMAIN net /\ PipelinesReads \cap DOMAIN net' = PipelinesReads \cap DOMAIN net
  BY <1>2 DEF PipelinesSame
<1>4. PipelinesBrought' /\ PipelinesDelete'
  BY <1>2, <1>3 DEF PipelinesShow, PipelinesSame, PipelinesBrought, PipelinesDelete
<1>5. PipelinesGone' = PipelinesGone /\ PipelinesFailed' = PipelinesFailed
  BY <1>2 DEF PipelinesSame, PipelinesGone, PipelinesFailed
<1>6. PipelinesFresh' /\ Paired(net', "remove", "reload", ui'.deleting)
  BY <1>2, <1>3, <1>5 DEF PipelinesShow, PipelinesSame, PipelinesFresh, Paired
<1> QED
  BY <1>1, <1>4, <1>6 DEF PipelinesShow

\* A request that has nothing to do with the list is sent, answered, or taken
\* by the server.
LEMMA PipelinesOthers ==
  ASSUME PipelinesShow, NEW k, k \notin PipelinesMain,
         \/ \E arg : net' = OnPipelines!Sent(k, arg)
         \/ net' = OnPipelines!Closed(k)
         \/ \E s, g : net' = [net EXCEPT ![k].stage = s, ![k].got = g]
         \/ net' = net,
         DOMAIN ui' = DOMAIN ui, ui'.rows = ui.rows, ui'.deleting = ui.deleting, ~ui'.left => ~ui.left,
         "there" \in DOMAIN srv', srv'.there = srv.there, noise' = noise
  PROVE  PipelinesSame
<1>1. \A j \in PipelinesMain : (j \in DOMAIN net' <=> j \in DOMAIN net) /\ (j \in DOMAIN net => net'[j] = net[j])
  <2>1. CASE \E arg : net' = OnPipelines!Sent(k, arg)
    BY <2>1 DEF OnPipelines!Sent, OnPipelines!With
  <2>2. CASE net' = OnPipelines!Closed(k)
    BY <2>2 DEF OnPipelines!Closed, OnPipelines!Without, OnPipelines!Restrict
  <2>3. CASE \E s, g : net' = [net EXCEPT ![k].stage = s, ![k].got = g]
    BY <2>3
  <2> QED
    BY <2>1, <2>2, <2>3
<1> QED
  BY <1>1 DEF PipelinesSame

\* The user's clicks but those that delete.
LEMMA PipelinesClicks ==
  ASSUME PipelinesShow,
         \/ \E p \in Rows : OnPipelines!Toggle(p) \/ OnPipelines!AskDelete(p) \/ OnPipelines!Trigger(p)
         \/ \E kind : OnPipelines!Create(kind)
         \/ \E f : OnPipelines!SetFilter(f)
         \/ OnPipelines!ToggleAll \/ OnPipelines!OpenCard \/ OnPipelines!LeaveDialog \/ OnPipelines!SubmitParams
         \/ OnPipelines!LeaveParams \/ OnPipelines!ClearSelection \/ OnPipelines!AskBulkDelete \/ OnPipelines!RunsPollFires
  PROVE  PipelinesShow'
<1>t. /\ {"rows", "selected", "busy", "dialog", "deleting", "left"} \subseteq DOMAIN ui /\ "there" \in DOMAIN srv
      /\ (ui.dialog = OnPipelines!ToBulk => ui.busy = {}) /\ OnPipelines!TypeOK
      /\ ("delete" \in DOMAIN net => "delete" \in ui.busy)
      /\ ("list" \in DOMAIN net => ui.rows = OnPipelines!NoRows /\ ui.selected = {} /\ ui.dialog = OnPipelines!Nobody)
  BY DEF PipelinesShow, PipelinesTypes, PipelinesDelete, PipelinesBrought
<1>v. OnPipelines!Visible \subseteq Rows /\ ("list" \in DOMAIN net => OnPipelines!Visible = {})
  BY <1>t DEF OnPipelines!Visible, OnPipelines!Shown, OnPipelines!TypeOK
<1> USE DEF OnPipelines!TypeOK
<1>1. ASSUME NEW p \in Rows, OnPipelines!Toggle(p) PROVE PipelinesShow'
  <2>1. PipelinesSame /\ ui'.busy = ui.busy /\ ui'.dialog = ui.dialog /\ ui'.selected \subseteq ui.selected \cup {p} /\ p \in OnPipelines!Visible
    BY <1>t, <1>1 DEF OnPipelines!Toggle, PipelinesSame
  <2> QED
    BY <1>t, <1>v, <2>1, PipelinesRests
<1>2. ASSUME NEW p \in Rows, OnPipelines!AskDelete(p) PROVE PipelinesShow'
  <2>1. PipelinesSame /\ ui'.busy = ui.busy /\ ui'.dialog = p /\ ui'.selected = ui.selected /\ p \in OnPipelines!Visible
    BY <1>t, <1>2 DEF OnPipelines!AskDelete, PipelinesSame
  <2>2. p # OnPipelines!ToBulk
    BY PipelinesTold
  <2> QED
    BY <1>t, <1>v, <2>1, <2>2, PipelinesRests
<1>3. ASSUME NEW p \in Rows, OnPipelines!Trigger(p) PROVE PipelinesShow'
  <2>1. /\ DOMAIN ui' = DOMAIN ui /\ ui'.rows = ui.rows /\ ui'.deleting = ui.deleting /\ ui'.left = ui.left
        /\ srv' = srv /\ noise' = noise
        /\ ui'.busy = ui.busy /\ ui'.dialog = ui.dialog /\ ui'.selected = ui.selected
        /\ (net' = net \/ net' = OnPipelines!Sent(OnPipelines!Named("trigger", p), {p}))
    BY <1>t, <1>3 DEF OnPipelines!Trigger
  <2>2. OnPipelines!Named("trigger", p) \notin PipelinesMain
    BY PipelinesTold
  <2>3. PipelinesSame
    BY <1>t, <2>1, <2>2, PipelinesOthers
  <2> QED
    BY <1>t, <2>1, <2>3, PipelinesRests
<1>4. ASSUME NEW kind, OnPipelines!Create(kind) PROVE PipelinesShow'
  <2>1. /\ DOMAIN ui' = DOMAIN ui /\ ui'.rows = ui.rows /\ ui'.deleting = ui.deleting /\ ui'.left = ui.left
        /\ srv' = srv /\ noise' = noise
        /\ ui'.busy = ui.busy /\ ui'.dialog = ui.dialog /\ ui'.selected = ui.selected
        /\ (net' = net \/ net' = OnPipelines!Sent("create", {}))
    BY <1>t, <1>4 DEF OnPipelines!Create
  <2>2. "create" \notin PipelinesMain
    BY DEF PipelinesMain, PipelinesReads
  <2>3. PipelinesSame
    BY <1>t, <2>1, <2>2, PipelinesOthers
  <2> QED
    BY <1>t, <2>1, <2>3, PipelinesRests
<1>5. ASSUME NEW f, OnPipelines!SetFilter(f) PROVE PipelinesShow'
  <2>1. PipelinesSame /\ ui'.busy = ui.busy /\ ui'.dialog = ui.dialog /\ ui'.selected = ui.selected
    BY <1>t, <1>5 DEF OnPipelines!SetFilter, PipelinesSame
  <2> QED
    BY <1>t, <2>1, PipelinesRests
<1>6. CASE OnPipelines!ToggleAll
  <2>1. PipelinesSame /\ ui'.busy = ui.busy /\ ui'.dialog = ui.dialog /\ ui'.selected \subseteq ui.selected \cup OnPipelines!Visible
    BY <1>t, <1>6 DEF OnPipelines!ToggleAll, PipelinesSame
  <2> QED
    BY <1>t, <1>v, <2>1, PipelinesRests
<1>7. CASE OnPipelines!OpenCard \/ OnPipelines!LeaveParams
  <2>1. PipelinesSame /\ ui'.busy = ui.busy /\ ui'.dialog = ui.dialog /\ ui'.selected = ui.selected
    BY <1>t, <1>7 DEF OnPipelines!OpenCard, OnPipelines!LeaveParams, PipelinesSame
  <2> QED
    BY <1>t, <2>1, PipelinesRests
<1>8. CASE OnPipelines!LeaveDialog
  <2>1. PipelinesSame /\ ui'.busy = ui.busy /\ ui'.dialog = OnPipelines!Nobody /\ ui'.selected = ui.selected
    BY <1>t, <1>8 DEF OnPipelines!LeaveDialog, PipelinesSame
  <2> QED
    BY <1>t, <2>1, PipelinesTold, PipelinesRests
<1>9. ASSUME NEW k \in {"params", "runs"}, NEW arg, net' = OnPipelines!Sent(k, arg), ui' = ui, srv' = srv, noise' = noise PROVE PipelinesShow'
  <2>1. k \notin PipelinesMain
    BY DEF PipelinesMain, PipelinesReads
  <2>2. PipelinesSame
    BY <1>t, <1>9, <2>1, PipelinesOthers
  <2> QED
    BY <1>t, <1>9, <2>2, PipelinesRests
<1>10. CASE OnPipelines!ClearSelection
  <2>1. PipelinesSame /\ ui'.busy = ui.busy /\ ui'.dialog = ui.dialog /\ ui'.selected = {}
    BY <1>t, <1>10 DEF OnPipelines!ClearSelection, PipelinesSame
  <2> QED
    BY <1>t, <2>1, PipelinesRests
<1>11. CASE OnPipelines!AskBulkDelete
  <2>1. PipelinesSame /\ ui'.busy = {} /\ ui.busy = {} /\ ui'.dialog = OnPipelines!ToBulk /\ ui'.selected = ui.selected /\ ui.selected # {}
    BY <1>t, <1>11 DEF OnPipelines!AskBulkDelete, OnPipelines!Idle, PipelinesSame
  <2> QED
    BY <1>t, <2>1, PipelinesRests
<1>12. CASE OnPipelines!SubmitParams \/ OnPipelines!RunsPollFires
  BY <1>9, <1>12 DEF OnPipelines!SubmitParams, OnPipelines!RunsPollFires
<1> QED
  BY <1>1, <1>2, <1>3, <1>4, <1>5, <1>6, <1>7, <1>8, <1>10, <1>11, <1>12

\* One row is to be deleted.
LEMMA PipelinesConfirm == PipelinesShow /\ OnPipelines!ConfirmDelete => PipelinesShow'
<1> SUFFICES ASSUME PipelinesShow, OnPipelines!ConfirmDelete PROVE PipelinesShow'
  OBVIOUS
<1>1. Sends(net, net', "remove")
  BY PipelinesNet DEF OnPipelines!ConfirmDelete, OnPipelines!Sent
<1>2. ui' = [ui EXCEPT !.deleting = TRUE] /\ srv' = srv /\ noise' = noise /\ ~ui.deleting /\ ui.dialog \in Rows
  BY DEF OnPipelines!ConfirmDelete
<1>3. PipelinesTypes'
  BY <1>2 DEF PipelinesShow, PipelinesTypes, OnPipelines!TypeOK
<1>4. "list" \notin DOMAIN net
  BY <1>2, PipelinesTold DEF PipelinesShow, PipelinesBrought
<1>5. PipelinesBrought'
  BY <1>1, <1>4 DEF PipelinesShow, Sends, PipelinesBrought, PipelinesMain, PipelinesReads
<1>6. PipelinesDelete'
  BY <1>1, <1>2 DEF PipelinesShow, Sends, PipelinesDelete, PipelinesTypes
<1>7. PipelinesFresh'
  BY <1>1 DEF Sends, PipelinesFresh
<1>8. Paired(net', "remove", "reload", ui'.deleting)
  BY <1>1, <1>2 DEF PipelinesShow, Sends, Paired, PipelinesTypes
<1> QED
  BY <1>3, <1>5, <1>6, <1>7, <1>8 DEF PipelinesShow

\* A bulk operation starts.
LEMMA PipelinesStarts == ASSUME PipelinesShow, NEW b \in OnPipelines!Bulks, OnPipelines!Starts(b) PROVE PipelinesShow'
<1>t. /\ {"rows", "selected", "busy", "dialog", "deleting", "left"} \subseteq DOMAIN ui /\ "there" \in DOMAIN srv
      /\ (ui.dialog = OnPipelines!ToBulk => ui.busy = {}) /\ OnPipelines!TypeOK
      /\ ("delete" \in DOMAIN net => "delete" \in ui.busy)
      /\ ("list" \in DOMAIN net => ui.rows = OnPipelines!NoRows /\ ui.selected = {} /\ ui.dialog = OnPipelines!Nobody)
  BY DEF PipelinesShow, PipelinesTypes, PipelinesDelete, PipelinesBrought
<1> DEFINE ids == IF b = "run" THEN {p \in ui.selected : p \in OnPipelines!Shown /\ OnPipelines!Runnable(p)} ELSE ui.selected
           arg == [ids |-> ids, all |-> ui.selected, failed |-> FALSE]
<1>0. /\ srv' = srv
      /\ noise' = IF b = "delete" /\ ("reload" \in DOMAIN net \/ "list" \in DOMAIN net) THEN noise \cup {"stale rows"} ELSE noise
      /\ IF ids = {} THEN ui' = ui /\ net' = net
         ELSE ui' = [ui EXCEPT !.busy = @ \cup {b}, !.dialog = OnPipelines!Nobody] /\ net' = OnPipelines!Sent(b, arg)
      /\ IF b = "delete" THEN ui.dialog = OnPipelines!ToBulk /\ ui.selected # {} ELSE ui.busy = {} /\ ui.selected # {}
  BY DEF OnPipelines!Starts, OnPipelines!Out, OnPipelines!Idle
<1>1. CASE b # "delete"
  <2>1. b \notin PipelinesMain
    BY <1>1 DEF OnPipelines!Bulks, PipelinesMain, PipelinesReads
  <2>2. PipelinesSame
    BY <1>t, <1>0, <1>1, <2>1, PipelinesOthers
  <2>3. /\ ui'.selected = ui.selected /\ ui'.busy \in {ui.busy, ui.busy \cup {b}} /\ ui'.dialog \in {ui.dialog, OnPipelines!Nobody}
        /\ ui'.busy = ui.busy \/ ui'.dialog = OnPipelines!Nobody
    BY <1>t, <1>0
  <2> QED
    BY <1>t, <2>2, <2>3, PipelinesTold, PipelinesRests DEF OnPipelines!TypeOK
<1>2. CASE b = "delete"
  <2>1. ids = ui.selected /\ ids # {} /\ ui.busy = {} /\ "list" \notin DOMAIN net /\ "delete" \notin DOMAIN net
    BY <1>t, <1>0, <1>2
  <2>2. Sends(net, net', "delete") /\ net'["delete"].arg = arg
    <3>1. net' = OnPipelines!With(net, "delete", arg)
      BY <1>0, <1>2, <2>1 DEF OnPipelines!Sent
    <3>2. net'["delete"].arg = arg
      BY <3>1 DEF OnPipelines!With
    <3> QED
      BY <3>1, <3>2, PipelinesNet
  <2>3. ui' = [ui EXCEPT !.busy = {"delete"}, !.dialog = OnPipelines!Nobody]
    BY <1>0, <1>2, <2>1
  <2>4. PipelinesTypes'
    BY <1>0, <1>2, <1>t, <2>3, PipelinesTold DEF PipelinesTypes, OnPipelines!TypeOK
  <2>5. PipelinesBrought'
    BY <2>1, <2>2 DEF PipelinesShow, Sends, PipelinesBrought, PipelinesMain, PipelinesReads
  <2>6. PipelinesDelete'
    BY <1>t, <2>1, <2>2, <2>3 DEF PipelinesDelete, OnPipelines!TypeOK
  <2>7. PipelinesFresh'
    <3> SUFFICES ASSUME noise' \cap PipelinesExcuses = {}, ~ui'.left, "remove" \notin DOMAIN net' PROVE ui'.rows \ PipelinesGone' = srv'.there
      BY <2>2 DEF Sends, PipelinesFresh
    <3>1. noise' = noise /\ PipelinesReads \cap DOMAIN net = {} /\ ~ui.left /\ "remove" \notin DOMAIN net
      BY <1>t, <1>0, <1>2, <2>1, <2>2, <2>3, ZenonT(60) DEF Sends, PipelinesExcuses, PipelinesReads
    <3>2. ui.rows \ PipelinesGone = srv.there /\ PipelinesGone = {}
      BY <2>1, <3>1 DEF PipelinesShow, PipelinesFresh, PipelinesGone, PipelinesFailed
    <3>3. PipelinesGone' = {}
      BY <2>1, <2>2 DEF Sends, PipelinesGone
    <3> QED
      BY <1>t, <1>0, <2>3, <3>2, <3>3
  <2>8. Paired(net', "remove", "reload", ui'.deleting)
    BY <1>t, <2>2, <2>3 DEF PipelinesShow, Sends, Paired
  <2> QED
    BY <2>4, <2>5, <2>6, <2>7, <2>8 DEF PipelinesShow
<1> QED
  BY <1>1, <1>2

\* A bulk operation goes on to the next row, or ends.
LEMMA PipelinesContinues ==
  ASSUME PipelinesShow, ~ui.left, NEW b \in OnPipelines!Bulks, OnPipelines!Continues(b)
  PROVE  PipelinesShow'
<1>t. /\ {"rows", "selected", "busy", "dialog", "deleting", "left"} \subseteq DOMAIN ui /\ "there" \in DOMAIN srv
      /\ (ui.dialog = OnPipelines!ToBulk => ui.busy = {}) /\ OnPipelines!TypeOK
      /\ ("delete" \in DOMAIN net => "delete" \in ui.busy)
      /\ ("list" \in DOMAIN net => ui.rows = OnPipelines!NoRows /\ ui.selected = {} /\ ui.dialog = OnPipelines!Nobody)
  BY DEF PipelinesShow, PipelinesTypes, PipelinesDelete, PipelinesBrought
<1> DEFINE arg == net[b].arg
           p == OnPipelines!FirstOf(arg.ids)
           rest == arg.ids \ {p}
           failed == arg.failed \/ OnPipelines!Rejected(b)
           more == [arg EXCEPT !.ids = rest, !.failed = failed]
<1>0. /\ srv' = srv /\ b \in DOMAIN net /\ net[b].stage \in {"answered", "failed"}
      /\ IF rest # {} THEN net' = OnPipelines!Sent(b, more) /\ ui' = ui /\ noise' = noise
         ELSE /\ ui' = IF b = "delete" THEN [ui EXCEPT !.busy = @ \ {b}, !.selected = {}, !.rows = @ \ arg.all] ELSE [ui EXCEPT !.busy = @ \ {b}]
              /\ net' = OnPipelines!Closed(b)
              /\ noise' = IF b = "delete" /\ (failed \/ "reload" \in DOMAIN net) THEN noise \cup {"stale rows"} ELSE noise
  BY DEF OnPipelines!Continues, OnPipelines!Returned, OnPipelines!Answered, OnPipelines!Rejected, OnPipelines!Out
<1>1. CASE b # "delete"
  <2>1. b \notin PipelinesMain
    BY <1>1 DEF OnPipelines!Bulks, PipelinesMain, PipelinesReads
  <2> HIDE DEF more, rest
  <2>2. PipelinesSame
    BY <1>t, <1>0, <1>1, <2>1, PipelinesOthers
  <2>3. ui'.selected = ui.selected /\ ui'.dialog = ui.dialog /\ ui'.busy \in {ui.busy, ui.busy \ {b}}
    BY <1>t, <1>0, <1>1
  <2> QED
    BY <1>t, <1>1, <2>2, <2>3, PipelinesRests DEF OnPipelines!TypeOK
<1>2. CASE b = "delete"
  <2>0. /\ DOMAIN arg = {"ids", "all", "failed"} /\ arg.ids # {} /\ arg.ids \subseteq arg.all /\ arg.all \subseteq Rows
        /\ "list" \notin DOMAIN net /\ "stage" \in DOMAIN net[b]
    BY <1>0, <1>2 DEF PipelinesShow, PipelinesDelete, PipelinesBrought, PipelinesMain
  <2>p. p \in arg.ids
    BY <2>0, FirstOfRows
  <2>g. PipelinesGone = (arg.all \ arg.ids) \cup (IF net[b].stage = "answered" THEN {p} ELSE {})
    BY <1>0, <1>2 DEF PipelinesGone
  <2>f. failed <=> PipelinesFailed
    BY <1>0, <1>2 DEF PipelinesFailed, OnPipelines!Rejected, OnPipelines!Out
  <2>1. CASE rest # {}
    <3>1. DOMAIN more = {"ids", "all", "failed"} /\ more.ids = rest /\ more.all = arg.all /\ more.failed = failed
      BY <2>0
    <3>2. net' = OnPipelines!With(net, "delete", more) /\ ui' = ui /\ noise' = noise
      BY <1>0, <1>2, <2>1 DEF OnPipelines!Sent
    <3>3. Sends(net, net', "delete") /\ net'["delete"].arg = more
      <4> HIDE DEF more
      <4> QED
        BY <3>2, PipelinesNet DEF OnPipelines!With
    <3> HIDE DEF more, failed
    <3>4. PipelinesTypes'
      BY <1>0, <3>2 DEF PipelinesShow, PipelinesTypes, OnPipelines!TypeOK
    <3>5. PipelinesBrought'
      BY <2>0, <3>3 DEF PipelinesShow, Sends, PipelinesBrought, PipelinesMain, PipelinesReads
    <3>6. PipelinesDelete'
      BY <1>0, <1>2, <1>t, <2>0, <2>1, <3>1, <3>2, <3>3 DEF PipelinesDelete
    <3>7. PipelinesGone' = arg.all \ rest
      BY <3>1, <3>3 DEF Sends, PipelinesGone
    <3>8. PipelinesFailed' <=> failed
      BY <3>1, <3>3 DEF Sends, PipelinesFailed
    <3>9. net[b].stage = "answered" => arg.all \ rest = PipelinesGone
      BY <2>0, <2>p, <2>g
    <3>10. net[b].stage # "answered" => PipelinesFailed
      BY <1>0, <1>2 DEF PipelinesFailed
    <3>11. PipelinesReads \cap DOMAIN net' = PipelinesReads \cap DOMAIN net /\ ("remove" \in DOMAIN net' <=> "remove" \in DOMAIN net) /\ "delete" \in DOMAIN net'
      BY <1>0, <1>2, <3>3 DEF Sends, PipelinesReads
    <3>12. PipelinesFresh'
      BY <1>0, <2>f, <3>2, <3>7, <3>8, <3>9, <3>10, <3>11 DEF PipelinesShow, PipelinesFresh
    <3>13. Paired(net', "remove", "reload", ui'.deleting)
      BY <3>2, <3>3 DEF PipelinesShow, Sends, Paired
    <3> QED
      BY <3>4, <3>5, <3>6, <3>12, <3>13 DEF PipelinesShow
  <2>2. CASE rest = {}
    <3>1. /\ ui' = [ui EXCEPT !.busy = @ \ {b}, !.selected = {}, !.rows = @ \ arg.all] /\ net' = OnPipelines!Closed(b)
          /\ noise' = IF failed \/ "reload" \in DOMAIN net THEN noise \cup {"stale rows"} ELSE noise
      BY <1>0, <1>2, <2>2
    <3>2. Closes(net, net', "delete")
      BY <1>0, <1>2, <3>1, PipelinesNet
    <3>3. DOMAIN ui' = DOMAIN ui /\ ui'.rows = ui.rows \ arg.all /\ ui'.selected = {} /\ ui'.dialog = ui.dialog /\ ui'.deleting = ui.deleting /\ ui'.left = ui.left
          /\ ui'.busy = ui.busy \ {"delete"}
      BY <1>2, <1>t, <3>1
    <3> HIDE DEF failed
    <3>4. PipelinesTypes'
      BY <1>0, <1>t, <3>3 DEF PipelinesTypes, OnPipelines!TypeOK
    <3>5. PipelinesBrought'
      BY <2>0, <3>2 DEF PipelinesShow, Closes, PipelinesBrought, PipelinesMain, PipelinesReads
    <3>6. PipelinesDelete'
      BY <3>2 DEF Closes, PipelinesDelete
    <3>7. PipelinesFresh'
      <4> SUFFICES ASSUME noise' \cap PipelinesExcuses = {}, ~ui'.left, "remove" \notin DOMAIN net' PROVE ui'.rows \ PipelinesGone' = srv'.there /\ PipelinesReads \cap DOMAIN net' = {}
        BY DEF PipelinesFresh
      <4>1. noise' = noise /\ ~failed /\ PipelinesReads \cap DOMAIN net = {} /\ "remove" \notin DOMAIN net
        BY <2>0, <3>1, <3>2 DEF Closes, PipelinesExcuses, PipelinesReads
      <4>2. ui.rows \ PipelinesGone = srv.there /\ net[b].stage = "answered"
        BY <1>0, <1>2, <2>f, <3>3, <4>1 DEF PipelinesShow, PipelinesFresh, PipelinesFailed
      <4>3. PipelinesGone = arg.all
        BY <2>0, <2>p, <2>g, <2>2, <4>2
      <4>4. PipelinesGone' = {}
        BY <3>2 DEF Closes, PipelinesGone
      <4> QED
        BY <1>0, <3>2, <3>3, <4>1, <4>2, <4>3, <4>4 DEF Closes
    <3>8. Paired(net', "remove", "reload", ui'.deleting)
      BY <3>2, <3>3 DEF PipelinesShow, Closes, Paired
    <3> QED
      BY <3>4, <3>5, <3>6, <3>7, <3>8 DEF PipelinesShow
  <2> QED
    BY <2>1, <2>2
<1> QED
  BY <1>1, <1>2

\* The server takes a request: what that does to the requests.
LEMMA PipelinesTaken ==
  ASSUME PipelinesShow, NEW k \in PipelinesMain, NEW state, NEW answer, OnPipelines!Handles(k, state, answer)
  PROVE  /\ Turns(net, net', k) /\ net[k].stage = "sent" /\ net'[k].stage = "answered" /\ net'[k].got = answer /\ net'[k].arg = net[k].arg
         /\ srv' = state /\ ui' = ui /\ noise' = noise
  BY DEF Turns, OnPipelines!Handles, OnPipelines!Out, PipelinesShow, PipelinesBrought

\* It answers a read with what is there; a delete of one row is made good by the
\* read that follows, one of many by what is taken off the screen.
LEMMA PipelinesServe == PipelinesShow /\ OnPipelines!Serve => PipelinesShow'
<1> SUFFICES ASSUME PipelinesShow, OnPipelines!Serve PROVE PipelinesShow'
  OBVIOUS
<1>t. /\ {"rows", "selected", "busy", "dialog", "deleting", "left"} \subseteq DOMAIN ui /\ "there" \in DOMAIN srv
      /\ (ui.dialog = OnPipelines!ToBulk => ui.busy = {}) /\ OnPipelines!TypeOK
      /\ ("delete" \in DOMAIN net => "delete" \in ui.busy)
      /\ ("list" \in DOMAIN net => ui.rows = OnPipelines!NoRows /\ ui.selected = {} /\ ui.dialog = OnPipelines!Nobody)
  BY DEF PipelinesShow, PipelinesTypes, PipelinesDelete, PipelinesBrought
<1>m. PipelinesReads \subseteq PipelinesMain /\ "remove" \in PipelinesMain /\ "delete" \in PipelinesMain /\ "remove" \notin PipelinesReads /\ "delete" \notin PipelinesReads
  BY DEF PipelinesMain, PipelinesReads
<1>1. ASSUME NEW k \in PipelinesReads, OnPipelines!Handles(k, srv, srv.there) PROVE PipelinesShow'
  <2>1. /\ Turns(net, net', k) /\ net[k].stage = "sent" /\ net'[k].stage = "answered" /\ net'[k].got = srv.there
        /\ srv' = srv /\ ui' = ui /\ noise' = noise
    BY <1>1, <1>m, PipelinesTaken
  <2>2. PipelinesTypes' /\ PipelinesDelete' /\ Paired(net', "remove", "reload", ui'.deleting)
    BY <1>m, <2>1 DEF PipelinesShow, Turns, PipelinesTypes, PipelinesDelete, Paired, OnPipelines!TypeOK
  <2>3. PipelinesBrought'
    BY <1>t, <1>m, <2>1 DEF PipelinesShow, Turns, PipelinesBrought, OnPipelines!TypeOK
  <2>4. PipelinesGone' = PipelinesGone /\ PipelinesFailed' = PipelinesFailed
    BY <1>m, <2>1 DEF Turns, PipelinesGone, PipelinesFailed
  <2>5. PipelinesFresh'
    BY <1>m, <2>1, <2>4 DEF PipelinesShow, Turns, PipelinesFresh
  <2> QED
    BY <2>2, <2>3, <2>5 DEF PipelinesShow
<1>2. ASSUME NEW k, k \notin PipelinesMain, NEW state, NEW answer, OnPipelines!Handles(k, state, answer),
             "there" \in DOMAIN state, state.there = srv.there
      PROVE  PipelinesShow'
  <2>1. /\ ui' = ui /\ srv' = state /\ noise' = noise
        /\ \E s, g : net' = [net EXCEPT ![k].stage = s, ![k].got = g]
    BY <1>2 DEF OnPipelines!Handles
  <2>2. PipelinesSame
    BY <1>2, <2>1, PipelinesOthers
  <2> QED
    BY <1>t, <2>1, <2>2, PipelinesRests DEF OnPipelines!TypeOK
<1>3. ASSUME NEW p, OnPipelines!Handles("remove", [srv EXCEPT !.there = @ \ {p}], {}) PROVE PipelinesShow'
  <2> DEFINE state == [srv EXCEPT !.there = @ \ {p}]
  <2>1. "there" \in DOMAIN state /\ state.there \subseteq srv.there /\ OnPipelines!Handles("remove", state, {})
    BY <1>t, <1>3
  <2> HIDE DEF state
  <2>2. Turns(net, net', "remove") /\ srv' = state /\ ui' = ui /\ noise' = noise
    BY <1>m, <2>1, PipelinesTaken
  <2>3. PipelinesTypes' /\ PipelinesDelete' /\ Paired(net', "remove", "reload", ui'.deleting)
    BY <1>m, <2>1, <2>2 DEF PipelinesShow, Turns, PipelinesTypes, PipelinesDelete, Paired, OnPipelines!TypeOK
  <2>4. PipelinesBrought'
    BY <1>m, <2>2 DEF PipelinesShow, Turns, PipelinesBrought
  <2>5. PipelinesFresh'
    BY <2>2 DEF Turns, PipelinesFresh
  <2> QED
    BY <2>3, <2>4, <2>5 DEF PipelinesShow
<1>4. ASSUME "delete" \in DOMAIN net, NEW p, p = OnPipelines!FirstOf(net["delete"].arg.ids),
             OnPipelines!Handles("delete", [srv EXCEPT !.there = @ \ {p}], {})
      PROVE  PipelinesShow'
  <2> DEFINE state == [srv EXCEPT !.there = @ \ {p}]
  <2>1. "there" \in DOMAIN state /\ state.there = srv.there \ {p} /\ OnPipelines!Handles("delete", state, {})
    BY <1>t, <1>4
  <2> HIDE DEF state
  <2>2. /\ Turns(net, net', "delete") /\ net["delete"].stage = "sent" /\ net'["delete"].stage = "answered" /\ net'["delete"].arg = net["delete"].arg
        /\ srv' = state /\ ui' = ui /\ noise' = noise
    BY <1>m, <2>1, PipelinesTaken
  <2>3. PipelinesTypes' /\ PipelinesDelete' /\ Paired(net', "remove", "reload", ui'.deleting)
    BY <1>m, <2>1, <2>2 DEF PipelinesShow, Turns, PipelinesTypes, PipelinesDelete, Paired, OnPipelines!TypeOK
  <2>4. PipelinesBrought'
    BY <1>m, <2>2 DEF PipelinesShow, Turns, PipelinesBrought
  <2>5. PipelinesGone' = PipelinesGone \cup {p} /\ PipelinesFailed' = PipelinesFailed
    BY <1>4, <2>2 DEF Turns, PipelinesGone, PipelinesFailed
  <2>6. PipelinesFresh'
    BY <1>4, <2>1, <2>2, <2>5 DEF PipelinesShow, Turns, PipelinesFresh
  <2> QED
    BY <2>3, <2>4, <2>6 DEF PipelinesShow
<1>5. ASSUME NEW k \in {OnPipelines!Named("trigger", p) : p \in Rows} \cup {"params", "run"}, NEW q, NEW n,
             OnPipelines!Handles(k, [srv EXCEPT !.runs[q] = n], {})
      PROVE  PipelinesShow'
  <2> DEFINE state == [srv EXCEPT !.runs[q] = n]
  <2>1. "there" \in DOMAIN state /\ state.there = srv.there /\ OnPipelines!Handles(k, state, {})
    BY <1>t, <1>5
  <2> HIDE DEF state
  <2>2. k \notin PipelinesMain
    <3>1. "params" \notin PipelinesMain /\ "run" \notin PipelinesMain
      BY DEF PipelinesMain, PipelinesReads
    <3> QED
      BY <3>1, PipelinesTold
  <2> QED
    BY <1>2, <2>1, <2>2
<1>6. ASSUME NEW k \in {"conns", "dry", "runs"}, NEW answer, OnPipelines!Handles(k, srv, answer) PROVE PipelinesShow'
  <2>1. k \notin PipelinesMain
    BY DEF PipelinesMain, PipelinesReads
  <2> QED
    BY <1>t, <1>2, <1>6, <2>1
<1>7. CASE OnPipelines!Handles("create", [srv EXCEPT !.created = TRUE], {})
  <2> DEFINE state == [srv EXCEPT !.created = TRUE]
  <2>1. "there" \in DOMAIN state /\ state.there = srv.there /\ OnPipelines!Handles("create", state, {})
    BY <1>t, <1>7
  <2> HIDE DEF state
  <2>2. "create" \notin PipelinesMain
    BY DEF PipelinesMain, PipelinesReads
  <2> QED
    BY <1>2, <2>1, <2>2
<1>8. ASSUME OnPipelines!Out("remove"), OnPipelines!Handles("remove", [srv EXCEPT !.there = @ \ {OnPipelines!Target("remove")}], {}) PROVE PipelinesShow'
  BY <1>3, <1>8
<1>9. ASSUME OnPipelines!Out("delete"), OnPipelines!Handles("delete", [srv EXCEPT !.there = @ \ {OnPipelines!Target("delete")}], {}) PROVE PipelinesShow'
  <2>1. OnPipelines!Target("delete") = OnPipelines!FirstOf(net["delete"].arg.ids)
    BY DEF OnPipelines!Target, OnPipelines!Bulks
  <2> QED
    BY <1>4, <1>9, <2>1 DEF OnPipelines!Out
<1>10. ASSUME NEW k \in {"list", "reload"}, OnPipelines!Handles(k, srv, srv.there) PROVE PipelinesShow'
  BY <1>1, <1>10 DEF PipelinesReads
<1> QED
  BY <1>5, <1>6, <1>7, <1>8, <1>9, <1>10 DEF OnPipelines!Serve

\* An answer that has nothing to do with the list.
LEMMA PipelinesBacks ==
  ASSUME PipelinesShow, ~ui.left,
         \/ OnPipelines!ConnsBack \/ OnPipelines!RunsBack \/ OnPipelines!CreateBack \/ OnPipelines!ParamsBack
         \/ \E p \in Rows : OnPipelines!TriggerBack(p)
  PROVE  PipelinesShow'
<1>t. /\ {"rows", "selected", "busy", "dialog", "deleting", "left"} \subseteq DOMAIN ui /\ "there" \in DOMAIN srv
      /\ (ui.dialog = OnPipelines!ToBulk => ui.busy = {}) /\ OnPipelines!TypeOK
      /\ ("delete" \in DOMAIN net => "delete" \in ui.busy)
      /\ ("list" \in DOMAIN net => ui.rows = OnPipelines!NoRows /\ ui.selected = {} /\ ui.dialog = OnPipelines!Nobody)
  BY DEF PipelinesShow, PipelinesTypes, PipelinesDelete, PipelinesBrought
<1>1. PICK k : /\ k \in {"conns", "runs", "create", "params"} \cup {OnPipelines!Named("trigger", p) : p \in Rows}
               /\ net' = OnPipelines!Closed(k) /\ srv' = srv /\ noise' = noise
               /\ DOMAIN ui' = DOMAIN ui /\ ui'.rows = ui.rows /\ ui'.deleting = ui.deleting
               /\ ui'.busy = ui.busy /\ ui'.dialog = ui.dialog /\ ui'.selected = ui.selected
  <2>1. CASE OnPipelines!ConnsBack
    <3> WITNESS "conns"
    <3> QED
      BY <1>t, <2>1 DEF OnPipelines!ConnsBack
  <2>2. CASE OnPipelines!RunsBack
    <3> WITNESS "runs"
    <3> QED
      BY <1>t, <2>2 DEF OnPipelines!RunsBack
  <2>3. CASE OnPipelines!CreateBack
    <3> WITNESS "create"
    <3> QED
      BY <1>t, <2>3 DEF OnPipelines!CreateBack
  <2>4. CASE OnPipelines!ParamsBack
    <3> WITNESS "params"
    <3> QED
      BY <1>t, <2>4 DEF OnPipelines!ParamsBack
  <2>5. ASSUME NEW p \in Rows, OnPipelines!TriggerBack(p)
        PROVE  \E k : /\ k \in {"conns", "runs", "create", "params"} \cup {OnPipelines!Named("trigger", q) : q \in Rows}
                      /\ net' = OnPipelines!Closed(k) /\ srv' = srv /\ noise' = noise
                      /\ DOMAIN ui' = DOMAIN ui /\ ui'.rows = ui.rows /\ ui'.deleting = ui.deleting
                      /\ ui'.busy = ui.busy /\ ui'.dialog = ui.dialog /\ ui'.selected = ui.selected
    <3> WITNESS OnPipelines!Named("trigger", p)
    <3> QED
      BY <1>t, <2>5 DEF OnPipelines!TriggerBack
  <2> QED
    BY <2>1, <2>2, <2>3, <2>4, <2>5
<1>2. k \notin PipelinesMain
  <2>1. {"conns", "runs", "create", "params"} \cap PipelinesMain = {}
    BY DEF PipelinesMain, PipelinesReads
  <2> QED
    BY <1>1, <2>1, PipelinesTold
<1>3. PipelinesSame
  BY <1>t, <1>1, <1>2, PipelinesOthers
<1> QED
  BY <1>t, <1>1, <1>3, PipelinesRests DEF OnPipelines!TypeOK

\* The list is read.
LEMMA PipelinesReadBack ==
  ASSUME PipelinesShow, ~ui.left, OnPipelines!ListBack \/ OnPipelines!ReloadBack
  PROVE  PipelinesShow'
<1>t. /\ {"rows", "selected", "busy", "dialog", "deleting", "left"} \subseteq DOMAIN ui /\ "there" \in DOMAIN srv
      /\ (ui.dialog = OnPipelines!ToBulk => ui.busy = {}) /\ OnPipelines!TypeOK
      /\ ("delete" \in DOMAIN net => "delete" \in ui.busy)
      /\ ("list" \in DOMAIN net => PipelinesMain \cap DOMAIN net = {"list"})
  BY DEF PipelinesShow, PipelinesTypes, PipelinesDelete, PipelinesBrought
<1>1. PICK k \in PipelinesReads : (k = "list" /\ OnPipelines!ListBack) \/ (k = "reload" /\ OnPipelines!ReloadBack)
  BY DEF PipelinesReads
<1>2. /\ k \in DOMAIN net /\ Closes(net, net', k) /\ srv' = srv /\ noise \subseteq noise'
      /\ net[k].stage = "answered" \/ "stale rows" \in noise'
      /\ k = "reload" /\ "delete" \in ui.busy => "stale rows" \in noise'
  BY <1>1, PipelinesNet DEF OnPipelines!ListBack, OnPipelines!ReloadBack, OnPipelines!Returned, OnPipelines!Answered, OnPipelines!Rejected, OnPipelines!Out
<1>3. /\ DOMAIN ui' = DOMAIN ui /\ ui'.selected = ui.selected /\ ui'.busy = ui.busy /\ ui'.dialog = ui.dialog /\ ui'.left = ui.left
      /\ IF k = "reload" THEN ui'.deleting = FALSE ELSE ui'.deleting = ui.deleting
      /\ net[k].stage = "answered" => ui'.rows = net[k].got
      /\ net[k].stage # "answered" => ui'.rows \in {{}, ui.rows}
  BY <1>1, <1>2, <1>t DEF OnPipelines!ListBack, OnPipelines!ReloadBack, OnPipelines!Answered, OnPipelines!Out
<1>4. PipelinesTypes'
  BY <1>t, <1>2, <1>3 DEF PipelinesShow, PipelinesTypes, PipelinesBrought, OnPipelines!TypeOK
<1>5. "list" \notin DOMAIN net' /\ PipelinesReads \cap DOMAIN net' = {}
  BY <1>1, <1>2, <1>t DEF Closes, PipelinesReads, PipelinesMain
<1>a. \A j \in PipelinesMain : j \in DOMAIN net' => j \in DOMAIN net /\ net'[j] = net[j]
  BY <1>2 DEF Closes
<1>b. PipelinesBrought'
  BY <1>5, <1>a DEF PipelinesShow, PipelinesBrought
<1>c. "delete" \in PipelinesMain /\ k # "delete"
  BY <1>1 DEF PipelinesMain
<1>d. PipelinesDelete'
  BY <1>3, <1>a, <1>c DEF PipelinesShow, PipelinesDelete
<1>6. PipelinesBrought' /\ PipelinesDelete'
  BY <1>b, <1>d
<1>7. Paired(net', "remove", "reload", ui'.deleting)
  BY <1>1, <1>2, <1>3, <1>5 DEF PipelinesShow, Closes, Paired, PipelinesReads
<1>8. PipelinesFresh'
  <2> SUFFICES ASSUME noise' \cap PipelinesExcuses = {}, ~ui'.left, "remove" \notin DOMAIN net' PROVE ui'.rows \ PipelinesGone' = srv'.there
    BY <1>5 DEF PipelinesFresh
  <2>1. noise \cap PipelinesExcuses = {} /\ net[k].stage = "answered" /\ "remove" \notin DOMAIN net
    BY <1>1, <1>2 DEF PipelinesExcuses, Closes
  <2>2. "delete" \notin DOMAIN net
    BY <1>1, <1>2, <1>t DEF PipelinesExcuses, PipelinesMain
  <2>3. net[k].got = srv.there
    BY <1>2, <2>1, <2>2 DEF PipelinesShow, PipelinesFresh
  <2>4. PipelinesGone' = {}
    BY <1>2, <2>2 DEF Closes, PipelinesGone
  <2> QED
    BY <1>2, <1>3, <2>1, <2>3, <2>4
<1> QED
  BY <1>4, <1>6, <1>7, <1>8 DEF PipelinesShow

\* One row was deleted: the list is read, or the page knows it may be wrong.
LEMMA PipelinesRemoveBack == PipelinesShow /\ OnPipelines!RemoveBack => PipelinesShow'
<1> SUFFICES ASSUME PipelinesShow, OnPipelines!RemoveBack PROVE PipelinesShow'
  OBVIOUS
<1>t. /\ {"rows", "selected", "busy", "dialog", "deleting", "left"} \subseteq DOMAIN ui /\ "there" \in DOMAIN srv
      /\ OnPipelines!TypeOK /\ ("list" \in DOMAIN net => PipelinesMain \cap DOMAIN net = {"list"})
  BY DEF PipelinesShow, PipelinesTypes, PipelinesBrought
<1> DEFINE closed == OnPipelines!Closed("remove")
<1>a. "remove" \in DOMAIN net
  BY DEF OnPipelines!RemoveBack, OnPipelines!Returned, OnPipelines!Answered, OnPipelines!Rejected, OnPipelines!Out
<1>b. Closes(net, closed, "remove")
  BY <1>a, PipelinesNet
<1>c. "list" \notin DOMAIN net
  BY <1>a, <1>t DEF PipelinesMain, PipelinesReads
<1>d. ui.deleting /\ "reload" \notin DOMAIN net
  BY <1>a DEF PipelinesShow, Paired
<1>1. "remove" \in DOMAIN net /\ Closes(net, closed, "remove") /\ "list" \notin DOMAIN net /\ ui.deleting /\ "reload" \notin DOMAIN net
  BY <1>a, <1>b, <1>c, <1>d
<1>2. CASE OnPipelines!Answered("remove")
  <2>1. ui' = [ui EXCEPT !.dialog = OnPipelines!Nobody] /\ net' = OnPipelines!With(closed, "reload", {}) /\ srv' = srv
    BY <1>2 DEF OnPipelines!RemoveBack
  <2>2. Sends(closed, net', "reload")
    BY <2>1, PipelinesNet
  <2>n. noise' = noise
    BY <1>2 DEF OnPipelines!RemoveBack, OnPipelines!Answered, OnPipelines!Rejected
  <2> HIDE DEF closed
  <2>3. PipelinesTypes'
    BY <1>t, <2>1, PipelinesTold DEF PipelinesTypes, OnPipelines!TypeOK
  <2>4. PipelinesBrought'
    BY <1>1, <2>2 DEF PipelinesShow, Closes, Sends, PipelinesBrought, PipelinesMain, PipelinesReads
  <2>5. PipelinesDelete' /\ Paired(net', "remove", "reload", ui'.deleting)
    BY <1>1, <1>t, <2>1, <2>2 DEF PipelinesShow, Closes, Sends, PipelinesDelete, Paired
  <2>6. PipelinesFresh'
    BY <1>1, <2>2 DEF Closes, Sends, PipelinesFresh, PipelinesReads
  <2> QED
    BY <2>3, <2>4, <2>5, <2>6 DEF PipelinesShow
<1>3. CASE ~OnPipelines!Answered("remove")
  <2>1. ui' = [ui EXCEPT !.deleting = FALSE] /\ net' = closed /\ srv' = srv /\ "lost remove" \in noise'
    BY <1>3 DEF OnPipelines!RemoveBack, OnPipelines!Returned
  <2> HIDE DEF closed
  <2>3. PipelinesTypes'
    BY <1>t, <2>1 DEF PipelinesShow, PipelinesTypes, OnPipelines!TypeOK
  <2>a. "list" \notin DOMAIN net' /\ \A j \in DOMAIN net' : j \in DOMAIN net /\ net'[j] = net[j]
    BY <1>1, <2>1 DEF Closes
  <2>4. PipelinesBrought'
    BY <2>a DEF PipelinesShow, PipelinesBrought
  <2>5. PipelinesDelete' /\ Paired(net', "remove", "reload", ui'.deleting)
    BY <1>1, <1>t, <2>1 DEF PipelinesShow, Closes, PipelinesDelete, Paired
  <2>6. PipelinesFresh'
    BY <2>1 DEF PipelinesFresh, PipelinesExcuses
  <2> QED
    BY <2>3, <2>4, <2>5, <2>6 DEF PipelinesShow
<1> QED
  BY <1>2, <1>3

\* A request fails.
LEMMA PipelinesBreaks == ASSUME PipelinesShow, NEW k \in DOMAIN net, OnPipelines!Breaks(k) PROVE PipelinesShow'
<1>t. /\ (ui.dialog = OnPipelines!ToBulk => ui.busy = {}) /\ OnPipelines!TypeOK /\ "there" \in DOMAIN srv
      /\ ("delete" \in DOMAIN net => "delete" \in ui.busy)
      /\ ("list" \in DOMAIN net => ui.rows = OnPipelines!NoRows /\ ui.selected = {} /\ ui.dialog = OnPipelines!Nobody)
  BY DEF PipelinesShow, PipelinesTypes, PipelinesDelete, PipelinesBrought
<1>0. /\ ui' = ui /\ srv' = srv /\ noise' = noise
      /\ net' = [net EXCEPT ![k].stage = "failed", ![k].got = "nothing"]
  BY DEF OnPipelines!Breaks, OnPipelines!Fails
<1>1. CASE k \notin PipelinesMain
  <2>1. PipelinesSame
    BY <1>0, <1>1, <1>t, PipelinesOthers
  <2> QED
    BY <1>0, <1>t, <2>1, PipelinesRests DEF OnPipelines!TypeOK
<1>2. CASE k \in PipelinesMain
  <2>1. Turns(net, net', k) /\ net'[k].stage = "failed" /\ net'[k].arg = net[k].arg
    BY <1>0, <1>2 DEF PipelinesShow, PipelinesBrought, Turns
  <2>2. PipelinesTypes' /\ PipelinesBrought' /\ PipelinesDelete' /\ Paired(net', "remove", "reload", ui'.deleting)
    BY <1>0, <2>1 DEF PipelinesShow, Turns, PipelinesTypes, PipelinesBrought, PipelinesDelete, Paired, OnPipelines!TypeOK
  <2>3. PipelinesFailed \/ k = "delete" => PipelinesFailed'
    BY <1>2, <2>1 DEF Turns, PipelinesFailed
  <2>4. k # "delete" => PipelinesGone' = PipelinesGone
    BY <2>1 DEF Turns, PipelinesGone
  <2>5. PipelinesFresh'
    BY <1>0, <2>1, <2>3, <2>4 DEF PipelinesShow, Turns, PipelinesFresh
  <2> QED
    BY <2>2, <2>5 DEF PipelinesShow
<1> QED
  BY <1>1, <1>2

\* Every step of the page keeps it.
LEMMA PipelinesShowStep == PipelinesShow /\ OnPipelines!Next => PipelinesShow'
<1> SUFFICES ASSUME PipelinesShow, OnPipelines!Next PROVE PipelinesShow'
  OBVIOUS
<1>1. CASE OnPipelines!Returns /\ ~ui.left
  BY <1>1, PipelinesReadBack, PipelinesBacks, PipelinesRemoveBack, PipelinesContinues DEF OnPipelines!Returns
<1>2. CASE OnPipelines!Clicks
  BY <1>2, PipelinesClicks, PipelinesConfirm, PipelinesStarts DEF OnPipelines!Clicks
<1> QED
  BY <1>1, <1>2, PipelinesServe, PipelinesClicks, PipelinesBreaks DEF OnPipelines!Next

\* It is what the page promises.
LEMMA PipelinesShowEnough == PipelinesShow => OnPipelines!ShowsServer /\ OnPipelines!TypeOK
<1> SUFFICES ASSUME PipelinesShow PROVE OnPipelines!ShowsServer /\ OnPipelines!TypeOK
  OBVIOUS
<1>1. ASSUME DOMAIN net = {}, ~ui.left, noise \cap {"stale rows", "lost remove"} = {} PROVE ui.rows = srv.there
  <2>1. PipelinesGone = {} /\ ~PipelinesFailed
    BY <1>1 DEF PipelinesGone, PipelinesFailed
  <2> QED
    BY <1>1, <2>1 DEF PipelinesShow, PipelinesFresh, PipelinesExcuses
<1> QED
  BY <1>1 DEF PipelinesShow, PipelinesTypes, OnPipelines!ShowsServer, OnPipelines!Quiet

------------------------------------------------------------------------------
(* Schedules *)

\* What is kept on this page: the row being toggled is one there can be.
SchedulesSpins ==
  /\ {"form", "deleting", "toggling", "running"} \subseteq DOMAIN ui
  /\ "submitting" \in DOMAIN ui.form
  /\ ui.toggling \in OnSchedules!AnyRow \cup {OnSchedules!Nobody}
  /\ OnSchedules!SpinnersHaveRequests

\* It holds when the page opens.
LEMMA SchedulesInit == OnSchedules!Init => SchedulesSpins
  BY DEF OnSchedules!Init, SchedulesSpins, OnSchedules!SpinnersHaveRequests, OnSchedules!Nobody, OnSchedules!Closed0

\* The requests of the page that are about no row.
SchedulesNames == {"refresh", "saved", "deleted", "run", "delete", "save"}

\* The requests about a row are told from these and from each other.
LEMMA SchedulesNamed ==
  ASSUME NEW p \in OnSchedules!AnyRow, NEW q \in OnSchedules!AnyRow
  PROVE  /\ OnSchedules!Named("toggle", p) \notin SchedulesNames
         /\ OnSchedules!Named("toggled", p) \notin SchedulesNames
         /\ OnSchedules!Named("toggle", p) # OnSchedules!Named("toggled", q)
         /\ OnSchedules!Named("toggle", p) = OnSchedules!Named("toggle", q) => p = q
         /\ OnSchedules!Named("toggled", p) = OnSchedules!Named("toggled", q) => p = q
<1> DEFINE ops == {"toggle", "toggled"}
<1>0. Distinct(ops, OnSchedules!AnyRow, SchedulesNames)
  BY NamesAssumption DEF SchedulesNames
<1>1. \A op \in ops, r \in OnSchedules!AnyRow : op \o ToString(r) \notin SchedulesNames
  BY <1>0 DEF Distinct
<1>2. \A op \in ops, r \in OnSchedules!AnyRow, op2 \in ops, s \in OnSchedules!AnyRow :
        op \o ToString(r) = op2 \o ToString(s) => op = op2 /\ r = s
  BY <1>0 DEF Distinct
<1> QED
  BY <1>1, <1>2 DEF OnSchedules!Named

\* Every step of the page keeps it.
LEMMA SchedulesStep == SchedulesSpins /\ OnSchedules!Next => SchedulesSpins'
<1> SUFFICES ASSUME SchedulesSpins, OnSchedules!Next PROVE SchedulesSpins'
  OBVIOUS
<1> USE DEF SchedulesSpins, OnSchedules!SpinnersHaveRequests, OnSchedules!Out
<1> DEFINE t == ui.toggling
<1>n. ASSUME ui.toggling # OnSchedules!Nobody
      PROVE  /\ OnSchedules!Named("toggle", ui.toggling) \notin SchedulesNames
             /\ OnSchedules!Named("toggled", ui.toggling) \notin SchedulesNames
  BY <1>n, SchedulesNamed
<1>1. CASE OnSchedules!Serve
  BY <1>1 DEF OnSchedules!Serve, OnSchedules!Handles
<1>2. ASSUME NEW k \in OnSchedules!Refreshes, OnSchedules!RefreshBack(k) PROVE SchedulesSpins'
  <2>1. /\ DOMAIN ui' = DOMAIN ui /\ ui'.form = ui.form /\ ui'.running = ui.running
        /\ ui'.deleting = IF k = "deleted" THEN FALSE ELSE ui.deleting
        /\ ui'.toggling = IF k \in {"refresh", "saved", "deleted"} THEN ui.toggling ELSE OnSchedules!Nobody
    BY <1>2 DEF OnSchedules!RefreshBack
  <2>2. DOMAIN net' = DOMAIN net \ {k}
    BY <1>2 DEF OnSchedules!RefreshBack, OnSchedules!Closed, OnSchedules!Without, OnSchedules!Restrict
  <2>3. k \notin {"run", "delete", "save"}
    BY SchedulesNamed DEF OnSchedules!Refreshes, SchedulesNames
  <2> QED
    BY <2>1, <2>2, <2>3, <1>n DEF SchedulesNames
<1>3. ASSUME NEW p \in OnSchedules!AnyRow, OnSchedules!ToggleBack(p) PROVE SchedulesSpins'
  <2> DEFINE k == OnSchedules!Named("toggle", p)  kk == OnSchedules!Named("toggled", p)
  <2>1. k \notin SchedulesNames /\ kk \notin SchedulesNames
    BY SchedulesNamed
  <2>2. CASE OnSchedules!Answered(k)
    <3>1. ui' = ui /\ DOMAIN net' = (DOMAIN net \ {k}) \cup {kk}
      BY <1>3, <2>2 DEF OnSchedules!ToggleBack, OnSchedules!Refresh, OnSchedules!With, OnSchedules!Closed, OnSchedules!Without, OnSchedules!Restrict
    <3>2. ui.toggling # OnSchedules!Nobody /\ k = OnSchedules!Named("toggle", ui.toggling) => ui.toggling = p
      BY SchedulesNamed
    <3>3. ui.toggling # OnSchedules!Nobody => k # OnSchedules!Named("toggled", ui.toggling)
      BY SchedulesNamed
    <3> HIDE DEF k, kk
    <3> QED
      BY <3>1, <3>2, <3>3, <2>1 DEF SchedulesNames, kk
  <2>3. CASE ~OnSchedules!Answered(k)
    <3>1. ui' = [ui EXCEPT !.toggling = OnSchedules!Nobody] /\ DOMAIN net' = DOMAIN net \ {k}
      BY <1>3, <2>3 DEF OnSchedules!ToggleBack, OnSchedules!With, OnSchedules!Closed, OnSchedules!Without, OnSchedules!Restrict
    <3> HIDE DEF k
    <3> QED
      BY <3>1, <2>1 DEF SchedulesNames
  <2> QED
    BY <2>2, <2>3
<1>4. CASE OnSchedules!RunNowBack
  <2>1. /\ DOMAIN ui' = DOMAIN ui /\ ui'.form = ui.form /\ ui'.deleting = ui.deleting
        /\ ui'.toggling = ui.toggling /\ ui'.running = OnSchedules!Nobody
        /\ DOMAIN net' = DOMAIN net \ {"run"}
    BY <1>4 DEF OnSchedules!RunNowBack, OnSchedules!Closed, OnSchedules!Without, OnSchedules!Restrict
  <2> QED
    BY <2>1, <1>n DEF SchedulesNames
<1>5. CASE OnSchedules!DeleteBack
  <2>1. /\ DOMAIN ui' = DOMAIN ui /\ ui'.form = ui.form /\ ui'.running = ui.running /\ ui'.toggling = ui.toggling
        /\ \/ ui'.deleting = FALSE /\ DOMAIN net' = DOMAIN net \ {"delete"}
           \/ DOMAIN net' = (DOMAIN net \ {"delete"}) \cup {"deleted"}
    BY <1>5 DEF OnSchedules!DeleteBack, OnSchedules!Refresh, OnSchedules!With, OnSchedules!Closed, OnSchedules!Without, OnSchedules!Restrict
  <2> QED
    BY <2>1, <1>n DEF SchedulesNames
<1>6. CASE OnSchedules!SaveBack
  <2>1. /\ DOMAIN ui' = DOMAIN ui /\ ui'.deleting = ui.deleting /\ ui'.running = ui.running /\ ui'.toggling = ui.toggling
        /\ "submitting" \in DOMAIN ui'.form /\ ui'.form.submitting = FALSE
    BY <1>6 DEF OnSchedules!SaveBack, OnSchedules!Closed0
  <2>2. DOMAIN net' = DOMAIN net \ {"save"} \/ DOMAIN net' = (DOMAIN net \ {"save"}) \cup {"saved"}
    BY <1>6 DEF OnSchedules!SaveBack, OnSchedules!Refresh, OnSchedules!With, OnSchedules!Closed, OnSchedules!Without, OnSchedules!Restrict
  <2> QED
    BY <2>1, <2>2, <1>n DEF SchedulesNames
<1>7. CASE OnSchedules!Clicks
  <2>1. ASSUME NEW p \in OnSchedules!AnyRow, OnSchedules!Toggle(p) PROVE SchedulesSpins'
    BY <2>1 DEF OnSchedules!Toggle, OnSchedules!Sent, OnSchedules!With, OnSchedules!Closed0
  <2>2. ASSUME NEW p \in OnSchedules!AnyRow, OnSchedules!RunNow(p) PROVE SchedulesSpins'
    BY <2>2 DEF OnSchedules!RunNow, OnSchedules!Sent, OnSchedules!With, OnSchedules!Closed0
  <2>3. ASSUME NEW p \in OnSchedules!AnyRow, OnSchedules!AskDelete(p) PROVE SchedulesSpins'
    BY <2>3 DEF OnSchedules!AskDelete, OnSchedules!Sent, OnSchedules!With, OnSchedules!Closed0
  <2>4. ASSUME NEW p \in OnSchedules!AnyRow, OnSchedules!Edit(p) PROVE SchedulesSpins'
    BY <2>4 DEF OnSchedules!Edit, OnSchedules!Sent, OnSchedules!With, OnSchedules!Closed0
  <2>5. CASE OnSchedules!New
    BY <2>5 DEF OnSchedules!New, OnSchedules!Sent, OnSchedules!With, OnSchedules!Closed0
  <2>6. CASE OnSchedules!Type
    BY <2>6 DEF OnSchedules!Type, OnSchedules!Sent, OnSchedules!With, OnSchedules!Closed0
  <2>7. CASE OnSchedules!LeaveForm
    BY <2>7 DEF OnSchedules!LeaveForm, OnSchedules!Sent, OnSchedules!With, OnSchedules!Closed0
  <2>8. CASE OnSchedules!SaveNew
    BY <2>8 DEF OnSchedules!SaveNew, OnSchedules!Sent, OnSchedules!With, OnSchedules!Closed0
  <2>9. CASE OnSchedules!SaveEdit
    BY <2>9 DEF OnSchedules!SaveEdit, OnSchedules!Sent, OnSchedules!With, OnSchedules!Closed0
  <2>10. CASE OnSchedules!LeaveDialog
    BY <2>10 DEF OnSchedules!LeaveDialog, OnSchedules!Sent, OnSchedules!With, OnSchedules!Closed0
  <2>11. CASE OnSchedules!ConfirmDelete
    BY <2>11 DEF OnSchedules!ConfirmDelete, OnSchedules!Sent, OnSchedules!With, OnSchedules!Closed0
  <2>12. ASSUME NEW f, OnSchedules!SetFilter(f) PROVE SchedulesSpins'
    BY <2>12 DEF OnSchedules!SetFilter, OnSchedules!Sent, OnSchedules!With, OnSchedules!Closed0
  <2> QED
    BY <1>7, <2>1, <2>2, <2>3, <2>4, <2>5, <2>6, <2>7, <2>8, <2>9, <2>10, <2>11, <2>12 DEF OnSchedules!Clicks, OnSchedules!RowButtons, OnSchedules!Forms
<1>8. CASE \E k \in DOMAIN net : OnSchedules!Breaks(k)
  BY <1>8 DEF OnSchedules!Breaks, OnSchedules!Fails
<1> QED
  BY <1>1, <1>2, <1>3, <1>4, <1>5, <1>6, <1>7, <1>8 DEF OnSchedules!Next, OnSchedules!Returns

(* What it shows *)

\* The requests that read the list and those that change it.
SchedulesReads == OnSchedules!Refreshes
SchedulesWrites == {"delete", "save"} \cup {OnSchedules!Named("toggle", p) : p \in OnSchedules!AnyRow}

\* Types; the button of a delete waits for it and for the read that follows, so
\* that no delete is sent while another is under way.
SchedulesTypes ==
  /\ {"rows", "deleting", "form", "dialog"} \subseteq DOMAIN ui /\ "kind" \in DOMAIN ui.form /\ "rows" \in DOMAIN srv
  /\ OnSchedules!TypeOK
SchedulesShow ==
  /\ SchedulesTypes /\ Brought(net, SchedulesReads, OnSchedules!AnyRow)
  /\ Paired(net, "delete", "deleted", ui.deleting)
  /\ Listing(net, noise, ui.rows, srv.rows, SchedulesReads, SchedulesWrites, Excuses)

\* Reads and writes are told from each other and from the rest.
LEMMA SchedulesTold ==
  /\ SchedulesReads \cap SchedulesWrites = {} /\ "run" \notin SchedulesReads \cup SchedulesWrites
  /\ \A p \in OnSchedules!AnyRow :
       /\ OnSchedules!Named("toggle", p) \notin SchedulesNames /\ OnSchedules!Named("toggled", p) \notin SchedulesNames
       /\ OnSchedules!Named("toggle", p) \in SchedulesWrites /\ OnSchedules!Named("toggled", p) \in SchedulesReads
  /\ \A k \in {"refresh", "saved", "deleted"} : k \in SchedulesReads
  /\ "delete" \in SchedulesWrites /\ "save" \in SchedulesWrites
  BY SchedulesNamed DEF SchedulesReads, SchedulesWrites, SchedulesNames, OnSchedules!Refreshes

\* What the page's helpers do to the requests.
LEMMA SchedulesNet ==
  /\ \A requests, k, arg : Sends(requests, OnSchedules!With(requests, k, arg), k)
  /\ \A k \in DOMAIN net : Closes(net, OnSchedules!Closed(k), k)
  /\ \A k, state, answer : SchedulesShow /\ OnSchedules!Handles(k, state, answer) =>
       Turns(net, net', k) /\ net'[k].stage = "answered" /\ net'[k].got = answer /\ srv' = state /\ ui' = ui /\ noise' = noise
  /\ \A k : SchedulesShow /\ OnSchedules!Breaks(k) =>
       Turns(net, net', k) /\ net'[k].stage = "failed" /\ srv' = srv /\ ui' = ui /\ noise' = noise
<1>1. \A requests, k, arg : Sends(requests, OnSchedules!With(requests, k, arg), k)
  BY DEF Sends, OnSchedules!With
<1>2. \A k \in DOMAIN net : Closes(net, OnSchedules!Closed(k), k)
  BY DEF Closes, OnSchedules!Closed, OnSchedules!Without, OnSchedules!Restrict
<1>3. ASSUME NEW k, NEW state, NEW answer, SchedulesShow, OnSchedules!Handles(k, state, answer)
      PROVE  Turns(net, net', k) /\ net'[k].stage = "answered" /\ net'[k].got = answer /\ srv' = state /\ ui' = ui /\ noise' = noise
  BY <1>3 DEF Turns, OnSchedules!Handles, OnSchedules!Out, SchedulesShow, Listing
<1>4. ASSUME NEW k, SchedulesShow, OnSchedules!Breaks(k)
      PROVE  Turns(net, net', k) /\ net'[k].stage = "failed" /\ srv' = srv /\ ui' = ui /\ noise' = noise
  BY <1>4 DEF Turns, OnSchedules!Breaks, OnSchedules!Fails, OnSchedules!Out, SchedulesShow, Listing
<1> QED
  BY <1>1, <1>2, <1>3, <1>4

\* It holds when the page opens.
LEMMA SchedulesShowInit == OnSchedules!Init => SchedulesShow
<1> SUFFICES ASSUME OnSchedules!Init PROVE SchedulesShow
  OBVIOUS
<1>1. net = OnSchedules!With(<<>>, "refresh", {}) /\ SchedulesTypes
  BY DEF OnSchedules!Init, SchedulesTypes, OnSchedules!TypeOK, OnSchedules!Shown, OnSchedules!Closed0, OnSchedules!AnyRow
<1>2. DOMAIN net = {"refresh"} /\ DOMAIN net["refresh"] = {"arg", "stage", "got"} /\ net["refresh"].stage = "sent"
  BY <1>1, DOMAIN <<>> = {} DEF OnSchedules!With
<1>3. Listing(net, noise, ui.rows, srv.rows, SchedulesReads, SchedulesWrites, Excuses)
  BY <1>2, SchedulesTold, ListingStarts
<1> QED
  BY <1>1, <1>2, <1>3 DEF SchedulesShow, Brought, Paired

\* What does not concern the list.
LEMMA SchedulesRests ==
  ASSUME SchedulesShow, SchedulesTypes', ui'.rows = ui.rows, ui'.deleting = ui.deleting, net' = net, srv' = srv, noise' = noise
  PROVE  SchedulesShow'
  BY DEF SchedulesShow

\* A click that sends a request.
LEMMA SchedulesAsks ==
  ASSUME SchedulesShow, SchedulesTypes', NEW k, NEW arg, net' = OnSchedules!Sent(k, arg), k \notin DOMAIN net, k \notin SchedulesReads,
         ui'.rows = ui.rows, srv' = srv, noise' = noise,
         IF k = "delete" THEN ui'.deleting /\ "deleted" \notin DOMAIN net ELSE ui'.deleting = ui.deleting
  PROVE  SchedulesShow'
<1>1. Sends(net, net', k)
  BY SchedulesNet DEF OnSchedules!Sent
<1>2. Listing(net', noise', ui'.rows, srv'.rows, SchedulesReads, SchedulesWrites, Excuses)
  BY <1>1, ListingSends DEF SchedulesShow
<1>3. Paired(net', "delete", "deleted", ui'.deleting) /\ Brought(net', SchedulesReads, OnSchedules!AnyRow)
  BY <1>1, SchedulesTold DEF SchedulesShow, Sends, Paired, Brought
<1> QED
  BY <1>2, <1>3 DEF SchedulesShow

\* The user's clicks.
LEMMA SchedulesClicks == SchedulesShow /\ OnSchedules!Clicks => SchedulesShow'
<1> SUFFICES ASSUME SchedulesShow, OnSchedules!Clicks PROVE SchedulesShow'
  OBVIOUS
<1>t. SchedulesTypes
  BY DEF SchedulesShow
<1> USE DEF SchedulesTypes, OnSchedules!TypeOK, OnSchedules!Shown, OnSchedules!Closed0, OnSchedules!Out
<1>3. ASSUME NEW p \in OnSchedules!AnyRow, OnSchedules!Toggle(p) PROVE SchedulesShow'
  <2>1. OnSchedules!Named("toggle", p) \notin SchedulesReads /\ OnSchedules!Named("toggle", p) # "delete"
    BY SchedulesTold DEF SchedulesNames
  <2>2. SchedulesTypes' /\ ui'.rows = ui.rows /\ ui'.deleting = ui.deleting
    BY <1>t, <1>3 DEF OnSchedules!Toggle
  <2> QED
    BY <1>3, <2>1, <2>2, SchedulesAsks DEF OnSchedules!Toggle
<1>4. ASSUME NEW p \in OnSchedules!AnyRow, OnSchedules!RunNow(p) PROVE SchedulesShow'
  <2>1. SchedulesTypes' /\ ui'.rows = ui.rows /\ ui'.deleting = ui.deleting
    BY <1>t, <1>4 DEF OnSchedules!RunNow
  <2> QED
    BY <1>4, <2>1, SchedulesTold, SchedulesAsks DEF OnSchedules!RunNow
<1>5. ASSUME NEW p \in OnSchedules!AnyRow, OnSchedules!AskDelete(p) PROVE SchedulesShow'
  BY <1>t, <1>5, SchedulesRests DEF OnSchedules!AskDelete
<1>6. ASSUME NEW p \in OnSchedules!AnyRow, OnSchedules!Edit(p) PROVE SchedulesShow'
  BY <1>t, <1>6, SchedulesRests DEF OnSchedules!Edit
<1>7. CASE OnSchedules!New
  BY <1>t, <1>7, SchedulesRests DEF OnSchedules!New
<1>8. CASE OnSchedules!Type
  BY <1>t, <1>8, SchedulesRests DEF OnSchedules!Type
<1>9. CASE OnSchedules!LeaveForm
  BY <1>t, <1>9, SchedulesRests DEF OnSchedules!LeaveForm
<1>10. CASE OnSchedules!SaveNew
  <2>1. SchedulesTypes' /\ ui'.rows = ui.rows /\ ui'.deleting = ui.deleting
    BY <1>t, <1>10 DEF OnSchedules!SaveNew
  <2> QED
    BY <1>10, <2>1, SchedulesTold, SchedulesAsks DEF OnSchedules!SaveNew
<1>11. CASE OnSchedules!SaveEdit
  <2>1. SchedulesTypes' /\ ui'.rows = ui.rows /\ ui'.deleting = ui.deleting
    BY <1>t, <1>11 DEF OnSchedules!SaveEdit
  <2> QED
    BY <1>11, <2>1, SchedulesTold, SchedulesAsks, SchedulesRests DEF OnSchedules!SaveEdit
<1>12. CASE OnSchedules!LeaveDialog
  BY <1>t, <1>12, SchedulesRests DEF OnSchedules!LeaveDialog
<1>13. CASE OnSchedules!ConfirmDelete
  <2>1. SchedulesTypes' /\ ui'.rows = ui.rows /\ ui'.deleting /\ "delete" \notin DOMAIN net /\ "deleted" \notin DOMAIN net
    BY <1>t, <1>13 DEF OnSchedules!ConfirmDelete, SchedulesShow, Paired
  <2> QED
    BY <1>13, <2>1, SchedulesTold, SchedulesAsks DEF OnSchedules!ConfirmDelete
<1>14. ASSUME NEW f, OnSchedules!SetFilter(f) PROVE SchedulesShow'
  BY <1>t, <1>14, SchedulesRests DEF OnSchedules!SetFilter
<1> QED
  BY <1>3, <1>4, <1>5, <1>6, <1>7, <1>8, <1>9, <1>10, <1>11, <1>12, <1>13, <1>14 DEF OnSchedules!Clicks, OnSchedules!RowButtons, OnSchedules!Forms

\* The server takes a request: a read answers with what is there, a write keeps
\* to the rows there can be, the rest does not matter.
LEMMA SchedulesTakes ==
  ASSUME SchedulesShow, NEW k, NEW state, NEW answer, OnSchedules!Handles(k, state, answer),
         "rows" \in DOMAIN state, DOMAIN state.rows \subseteq OnSchedules!AnyRow,
         k \in SchedulesWrites \/ (state.rows = srv.rows /\ (k \in SchedulesReads => answer = srv.rows))
  PROVE  SchedulesShow'
<1>1. Turns(net, net', k) /\ net'[k].stage = "answered" /\ net'[k].got = answer /\ srv' = state /\ ui' = ui /\ noise' = noise
  BY SchedulesNet
<1>2. Listing(net', noise', ui'.rows, srv'.rows, SchedulesReads, SchedulesWrites, Excuses)
  BY <1>1, ListingServed DEF SchedulesShow
<1>3. Paired(net', "delete", "deleted", ui'.deleting) /\ Brought(net', SchedulesReads, OnSchedules!AnyRow)
  BY <1>1, SchedulesTold DEF SchedulesShow, Turns, Paired, Brought, SchedulesTypes, OnSchedules!TypeOK
<1>4. SchedulesTypes'
  BY <1>1 DEF SchedulesShow, SchedulesTypes, OnSchedules!TypeOK, OnSchedules!Shown
<1> QED
  BY <1>2, <1>3, <1>4 DEF SchedulesShow

\* The server's answers keep it: a read is answered with what is there.
LEMMA SchedulesServe == SchedulesShow /\ OnSchedules!Serve => SchedulesShow'
<1> SUFFICES ASSUME SchedulesShow, OnSchedules!Serve PROVE SchedulesShow'
  OBVIOUS
<1>2. "rows" \in DOMAIN srv /\ DOMAIN srv.rows \subseteq OnSchedules!AnyRow /\ OnSchedules!Made \in OnSchedules!AnyRow
  BY DEF SchedulesShow, SchedulesTypes, OnSchedules!TypeOK, OnSchedules!AnyRow
<1>3. ASSUME NEW k \in OnSchedules!Refreshes, OnSchedules!Handles(k, srv, srv.rows) PROVE SchedulesShow'
  BY <1>2, <1>3, SchedulesTakes
<1>4. ASSUME NEW k \in SchedulesWrites, NEW state, OnSchedules!Handles(k, state, {}), "rows" \in DOMAIN state,
             DOMAIN state.rows \subseteq OnSchedules!AnyRow
      PROVE  SchedulesShow'
  BY <1>4, SchedulesTakes
<1>5. ASSUME NEW p \in OnSchedules!There, OnSchedules!Handles(OnSchedules!Named("toggle", p), [srv EXCEPT !.rows[p].active = ~@], {})
      PROVE  SchedulesShow'
  <2> DEFINE state == [srv EXCEPT !.rows[p].active = ~@]
  <2>1. "rows" \in DOMAIN state /\ DOMAIN state.rows = DOMAIN srv.rows
    BY <1>2
  <2>2. OnSchedules!Named("toggle", p) \in SchedulesWrites
    BY <1>2, SchedulesTold DEF OnSchedules!There
  <2>3. OnSchedules!Handles(OnSchedules!Named("toggle", p), state, {})
    BY <1>5
  <2> HIDE DEF state
  <2> QED
    BY <1>2, <1>4, <2>1, <2>2, <2>3
<1>6. ASSUME OnSchedules!Handles("run", [srv EXCEPT !.runs = @ + 1], {}) PROVE SchedulesShow'
  <2> DEFINE state == [srv EXCEPT !.runs = @ + 1]
  <2>1. "rows" \in DOMAIN state /\ state.rows = srv.rows
    BY <1>2
  <2>2. OnSchedules!Handles("run", state, {})
    BY <1>6
  <2> HIDE DEF state
  <2> QED
    BY <1>2, <2>1, <2>2, SchedulesTold, SchedulesTakes
<1>7. ASSUME OnSchedules!Handles("delete", [srv EXCEPT !.rows = OnSchedules!Restrict(@, OnSchedules!There \ {net["delete"].arg})], {})
      PROVE  SchedulesShow'
  <2> DEFINE state == [srv EXCEPT !.rows = OnSchedules!Restrict(@, OnSchedules!There \ {net["delete"].arg})]
  <2>1. "rows" \in DOMAIN state /\ DOMAIN state.rows \subseteq DOMAIN srv.rows
    BY <1>2 DEF OnSchedules!Restrict, OnSchedules!There
  <2>2. OnSchedules!Handles("delete", state, {})
    BY <1>7
  <2> HIDE DEF state
  <2> QED
    BY <1>2, <1>4, <2>1, <2>2, SchedulesTold
<1>8. ASSUME OnSchedules!Out("save"),
             net["save"].arg.row \in OnSchedules!There <=> net["save"].arg.row # OnSchedules!Made \/ net["save"].arg.text # OnSchedules!Made,
             OnSchedules!Handles("save", [srv EXCEPT !.rows = [p \in OnSchedules!There \cup {net["save"].arg.row} |->
               IF p \in OnSchedules!There
                 THEN IF p = net["save"].arg.row THEN [srv.rows[p] EXCEPT !.text = net["save"].arg.text] ELSE srv.rows[p]
                 ELSE [text |-> net["save"].arg.text, active |-> TRUE]]], {})
      PROVE  SchedulesShow'
  <2> DEFINE rows == [p \in OnSchedules!There \cup {net["save"].arg.row} |->
               IF p \in OnSchedules!There
                 THEN IF p = net["save"].arg.row THEN [srv.rows[p] EXCEPT !.text = net["save"].arg.text] ELSE srv.rows[p]
                 ELSE [text |-> net["save"].arg.text, active |-> TRUE]]
             state == [srv EXCEPT !.rows = rows]
  <2>1. DOMAIN rows = OnSchedules!There \cup {net["save"].arg.row} /\ OnSchedules!Handles("save", state, {})
    BY <1>8
  <2> HIDE DEF rows
  <2>2. "rows" \in DOMAIN state /\ state.rows = rows
    BY <1>2
  <2> HIDE DEF state
  <2>3. DOMAIN rows \subseteq OnSchedules!AnyRow
    BY <1>2, <1>8, <2>1 DEF OnSchedules!There
  <2> QED
    BY <1>4, <2>1, <2>2, <2>3, SchedulesTold
<1> QED
  BY <1>3, <1>5, <1>6, <1>7, <1>8 DEF OnSchedules!Serve

\* The list is read: it shows what came, or the page knows that it may not.
LEMMA SchedulesReadBack ==
  ASSUME SchedulesShow, NEW k \in OnSchedules!Refreshes, OnSchedules!RefreshBack(k)
  PROVE  SchedulesShow'
<1>1. k \in DOMAIN net /\ Closes(net, net', k) /\ srv' = srv
  BY SchedulesNet DEF OnSchedules!RefreshBack, OnSchedules!Returned, OnSchedules!Answered, OnSchedules!Rejected, OnSchedules!Out
<1>2. /\ DOMAIN ui' = DOMAIN ui /\ ui'.form = ui.form /\ ui'.dialog = ui.dialog
      /\ ui'.deleting = IF k = "deleted" THEN FALSE ELSE ui.deleting
      /\ ui'.rows = IF net[k].stage = "answered" THEN net[k].got ELSE [p \in {} |-> 0]
  BY <1>1 DEF OnSchedules!RefreshBack, SchedulesShow, SchedulesTypes, OnSchedules!Answered, OnSchedules!Out
<1>3. noise' \cap Excuses = {} => noise \cap Excuses = {} /\ net[k].stage = "answered" /\ ui'.rows = net[k].got
  BY <1>2 DEF OnSchedules!RefreshBack, OnSchedules!Returned, OnSchedules!Answered, OnSchedules!Rejected, Excuses
<1>4. Listing(net', noise', ui'.rows, srv'.rows, SchedulesReads, SchedulesWrites, Excuses)
  BY <1>1, <1>3, ListingShows DEF SchedulesShow, SchedulesReads
<1>5. SchedulesTypes'
  BY <1>1, <1>2 DEF SchedulesShow, SchedulesTypes, OnSchedules!TypeOK, OnSchedules!Shown, SchedulesReads, Brought
<1>6. Paired(net', "delete", "deleted", ui'.deleting) /\ Brought(net', SchedulesReads, OnSchedules!AnyRow)
  BY <1>1, <1>2 DEF SchedulesShow, Closes, Paired, Brought
<1> QED
  BY <1>4, <1>5, <1>6 DEF SchedulesShow

\* A write is answered: a read of the list follows, or the page knows it should.
LEMMA SchedulesWriteBack ==
  ASSUME SchedulesShow, NEW k \in SchedulesWrites \cup {"run"}, NEW kk \in SchedulesReads, OnSchedules!Returned(k),
         SchedulesTypes', ui'.rows = ui.rows, srv' = srv, ui'.deleting = ui.deleting \/ k = "delete",
         \/ OnSchedules!Refresh(OnSchedules!Closed(k), kk) /\ ui'.deleting = ui.deleting
         \/ net' = OnSchedules!Closed(k) /\ (noise' = noise \cup {"lost answer"} \/ (k = "run" /\ noise' = noise)),
         k = "delete" <=> kk = "deleted"
  PROVE  SchedulesShow'
<1> DEFINE closed == OnSchedules!Closed(k)
<1>1. Closes(net, closed, k) /\ k \notin SchedulesReads /\ "delete" \notin SchedulesReads
  BY SchedulesNet, SchedulesTold DEF OnSchedules!Returned, OnSchedules!Answered, OnSchedules!Rejected, OnSchedules!Out
<1>2. CASE net' = closed /\ (noise' = noise \cup {"lost answer"} \/ (k = "run" /\ noise' = noise))
  <2>1. noise' \cap Excuses = {} => noise \cap Excuses = {} /\ k \notin SchedulesReads \cup SchedulesWrites
    BY <1>2, SchedulesTold DEF Excuses
  <2>2. Listing(net', noise', ui'.rows, srv'.rows, SchedulesReads, SchedulesWrites, Excuses)
    BY <1>1, <1>2, <2>1, ListingCloses DEF SchedulesShow
  <2>3. Paired(net', "delete", "deleted", ui'.deleting) /\ Brought(net', SchedulesReads, OnSchedules!AnyRow)
    BY <1>1, <1>2 DEF SchedulesShow, Closes, Paired, Brought
  <2> QED
    BY <2>2, <2>3 DEF SchedulesShow
<1>3. CASE OnSchedules!Refresh(closed, kk) /\ ui'.deleting = ui.deleting
  <2>1. Sends(closed, net', kk) /\ (noise' \cap Excuses = {} => DOMAIN closed \cap SchedulesReads = {})
    BY <1>3, SchedulesNet DEF OnSchedules!Refresh, SchedulesReads, Excuses
  <2> HIDE DEF closed
  <2>2. Listing(net', noise', ui'.rows, srv'.rows, SchedulesReads, SchedulesWrites, Excuses)
    BY <1>1, <2>1, ListingFollows DEF SchedulesShow
  <2>3. Paired(net', "delete", "deleted", ui'.deleting)
    BY <1>1, <1>3, <2>1 DEF SchedulesShow, Sends, Closes, Paired
  <2>4. Brought(net', SchedulesReads, OnSchedules!AnyRow)
    BY <1>1, <2>1 DEF SchedulesShow, Sends, Closes, Brought
  <2> QED
    BY <2>2, <2>3, <2>4 DEF SchedulesShow
<1> QED
  BY <1>2, <1>3

\* Every step of the page keeps it.
LEMMA SchedulesShowStep == SchedulesShow /\ OnSchedules!Next => SchedulesShow'
<1> SUFFICES ASSUME SchedulesShow, OnSchedules!Next PROVE SchedulesShow'
  OBVIOUS
<1> USE DEF SchedulesTypes, OnSchedules!TypeOK, OnSchedules!Shown, OnSchedules!Closed0
<1>0. SchedulesTypes
  BY DEF SchedulesShow
<1>1. ASSUME NEW p \in OnSchedules!AnyRow, OnSchedules!ToggleBack(p) PROVE SchedulesShow'
  <2>1. /\ OnSchedules!Named("toggle", p) \in SchedulesWrites /\ OnSchedules!Named("toggled", p) \in SchedulesReads
        /\ OnSchedules!Named("toggle", p) # "delete" /\ OnSchedules!Named("toggled", p) # "deleted"
    BY SchedulesTold DEF SchedulesNames
  <2>2. SchedulesTypes' /\ ui'.rows = ui.rows /\ ui'.deleting = ui.deleting
    BY <1>0, <1>1 DEF OnSchedules!ToggleBack
  <2> QED
    BY <1>1, <2>1, <2>2, SchedulesWriteBack DEF OnSchedules!ToggleBack, OnSchedules!Lost, OnSchedules!Returned
<1>2. CASE OnSchedules!RunNowBack
  <2>1. SchedulesTypes' /\ ui'.rows = ui.rows /\ ui'.deleting = ui.deleting
    BY <1>0, <1>2 DEF OnSchedules!RunNowBack
  <2> QED
    BY <1>2, <2>1, SchedulesTold, SchedulesWriteBack DEF OnSchedules!RunNowBack
<1>3. CASE OnSchedules!DeleteBack
  <2>1. SchedulesTypes' /\ ui'.rows = ui.rows /\ (OnSchedules!Answered("delete") => ui'.deleting = ui.deleting)
    BY <1>0, <1>3 DEF OnSchedules!DeleteBack
  <2> QED
    BY <1>3, <2>1, SchedulesTold, SchedulesWriteBack DEF OnSchedules!DeleteBack, OnSchedules!Lost, OnSchedules!Returned
<1>4. CASE OnSchedules!SaveBack
  <2>1. SchedulesTypes' /\ ui'.rows = ui.rows /\ ui'.deleting = ui.deleting
    BY <1>0, <1>4 DEF OnSchedules!SaveBack
  <2> QED
    BY <1>4, <2>1, SchedulesTold, SchedulesWriteBack DEF OnSchedules!SaveBack, OnSchedules!Lost, OnSchedules!Returned
<1>5. ASSUME NEW k \in DOMAIN net, OnSchedules!Breaks(k) PROVE SchedulesShow'
  <2>1. Turns(net, net', k) /\ net'[k].stage = "failed" /\ ui' = ui /\ srv' = srv /\ noise' = noise
    BY <1>5, SchedulesNet
  <2>2. Listing(net', noise', ui'.rows, srv'.rows, SchedulesReads, SchedulesWrites, Excuses)
    BY <2>1, ListingFails DEF SchedulesShow
  <2> QED
    BY <2>1, <2>2 DEF SchedulesShow, Turns, Brought, Paired
<1> QED
  BY <1>1, <1>2, <1>3, <1>4, <1>5, SchedulesClicks, SchedulesServe, SchedulesReadBack DEF OnSchedules!Next, OnSchedules!Returns

\* It is what the page promises.
LEMMA SchedulesShowEnough == SchedulesShow => OnSchedules!ShowsServer /\ OnSchedules!TypeOK
  BY DEF SchedulesShow, SchedulesTypes, OnSchedules!ShowsServer, OnSchedules!Quiet, Listing, Fresh, Excuses

------------------------------------------------------------------------------
(* Sensors *)

\* What is kept on this page: the row being checked is one there can be.
SensorsSpins ==
  /\ {"form", "deleting", "checking"} \subseteq DOMAIN ui /\ "submitting" \in DOMAIN ui.form
  /\ ui.checking \in OnSensors!AnyRow \cup {OnSensors!Nobody}
  /\ OnSensors!SpinnersHaveRequests

\* It holds when the page opens.
LEMMA SensorsInit == OnSensors!Init => SensorsSpins
<1> SUFFICES ASSUME OnSensors!Init PROVE SensorsSpins
  OBVIOUS
<1>1. PICK preset : ui = [rows |-> OnSensors!NoRows, pipeline |-> FALSE, orphaned |-> preset, form |-> OnSensors!NoForm,
                          dialog |-> OnSensors!Nobody, deleting |-> FALSE, checking |-> OnSensors!Nobody]
  BY Zenon DEF OnSensors!Init
<1> QED
  BY <1>1 DEF SensorsSpins, OnSensors!SpinnersHaveRequests, OnSensors!NoForm

\* The requests of the page that are about no row.
SensorsNames == {"refresh", "saved", "deleted", "delete", "save"}

\* The requests about a row are told from these and from each other.
LEMMA SensorsNamed == \A p \in OnSensors!AnyRow : OnSensors!Named("check", p) \notin SensorsNames
  BY NamesAssumption DEF Distinct, SensorsNames, OnSensors!Named

\* Every step of the page keeps it.
LEMMA SensorsStep == SensorsSpins /\ OnSensors!Next => SensorsSpins'
<1> SUFFICES ASSUME SensorsSpins, OnSensors!Next PROVE SensorsSpins'
  OBVIOUS
<1> USE DEF SensorsSpins, OnSensors!SpinnersHaveRequests, OnSensors!Out
<1>n. ui.checking # OnSensors!Nobody => OnSensors!Named("check", ui.checking) \notin SensorsNames
  BY SensorsNamed
<1>1. CASE OnSensors!Serve
  BY <1>1 DEF OnSensors!Serve, OnSensors!Handles, OnSensors!Restrict
<1>2. ASSUME NEW k \in OnSensors!Refreshes, OnSensors!RefreshBack(k) PROVE SensorsSpins'
  <2>1. /\ DOMAIN ui' = DOMAIN ui /\ ui'.form = ui.form /\ ui'.checking = ui.checking
        /\ ui'.deleting = IF k = "deleted" THEN FALSE ELSE ui.deleting
    BY <1>2 DEF OnSensors!RefreshBack
  <2>2. DOMAIN net' = DOMAIN net \ {k}
    BY <1>2 DEF OnSensors!RefreshBack, OnSensors!Closed, OnSensors!Without, OnSensors!Restrict, OnSensors!With, OnSensors!Sent, OnSensors!Refresh
  <2>3. k \in {"refresh", "saved", "deleted"}
    BY DEF OnSensors!Refreshes
  <2> QED
    BY <2>1, <2>2, <2>3, <1>n DEF SensorsNames
<1>3. ASSUME NEW p \in OnSensors!AnyRow, OnSensors!CheckBack(p) PROVE SensorsSpins'
  <2> DEFINE k == OnSensors!Named("check", p)
  <2>1. DOMAIN ui' = DOMAIN ui /\ ui'.form = ui.form /\ ui'.deleting = ui.deleting /\ ui'.checking = OnSensors!Nobody
    BY <1>3 DEF OnSensors!CheckBack
  <2>2. DOMAIN net' = DOMAIN net \ {k}
    BY <1>3 DEF OnSensors!CheckBack, OnSensors!Closed, OnSensors!Without, OnSensors!Restrict, OnSensors!With, OnSensors!Sent, OnSensors!Refresh
  <2>3. k \notin SensorsNames
    BY SensorsNamed
  <2> HIDE DEF k
  <2> QED
    BY <2>1, <2>2, <2>3 DEF SensorsNames
<1>4. CASE OnSensors!DeleteBack
  <2>1. DOMAIN ui' = DOMAIN ui /\ ui'.form = ui.form /\ ui'.checking = ui.checking
    BY <1>4 DEF OnSensors!DeleteBack
  <2>2. \/ DOMAIN net' = (DOMAIN net \ {"delete"}) \cup {"deleted"}
        \/ ui'.deleting = FALSE /\ DOMAIN net' = DOMAIN net \ {"delete"}
    BY <1>4 DEF OnSensors!DeleteBack, OnSensors!Closed, OnSensors!Without, OnSensors!Restrict, OnSensors!With, OnSensors!Sent, OnSensors!Refresh
  <2> QED
    BY <2>1, <2>2, <1>n DEF SensorsNames
<1>5. CASE OnSensors!SaveBack
  <2>1. DOMAIN ui' = DOMAIN ui /\ ui'.deleting = ui.deleting /\ ui'.checking = ui.checking /\ "submitting" \in DOMAIN ui'.form /\ ui'.form.submitting = FALSE
    BY <1>5 DEF OnSensors!SaveBack, OnSensors!NoForm
  <2>2. \/ DOMAIN net' = (DOMAIN net \ {"save"}) \cup {"saved"}
        \/ DOMAIN net' = DOMAIN net \ {"save"}
    BY <1>5 DEF OnSensors!SaveBack, OnSensors!Closed, OnSensors!Without, OnSensors!Restrict, OnSensors!With, OnSensors!Sent, OnSensors!Refresh, OnSensors!NoForm
  <2> QED
    BY <2>1, <2>2, <1>n DEF SensorsNames
<1>6. ASSUME NEW p \in OnSensors!AnyRow, OnSensors!Check(p) PROVE SensorsSpins'
  <2> DEFINE k == OnSensors!Named("check", p)
  <2>1. DOMAIN ui' = DOMAIN ui /\ ui'.form = ui.form /\ ui'.deleting = ui.deleting /\ ui'.checking = p
    BY <1>6 DEF OnSensors!Check
  <2>2. DOMAIN net' = DOMAIN net \cup {k}
    BY <1>6 DEF OnSensors!Check, OnSensors!Closed, OnSensors!Without, OnSensors!Restrict, OnSensors!With, OnSensors!Sent, OnSensors!Refresh
  <2> QED
    BY <2>1, <2>2
<1>7. ASSUME NEW p \in OnSensors!AnyRow, OnSensors!Edit(p) PROVE SensorsSpins'
  BY <1>7 DEF OnSensors!Edit, OnSensors!NoForm
<1>8. ASSUME NEW p \in OnSensors!AnyRow, OnSensors!AskDelete(p) PROVE SensorsSpins'
  BY <1>8 DEF OnSensors!AskDelete
<1>9. CASE OnSensors!New
  BY <1>9 DEF OnSensors!New, OnSensors!NoForm
<1>10. ASSUME NEW parses, OnSensors!Type(parses) PROVE SensorsSpins'
  BY <1>10 DEF OnSensors!Type
<1>11. CASE OnSensors!LeaveForm
  BY <1>11 DEF OnSensors!LeaveForm, OnSensors!NoForm
<1>12. CASE OnSensors!Save
  BY <1>12 DEF OnSensors!Save, OnSensors!Sent, OnSensors!With
<1>13. CASE OnSensors!LeaveDialog
  BY <1>13 DEF OnSensors!LeaveDialog
<1>14. CASE OnSensors!ConfirmDelete
  BY <1>14 DEF OnSensors!ConfirmDelete, OnSensors!Sent, OnSensors!With
<1>15. CASE OnSensors!SetFilter
  BY <1>15 DEF OnSensors!SetFilter
<1>16. CASE OnSensors!PipelineDeleted
  BY <1>16 DEF OnSensors!PipelineDeleted
<1>17. ASSUME NEW k \in DOMAIN net, OnSensors!Breaks(k) PROVE SensorsSpins'
  BY <1>17 DEF OnSensors!Breaks, OnSensors!Fails
<1> QED
  BY <1>1, <1>2, <1>3, <1>4, <1>5, <1>6, <1>7, <1>8, <1>9, <1>10, <1>11, <1>12, <1>13, <1>14, <1>15, <1>16, <1>17 DEF OnSensors!Next, OnSensors!Returns, OnSensors!Clicks, OnSensors!RowButtons, OnSensors!Forms

(* What it shows *)

\* The requests that read the list and those that change it.
SensorsReads == OnSensors!Refreshes
SensorsWrites == {"delete", "save"}

\* What the page and the server have: the sensors and whether there is a pipeline.
SensorsShown == [rows |-> ui.rows, pipeline |-> ui.pipeline]
SensorsThere == [rows |-> srv.rows, pipeline |-> srv.pipeline]

\* Types; a sensor that is not an old one is the one that may be made.
SensorsTypes ==
  /\ {"rows", "pipeline", "deleting", "form", "dialog"} \subseteq DOMAIN ui /\ "kind" \in DOMAIN ui.form
  /\ {"rows", "pipeline"} \subseteq DOMAIN srv
  /\ OnSensors!TypeOK
SensorsBrought ==
  /\ \A k \in SensorsReads \cap DOMAIN net : net[k].stage = "answered" => DOMAIN net[k].got.rows \subseteq OnSensors!AnyRow
  /\ OnSensors!Out("save") /\ net["save"].arg.new => net["save"].arg.row = OnSensors!Made
SensorsShow ==
  /\ SensorsTypes /\ SensorsBrought
  /\ Paired(net, "delete", "deleted", ui.deleting)
  /\ Listing(net, noise, SensorsShown, SensorsThere, SensorsReads, SensorsWrites, Excuses)

\* Reads and writes are told from each other and from the rest.
LEMMA SensorsTold ==
  /\ SensorsReads \cap SensorsWrites = {}
  /\ \A p \in OnSensors!AnyRow :
       OnSensors!Named("check", p) \notin SensorsNames /\ OnSensors!Named("check", p) \notin SensorsReads \cup SensorsWrites
  /\ \A k \in {"refresh", "saved", "deleted"} : k \in SensorsReads
  /\ "delete" \in SensorsWrites /\ "save" \in SensorsWrites
  BY SensorsNamed DEF SensorsReads, SensorsWrites, SensorsNames, OnSensors!Refreshes

\* What the page's helpers do to the requests.
LEMMA SensorsNet ==
  /\ \A requests, k, arg : Sends(requests, OnSensors!With(requests, k, arg), k)
  /\ \A k \in DOMAIN net : Closes(net, OnSensors!Closed(k), k)
  /\ \A k, state, answer : SensorsShow /\ OnSensors!Handles(k, state, answer) =>
       Turns(net, net', k) /\ net'[k].stage = "answered" /\ net'[k].got = answer /\ srv' = state /\ ui' = ui /\ noise' = noise
  /\ \A k : SensorsShow /\ OnSensors!Breaks(k) =>
       Turns(net, net', k) /\ net'[k].stage = "failed" /\ srv' = srv /\ ui' = ui /\ noise' = noise
<1>1. \A requests, k, arg : Sends(requests, OnSensors!With(requests, k, arg), k)
  BY DEF Sends, OnSensors!With
<1>2. \A k \in DOMAIN net : Closes(net, OnSensors!Closed(k), k)
  BY DEF Closes, OnSensors!Closed, OnSensors!Without, OnSensors!Restrict
<1>3. ASSUME NEW k, NEW state, NEW answer, SensorsShow, OnSensors!Handles(k, state, answer)
      PROVE  Turns(net, net', k) /\ net'[k].stage = "answered" /\ net'[k].got = answer /\ srv' = state /\ ui' = ui /\ noise' = noise
  BY <1>3 DEF Turns, OnSensors!Handles, OnSensors!Out, SensorsShow, Listing
<1>4. ASSUME NEW k, SensorsShow, OnSensors!Breaks(k)
      PROVE  Turns(net, net', k) /\ net'[k].stage = "failed" /\ srv' = srv /\ ui' = ui /\ noise' = noise
  BY <1>4 DEF Turns, OnSensors!Breaks, OnSensors!Fails, OnSensors!Out, SensorsShow, Listing
<1> QED
  BY <1>1, <1>2, <1>3, <1>4

\* It holds when the page opens.
LEMMA SensorsShowInit == OnSensors!Init => SensorsShow
<1> SUFFICES ASSUME OnSensors!Init PROVE SensorsShow
  OBVIOUS
<1>0. PICK preset : ui = [rows |-> OnSensors!NoRows, pipeline |-> FALSE, orphaned |-> preset, form |-> OnSensors!NoForm,
                          dialog |-> OnSensors!Nobody, deleting |-> FALSE, checking |-> OnSensors!Nobody]
  BY Zenon DEF OnSensors!Init
<1>1. net = OnSensors!With(<<>>, "refresh", {}) /\ SensorsTypes
  BY <1>0 DEF OnSensors!Init, SensorsTypes, OnSensors!TypeOK, OnSensors!There, OnSensors!Shown, OnSensors!NoForm, OnSensors!AnyRow
<1>2. DOMAIN net = {"refresh"} /\ DOMAIN net["refresh"] = {"arg", "stage", "got"} /\ net["refresh"].stage = "sent"
  BY <1>1, DOMAIN <<>> = {} DEF OnSensors!With
<1>3. Listing(net, noise, SensorsShown, SensorsThere, SensorsReads, SensorsWrites, Excuses)
  BY <1>2, SensorsTold, ListingStarts
<1> QED
  BY <1>1, <1>2, <1>3 DEF SensorsShow, SensorsBrought, Paired, OnSensors!Out

\* What does not concern the list.
LEMMA SensorsRests ==
  ASSUME SensorsShow, SensorsTypes', ui'.rows = ui.rows, ui'.pipeline = ui.pipeline, ui'.deleting = ui.deleting,
         net' = net, srv' = srv, noise' = noise
  PROVE  SensorsShow'
  BY DEF SensorsShow, SensorsShown, SensorsThere, SensorsBrought, OnSensors!Out

\* A click that sends a request.
LEMMA SensorsAsks ==
  ASSUME SensorsShow, SensorsTypes', NEW k, NEW arg, net' = OnSensors!Sent(k, arg), k \notin DOMAIN net, k \notin SensorsReads,
         k = "save" /\ arg.new => arg.row = OnSensors!Made,
         ui'.rows = ui.rows, ui'.pipeline = ui.pipeline, srv' = srv, noise' = noise,
         IF k = "delete" THEN ui'.deleting /\ "deleted" \notin DOMAIN net ELSE ui'.deleting = ui.deleting
  PROVE  SensorsShow'
<1>1. Sends(net, net', k) /\ net'[k].arg = arg
  <2>1. Sends(net, net', k)
    BY SensorsNet DEF OnSensors!Sent
  <2>2. net'[k].arg = arg
    BY DEF OnSensors!Sent, OnSensors!With
  <2> QED
    BY <2>1, <2>2
<1>2. Listing(net', noise', SensorsShown', SensorsThere', SensorsReads, SensorsWrites, Excuses)
  BY <1>1, ListingSends DEF SensorsShow, SensorsShown, SensorsThere
<1>3. Paired(net', "delete", "deleted", ui'.deleting)
  BY <1>1, SensorsTold DEF SensorsShow, Sends, Paired
<1>4. SensorsBrought'
  BY <1>1, SensorsTold DEF SensorsShow, Sends, SensorsBrought, OnSensors!Out
<1> QED
  BY <1>2, <1>3, <1>4 DEF SensorsShow

\* The user's clicks.
LEMMA SensorsClicks == SensorsShow /\ OnSensors!Clicks => SensorsShow'
<1> SUFFICES ASSUME SensorsShow, OnSensors!Clicks PROVE SensorsShow'
  OBVIOUS
<1>t. SensorsTypes
  BY DEF SensorsShow
<1> USE DEF SensorsTypes, OnSensors!TypeOK, OnSensors!There, OnSensors!Shown, OnSensors!NoForm, OnSensors!Out
<1>1. ASSUME NEW p \in OnSensors!AnyRow, OnSensors!Check(p) PROVE SensorsShow'
  <2>1. SensorsTypes' /\ ui'.rows = ui.rows /\ ui'.pipeline = ui.pipeline /\ ui'.deleting = ui.deleting
    BY <1>t, <1>1 DEF OnSensors!Check
  <2>2. OnSensors!Named("check", p) \notin SensorsReads /\ OnSensors!Named("check", p) \notin {"delete", "save"}
    BY SensorsTold DEF SensorsNames
  <2> QED
    BY <1>1, <2>1, <2>2, SensorsAsks DEF OnSensors!Check
<1>2. ASSUME NEW p \in OnSensors!AnyRow, OnSensors!Edit(p) PROVE SensorsShow'
  <2>1. SensorsTypes' /\ ui'.rows = ui.rows /\ ui'.pipeline = ui.pipeline /\ ui'.deleting = ui.deleting
    BY <1>t, <1>2 DEF OnSensors!Edit
  <2> QED
    BY <1>2, <2>1, SensorsRests DEF OnSensors!Edit
<1>3. ASSUME NEW p \in OnSensors!AnyRow, OnSensors!AskDelete(p) PROVE SensorsShow'
  BY <1>t, <1>3, SensorsRests DEF OnSensors!AskDelete
<1>4. CASE OnSensors!New
  BY <1>t, <1>4, SensorsRests DEF OnSensors!New
<1>5. ASSUME NEW parses, OnSensors!Type(parses) PROVE SensorsShow'
  <2>1. SensorsTypes' /\ ui'.rows = ui.rows /\ ui'.pipeline = ui.pipeline /\ ui'.deleting = ui.deleting
    BY <1>t, <1>5 DEF OnSensors!Type
  <2> QED
    BY <1>5, <2>1, SensorsRests DEF OnSensors!Type
<1>6. CASE OnSensors!LeaveForm
  BY <1>t, <1>6, SensorsRests DEF OnSensors!LeaveForm
<1>7. CASE OnSensors!Save
  <2> DEFINE arg == IF ui.form.kind = "create" THEN [row |-> OnSensors!Made, text |-> OnSensors!Made, new |-> TRUE]
                    ELSE [row |-> ui.form.row, text |-> ui.form.text, new |-> FALSE]
  <2>1. SensorsTypes' /\ ui'.rows = ui.rows /\ ui'.pipeline = ui.pipeline /\ ui'.deleting = ui.deleting
    BY <1>t, <1>7 DEF OnSensors!Save
  <2>2. (arg.new => arg.row = OnSensors!Made) /\ net' = OnSensors!Sent("save", arg) /\ "save" \notin DOMAIN net
    BY <1>7 DEF OnSensors!Save
  <2>3. srv' = srv /\ noise' = noise /\ "save" \notin SensorsReads
    BY <1>7, SensorsTold DEF OnSensors!Save
  <2> HIDE DEF arg
  <2> QED
    BY <2>1, <2>2, <2>3, SensorsAsks
<1>8. CASE OnSensors!LeaveDialog
  BY <1>t, <1>8, SensorsRests DEF OnSensors!LeaveDialog
<1>9. CASE OnSensors!ConfirmDelete
  <2>1. SensorsTypes' /\ ui'.rows = ui.rows /\ ui'.pipeline = ui.pipeline /\ ui'.deleting /\ "delete" \notin DOMAIN net /\ "deleted" \notin DOMAIN net
    BY <1>t, <1>9 DEF OnSensors!ConfirmDelete, SensorsShow, Paired
  <2> QED
    BY <1>9, <2>1, SensorsTold, SensorsAsks DEF OnSensors!ConfirmDelete
<1>10. CASE OnSensors!SetFilter
  BY <1>t, <1>10, SensorsRests DEF OnSensors!SetFilter
<1> QED
  BY <1>1, <1>2, <1>3, <1>4, <1>5, <1>6, <1>7, <1>8, <1>9, <1>10 DEF OnSensors!Clicks, OnSensors!RowButtons, OnSensors!Forms

\* The server takes a request: a read answers with what is there, a write keeps
\* to the rows there can be, the rest does not matter.
LEMMA SensorsTakes ==
  ASSUME SensorsShow, NEW k, NEW state, NEW answer, OnSensors!Handles(k, state, answer),
         {"rows", "pipeline"} \subseteq DOMAIN state, DOMAIN state.rows \subseteq OnSensors!AnyRow,
         \/ k \in SensorsWrites
         \/ state.rows = srv.rows /\ state.pipeline = srv.pipeline /\ (k \in SensorsReads => answer = SensorsThere)
  PROVE  SensorsShow'
<1>1. Turns(net, net', k) /\ net'[k].stage = "answered" /\ net'[k].got = answer /\ srv' = state /\ ui' = ui /\ noise' = noise
  BY SensorsNet
<1>2. Listing(net', noise', SensorsShown', SensorsThere', SensorsReads, SensorsWrites, Excuses)
  BY <1>1, ListingServed DEF SensorsShow, SensorsShown, SensorsThere
<1>3. Paired(net', "delete", "deleted", ui'.deleting)
  BY <1>1 DEF SensorsShow, Turns, Paired
<1>4. \A j \in DOMAIN net : net'[j].arg = net[j].arg
  BY DEF OnSensors!Handles
<1>5. SensorsBrought'
  BY <1>1, <1>4, SensorsTold DEF SensorsShow, Turns, SensorsBrought, SensorsTypes, SensorsThere, OnSensors!TypeOK, OnSensors!There, OnSensors!Out
<1>6. SensorsTypes'
  BY <1>1 DEF SensorsShow, SensorsTypes, OnSensors!TypeOK, OnSensors!There, OnSensors!Shown
<1> QED
  BY <1>2, <1>3, <1>5, <1>6 DEF SensorsShow

\* The server's answers keep it: a read is answered with what is there.
LEMMA SensorsServe == SensorsShow /\ OnSensors!Serve => SensorsShow'
<1> SUFFICES ASSUME SensorsShow, OnSensors!Serve PROVE SensorsShow'
  OBVIOUS
<1>2. /\ {"rows", "pipeline"} \subseteq DOMAIN srv /\ OnSensors!There \subseteq OnSensors!AnyRow
      /\ OnSensors!Made \in OnSensors!AnyRow /\ OnSensors!There = DOMAIN srv.rows
  BY DEF SensorsShow, SensorsTypes, OnSensors!TypeOK, OnSensors!AnyRow, OnSensors!There
<1>3. ASSUME NEW k \in OnSensors!Refreshes, OnSensors!Handles(k, srv, [rows |-> srv.rows, pipeline |-> srv.pipeline]) PROVE SensorsShow'
  BY <1>2, <1>3, SensorsTakes DEF SensorsThere
<1>4. ASSUME NEW k \in SensorsWrites, NEW rows, OnSensors!Handles(k, [srv EXCEPT !.rows = rows], {}),
             DOMAIN rows \subseteq OnSensors!AnyRow
      PROVE  SensorsShow'
  <2> DEFINE state == [srv EXCEPT !.rows = rows]
  <2>1. {"rows", "pipeline"} \subseteq DOMAIN state /\ state.rows = rows /\ OnSensors!Handles(k, state, {})
    BY <1>2, <1>4
  <2> HIDE DEF state
  <2> QED
    BY <1>4, <2>1, SensorsTakes
<1>5. ASSUME NEW p \in OnSensors!There, OnSensors!Handles(OnSensors!Named("check", p), [srv EXCEPT !.checks = @ + 1], {})
      PROVE  SensorsShow'
  <2> DEFINE state == [srv EXCEPT !.checks = @ + 1]
             k == OnSensors!Named("check", p)
  <2>1. {"rows", "pipeline"} \subseteq DOMAIN state /\ state.rows = srv.rows /\ state.pipeline = srv.pipeline
    BY <1>2
  <2>2. k \notin SensorsReads
    BY <1>2, SensorsTold
  <2>3. OnSensors!Handles(k, state, {})
    BY <1>5
  <2> HIDE DEF state, k
  <2> QED
    BY <1>2, <2>1, <2>2, <2>3, SensorsTakes
<1>6. ASSUME OnSensors!Handles("delete", [srv EXCEPT !.rows = OnSensors!Restrict(@, OnSensors!There \ {net["delete"].arg})], {})
      PROVE  SensorsShow'
  <2> DEFINE rows == OnSensors!Restrict(srv.rows, OnSensors!There \ {net["delete"].arg})
  <2>1. DOMAIN rows \subseteq OnSensors!AnyRow /\ OnSensors!Handles("delete", [srv EXCEPT !.rows = rows], {})
    BY <1>2, <1>6 DEF OnSensors!Restrict
  <2> HIDE DEF rows
  <2> QED
    BY <1>4, <2>1, SensorsTold
<1>7. ASSUME OnSensors!Out("save"), net["save"].arg.new <=> net["save"].arg.row \notin OnSensors!There,
             OnSensors!Handles("save", [srv EXCEPT !.rows = OnSensors!Saved(net["save"].arg)], {})
      PROVE  SensorsShow'
  <2> DEFINE rows == OnSensors!Saved(net["save"].arg)
  <2>1. DOMAIN rows = OnSensors!There \cup {net["save"].arg.row} /\ OnSensors!Handles("save", [srv EXCEPT !.rows = rows], {})
    BY <1>7 DEF OnSensors!Saved
  <2> HIDE DEF rows
  <2>2. net["save"].arg.row \in OnSensors!AnyRow
    BY <1>2, <1>7 DEF SensorsShow, SensorsBrought
  <2> QED
    BY <1>2, <1>4, <2>1, <2>2, SensorsTold
<1> QED
  BY <1>3, <1>5, <1>6, <1>7 DEF OnSensors!Serve

\* The list is read: it shows what came, or the page knows that it may not.
LEMMA SensorsReadBack ==
  ASSUME SensorsShow, NEW k \in OnSensors!Refreshes, OnSensors!RefreshBack(k)
  PROVE  SensorsShow'
<1>1. k \in DOMAIN net /\ Closes(net, net', k) /\ srv' = srv
  BY SensorsNet DEF OnSensors!RefreshBack, OnSensors!Returned, OnSensors!Answered, OnSensors!Rejected, OnSensors!Out
<1>2. /\ DOMAIN ui' = DOMAIN ui /\ ui'.form = ui.form /\ ui'.dialog = ui.dialog
      /\ ui'.deleting = IF k = "deleted" THEN FALSE ELSE ui.deleting
      /\ ui'.rows = IF net[k].stage = "answered" THEN net[k].got.rows ELSE [p \in {} |-> 0]
      /\ ui'.pipeline = IF net[k].stage = "answered" THEN net[k].got.pipeline ELSE ui.pipeline
  BY <1>1 DEF OnSensors!RefreshBack, SensorsShow, SensorsTypes, OnSensors!Answered, OnSensors!Out
<1>3. noise' \cap Excuses = {} => noise \cap Excuses = {} /\ net[k].stage = "answered"
  BY <1>2 DEF OnSensors!RefreshBack, OnSensors!Returned, OnSensors!Answered, OnSensors!Rejected, Excuses
<1>4. net[k].stage = "answered" /\ net[k].got = SensorsThere => SensorsShown' = SensorsThere
  BY <1>2 DEF SensorsShown, SensorsThere
<1>5. Listing(net', noise', SensorsShown', SensorsThere', SensorsReads, SensorsWrites, Excuses)
  <2>1. SensorsThere' = SensorsThere
    BY <1>1 DEF SensorsThere
  <2> QED
    BY <1>1, <1>3, <1>4, <2>1, ListingShows DEF SensorsShow, SensorsReads
<1>6. SensorsTypes'
  BY <1>1, <1>2 DEF SensorsShow, SensorsTypes, OnSensors!TypeOK, OnSensors!There, OnSensors!Shown, SensorsReads, SensorsBrought
<1>7. Paired(net', "delete", "deleted", ui'.deleting) /\ SensorsBrought'
  BY <1>1, <1>2 DEF SensorsShow, Closes, Paired, SensorsBrought, OnSensors!Out
<1> QED
  BY <1>5, <1>6, <1>7 DEF SensorsShow

\* A write is answered: a read of the list follows, or the page knows it should.
LEMMA SensorsWriteBack ==
  ASSUME SensorsShow, NEW k, NEW kk \in SensorsReads, OnSensors!Returned(k), k \notin SensorsReads, SensorsTypes',
         ui'.rows = ui.rows, ui'.pipeline = ui.pipeline, srv' = srv, ui'.deleting = ui.deleting \/ k = "delete",
         \/ OnSensors!Refresh(OnSensors!Closed(k), kk) /\ ui'.deleting = ui.deleting
         \/ net' = OnSensors!Closed(k) /\ (noise' = noise \cup {"lost answer"} \/ (k \notin SensorsWrites /\ noise' = noise)),
         k = "delete" <=> kk = "deleted"
  PROVE  SensorsShow'
<1> DEFINE closed == OnSensors!Closed(k)
<1>1. Closes(net, closed, k) /\ "delete" \notin SensorsReads /\ "save" \notin SensorsReads
  BY SensorsNet, SensorsTold DEF OnSensors!Returned, OnSensors!Answered, OnSensors!Rejected, OnSensors!Out
<1>2. SensorsShown' = SensorsShown /\ SensorsThere' = SensorsThere
  BY DEF SensorsShown, SensorsThere
<1>3. CASE net' = closed /\ (noise' = noise \cup {"lost answer"} \/ (k \notin SensorsWrites /\ noise' = noise))
  <2>1. noise' \cap Excuses = {} => noise \cap Excuses = {} /\ k \notin SensorsReads \cup SensorsWrites
    BY <1>3 DEF Excuses
  <2>2. Listing(net', noise', SensorsShown', SensorsThere', SensorsReads, SensorsWrites, Excuses)
    BY <1>1, <1>2, <1>3, <2>1, ListingCloses DEF SensorsShow
  <2>3. Paired(net', "delete", "deleted", ui'.deleting) /\ SensorsBrought'
    BY <1>1, <1>3 DEF SensorsShow, Closes, Paired, SensorsBrought, OnSensors!Out
  <2> QED
    BY <2>2, <2>3 DEF SensorsShow
<1>4. CASE OnSensors!Refresh(closed, kk) /\ ui'.deleting = ui.deleting
  <2>1. Sends(closed, net', kk) /\ (noise' \cap Excuses = {} => DOMAIN closed \cap SensorsReads = {})
    BY <1>4, SensorsNet DEF OnSensors!Refresh, SensorsReads, Excuses
  <2> HIDE DEF closed
  <2>2. Listing(net', noise', SensorsShown', SensorsThere', SensorsReads, SensorsWrites, Excuses)
    BY <1>1, <1>2, <2>1, ListingFollows DEF SensorsShow
  <2>3. Paired(net', "delete", "deleted", ui'.deleting)
    BY <1>1, <1>4, <2>1 DEF SensorsShow, Sends, Closes, Paired
  <2>4. SensorsBrought'
    BY <1>1, <2>1, ZenonT(60) DEF SensorsShow, Sends, Closes, SensorsBrought, OnSensors!Out
  <2> QED
    BY <2>2, <2>3, <2>4 DEF SensorsShow
<1> QED
  BY <1>3, <1>4

\* Every step of the page keeps it.
LEMMA SensorsShowStep == SensorsShow /\ OnSensors!Next => SensorsShow'
<1> SUFFICES ASSUME SensorsShow, OnSensors!Next PROVE SensorsShow'
  OBVIOUS
<1> USE DEF SensorsTypes, OnSensors!TypeOK, OnSensors!There, OnSensors!Shown, OnSensors!NoForm
<1>0. SensorsTypes
  BY DEF SensorsShow
<1>1. ASSUME NEW p \in OnSensors!AnyRow, OnSensors!CheckBack(p) PROVE SensorsShow'
  <2>1. OnSensors!Named("check", p) \notin SensorsReads \cup SensorsWrites /\ OnSensors!Named("check", p) # "delete"
    BY SensorsTold DEF SensorsNames
  <2>2. SensorsTypes' /\ ui'.rows = ui.rows /\ ui'.pipeline = ui.pipeline /\ ui'.deleting = ui.deleting
    BY <1>0, <1>1 DEF OnSensors!CheckBack
  <2>3. "refresh" \in SensorsReads
    BY SensorsTold
  <2> QED
    BY <1>1, <2>1, <2>2, <2>3, SensorsWriteBack DEF OnSensors!CheckBack
<1>2. CASE OnSensors!DeleteBack
  <2>1. SensorsTypes' /\ ui'.rows = ui.rows /\ ui'.pipeline = ui.pipeline /\ (OnSensors!Answered("delete") => ui'.deleting = ui.deleting)
    BY <1>0, <1>2 DEF OnSensors!DeleteBack
  <2> QED
    BY <1>2, <2>1, SensorsTold, SensorsWriteBack DEF OnSensors!DeleteBack, OnSensors!Lost, OnSensors!Returned
<1>3. CASE OnSensors!SaveBack
  <2>1. SensorsTypes' /\ ui'.rows = ui.rows /\ ui'.pipeline = ui.pipeline /\ ui'.deleting = ui.deleting
    BY <1>0, <1>3 DEF OnSensors!SaveBack
  <2> QED
    BY <1>3, <2>1, SensorsTold, SensorsWriteBack DEF OnSensors!SaveBack, OnSensors!Lost, OnSensors!Returned
<1>4. CASE OnSensors!PipelineDeleted
  <2>1. net' = net /\ ui' = ui /\ "stale rows" \in noise'
    BY <1>4 DEF OnSensors!PipelineDeleted
  <2>2. SensorsTypes'
    BY <1>0, <1>4 DEF OnSensors!PipelineDeleted
  <2>3. Listing(net', noise', SensorsShown', SensorsThere', SensorsReads, SensorsWrites, Excuses)
    BY <2>1 DEF SensorsShow, Listing, Excuses
  <2> QED
    BY <2>1, <2>2, <2>3 DEF SensorsShow, SensorsBrought, OnSensors!Out
<1>5. ASSUME NEW k \in DOMAIN net, OnSensors!Breaks(k) PROVE SensorsShow'
  <2>1. Turns(net, net', k) /\ net'[k].stage = "failed" /\ ui' = ui /\ srv' = srv /\ noise' = noise
    BY <1>5, SensorsNet
  <2>2. Listing(net', noise', SensorsShown', SensorsThere', SensorsReads, SensorsWrites, Excuses)
    BY <2>1, ListingFails DEF SensorsShow, SensorsShown, SensorsThere
  <2>3. \A j \in DOMAIN net : net'[j].arg = net[j].arg
    BY <1>5 DEF OnSensors!Breaks, OnSensors!Fails
  <2>4. SensorsBrought' /\ Paired(net', "delete", "deleted", ui'.deleting)
    BY <2>1, <2>3 DEF SensorsShow, Turns, SensorsBrought, Paired, OnSensors!Out
  <2> QED
    BY <1>0, <2>1, <2>2, <2>4 DEF SensorsShow
<1> QED
  BY <1>1, <1>2, <1>3, <1>4, <1>5, SensorsClicks, SensorsServe, SensorsReadBack DEF OnSensors!Next, OnSensors!Returns

\* It is what the page promises.
LEMMA SensorsShowEnough == SensorsShow => OnSensors!ShowsServer /\ OnSensors!TypeOK
  BY DEF SensorsShow, SensorsTypes, SensorsShown, SensorsThere, OnSensors!ShowsServer, OnSensors!Quiet, Listing, Fresh, Excuses

------------------------------------------------------------------------------
(* Connections *)

\* What is kept on this page: the row being tested is one there can be, or all
\* are tested.
ConnectionsSpins ==
  /\ {"form", "deleting", "testing", "testingAll"} \subseteq DOMAIN ui /\ "submitting" \in DOMAIN ui.form
  /\ ui.testing # OnConnections!Nobody => "all" \in DOMAIN net \/ ui.testing \in OnConnections!AnyRow
  /\ OnConnections!SpinnersHaveRequests

\* It holds when the page opens.
LEMMA ConnectionsInit == OnConnections!Init => ConnectionsSpins
<1> SUFFICES ASSUME OnConnections!Init PROVE ConnectionsSpins
  OBVIOUS
<1>1. PICK preset : ui = [rows |-> OnConnections!NoRows, usage |-> OnConnections!Unknown, unused |-> preset, form |-> OnConnections!NoForm,
             dialog |-> OnConnections!Nobody, deleting |-> FALSE, testing |-> OnConnections!Nobody, testingAll |-> FALSE, tested |-> {}]
  BY Zenon DEF OnConnections!Init
<1> QED
  BY <1>1 DEF ConnectionsSpins, OnConnections!SpinnersHaveRequests, OnConnections!NoForm

\* The requests of the page that are about no row.
ConnectionsNames == {"refresh", "saved", "deleted", "usage", "all", "delete", "save"}

\* The requests about a row are told from these and from each other.
LEMMA ConnectionsNamed == \A p \in OnConnections!AnyRow : OnConnections!Named("test", p) \notin ConnectionsNames
  BY NamesAssumption DEF Distinct, ConnectionsNames, OnConnections!Named

\* Every step of the page keeps it.
LEMMA ConnectionsStep == ConnectionsSpins /\ OnConnections!Next => ConnectionsSpins'
<1> SUFFICES ASSUME ConnectionsSpins, OnConnections!Next PROVE ConnectionsSpins'
  OBVIOUS
<1> USE DEF ConnectionsSpins, OnConnections!SpinnersHaveRequests, OnConnections!Out
<1>n. ui.testing \in OnConnections!AnyRow => OnConnections!Named("test", ui.testing) \notin ConnectionsNames
  BY ConnectionsNamed
<1>1. CASE OnConnections!Serve
  BY <1>1 DEF OnConnections!Serve, OnConnections!Handles, OnConnections!Restrict
<1>2. CASE OnConnections!UsageBack
  <2>1. DOMAIN ui' = DOMAIN ui /\ ui'.form = ui.form /\ ui'.testing = ui.testing /\ ui'.testingAll = ui.testingAll /\ ui'.deleting = ui.deleting
    BY <1>2 DEF OnConnections!UsageBack
  <2>2. DOMAIN net' = DOMAIN net \ {"usage"}
    BY <1>2 DEF OnConnections!UsageBack, OnConnections!Closed, OnConnections!Without, OnConnections!Restrict, OnConnections!With, OnConnections!Sent, OnConnections!Refresh
  <2> QED
    BY <2>1, <2>2, <1>n DEF ConnectionsNames
<1>3. ASSUME NEW k \in OnConnections!Refreshes, OnConnections!RefreshBack(k) PROVE ConnectionsSpins'
  <2>1. /\ DOMAIN ui' = DOMAIN ui /\ ui'.form = ui.form /\ ui'.testing = ui.testing /\ ui'.testingAll = ui.testingAll
        /\ ui'.deleting = IF k = "deleted" THEN FALSE ELSE ui.deleting
    BY <1>3 DEF OnConnections!RefreshBack
  <2>2. DOMAIN net' = DOMAIN net \ {k}
    BY <1>3 DEF OnConnections!RefreshBack, OnConnections!Closed, OnConnections!Without, OnConnections!Restrict, OnConnections!With, OnConnections!Sent, OnConnections!Refresh
  <2>3. k \in {"refresh", "saved", "deleted"}
    BY DEF OnConnections!Refreshes
  <2> QED
    BY <2>1, <2>2, <2>3, <1>n DEF ConnectionsNames
<1>4. ASSUME NEW p \in OnConnections!AnyRow, OnConnections!TestBack(p) PROVE ConnectionsSpins'
  <2> DEFINE k == OnConnections!Named("test", p)
  <2>1. DOMAIN ui' = DOMAIN ui /\ ui'.form = ui.form /\ ui'.deleting = ui.deleting /\ ui'.testingAll = ui.testingAll /\ ui'.testing = OnConnections!Nobody
    BY <1>4 DEF OnConnections!TestBack
  <2>2. DOMAIN net' = DOMAIN net \ {k}
    BY <1>4 DEF OnConnections!TestBack, OnConnections!Closed, OnConnections!Without, OnConnections!Restrict, OnConnections!With, OnConnections!Sent, OnConnections!Refresh
  <2>3. k \notin ConnectionsNames
    BY ConnectionsNamed
  <2> HIDE DEF k
  <2> QED
    BY <2>1, <2>2, <2>3 DEF ConnectionsNames
<1>5. CASE OnConnections!TestAllGoesOn
  <2>1. DOMAIN ui' = DOMAIN ui /\ ui'.form = ui.form /\ ui'.deleting = ui.deleting
    BY <1>5 DEF OnConnections!TestAllGoesOn
  <2>2. \/ DOMAIN net' = DOMAIN net \cup {"all"}
        \/ DOMAIN net' = DOMAIN net \ {"all"} /\ ui'.testing = OnConnections!Nobody /\ ui'.testingAll = FALSE
    BY <1>5 DEF OnConnections!TestAllGoesOn, OnConnections!Closed, OnConnections!Without, OnConnections!Restrict, OnConnections!With, OnConnections!Sent, OnConnections!Refresh
  <2> QED
    BY <2>1, <2>2
<1>6. CASE OnConnections!DeleteBack
  <2>1. DOMAIN ui' = DOMAIN ui /\ ui'.form = ui.form /\ ui'.testing = ui.testing /\ ui'.testingAll = ui.testingAll
    BY <1>6 DEF OnConnections!DeleteBack
  <2>2. \/ DOMAIN net' = (DOMAIN net \ {"delete"}) \cup {"deleted"}
        \/ ui'.deleting = FALSE /\ DOMAIN net' = DOMAIN net \ {"delete"}
    BY <1>6 DEF OnConnections!DeleteBack, OnConnections!Closed, OnConnections!Without, OnConnections!Restrict, OnConnections!With, OnConnections!Sent, OnConnections!Refresh
  <2> QED
    BY <2>1, <2>2, <1>n DEF ConnectionsNames
<1>7. CASE OnConnections!SaveBack
  <2>1. DOMAIN ui' = DOMAIN ui /\ ui'.deleting = ui.deleting /\ ui'.testing = ui.testing /\ ui'.testingAll = ui.testingAll /\ "submitting" \in DOMAIN ui'.form /\ ui'.form.submitting = FALSE
    BY <1>7 DEF OnConnections!SaveBack, OnConnections!NoForm
  <2>2. \/ DOMAIN net' = (DOMAIN net \ {"save"}) \cup {"saved"}
        \/ DOMAIN net' = DOMAIN net \ {"save"}
    BY <1>7 DEF OnConnections!SaveBack, OnConnections!Closed, OnConnections!Without, OnConnections!Restrict, OnConnections!With, OnConnections!Sent, OnConnections!Refresh, OnConnections!NoForm
  <2> QED
    BY <2>1, <2>2, <1>n DEF ConnectionsNames
<1>8. ASSUME NEW p \in OnConnections!AnyRow, OnConnections!Test(p) PROVE ConnectionsSpins'
  <2> DEFINE k == OnConnections!Named("test", p)
  <2>1. DOMAIN ui' = DOMAIN ui /\ ui'.form = ui.form /\ ui'.deleting = ui.deleting /\ ui'.testingAll = ui.testingAll /\ ui'.testing = p
    BY <1>8 DEF OnConnections!Test
  <2>2. DOMAIN net' = DOMAIN net \cup {k}
    BY <1>8 DEF OnConnections!Test, OnConnections!Closed, OnConnections!Without, OnConnections!Restrict, OnConnections!With, OnConnections!Sent, OnConnections!Refresh
  <2> QED
    BY <2>1, <2>2
<1>9. ASSUME NEW p \in OnConnections!AnyRow, OnConnections!Edit(p) PROVE ConnectionsSpins'
  BY <1>9 DEF OnConnections!Edit, OnConnections!NoForm
<1>10. ASSUME NEW p \in OnConnections!AnyRow, OnConnections!AskDelete(p) PROVE ConnectionsSpins'
  BY <1>10 DEF OnConnections!AskDelete
<1>11. CASE OnConnections!New
  BY <1>11 DEF OnConnections!New, OnConnections!NoForm
<1>12. CASE OnConnections!Type
  BY <1>12 DEF OnConnections!Type
<1>13. CASE OnConnections!ChangeType
  BY <1>13 DEF OnConnections!ChangeType
<1>14. CASE OnConnections!LeaveForm
  BY <1>14 DEF OnConnections!LeaveForm, OnConnections!NoForm
<1>15. CASE OnConnections!SaveNew
  BY <1>15 DEF OnConnections!SaveNew, OnConnections!Sent, OnConnections!With
<1>16. CASE OnConnections!SaveEdit
  <2>1. CASE ui.form.name = ui.form.was
    BY <1>16, <2>1 DEF OnConnections!SaveEdit, OnConnections!NoForm
  <2>2. CASE ui.form.name # ui.form.was
    BY <1>16, <2>2 DEF OnConnections!SaveEdit, OnConnections!Closed, OnConnections!Without, OnConnections!Restrict, OnConnections!With, OnConnections!Sent, OnConnections!Refresh
  <2> QED
    BY <2>1, <2>2
<1>17. CASE OnConnections!TestAll
  <2>1. DOMAIN ui' = DOMAIN ui /\ ui'.form = ui.form /\ ui'.deleting = ui.deleting
    BY <1>17 DEF OnConnections!TestAll
  <2>2. DOMAIN net' = DOMAIN net \cup {"all"}
    BY <1>17 DEF OnConnections!TestAll, OnConnections!Closed, OnConnections!Without, OnConnections!Restrict, OnConnections!With, OnConnections!Sent, OnConnections!Refresh
  <2> QED
    BY <2>1, <2>2
<1>18. CASE OnConnections!LeaveDialog
  BY <1>18 DEF OnConnections!LeaveDialog
<1>19. CASE OnConnections!ConfirmDelete
  BY <1>19 DEF OnConnections!ConfirmDelete, OnConnections!Sent, OnConnections!With
<1>20. CASE OnConnections!SetFilter
  BY <1>20 DEF OnConnections!SetFilter
<1>21. ASSUME NEW k \in DOMAIN net, OnConnections!Breaks(k) PROVE ConnectionsSpins'
  BY <1>21 DEF OnConnections!Breaks, OnConnections!Fails
<1> QED
  BY <1>1, <1>2, <1>3, <1>4, <1>5, <1>6, <1>7, <1>8, <1>9, <1>10, <1>11, <1>12, <1>13, <1>14, <1>15, <1>16, <1>17, <1>18, <1>19, <1>20, <1>21 DEF OnConnections!Next, OnConnections!Returns, OnConnections!Clicks, OnConnections!RowButtons, OnConnections!Forms

(* What it shows *)

\* The requests that read the list and those that change it.
ConnectionsReads == OnConnections!Refreshes
ConnectionsWrites == {"delete", "save"}

\* Types; "test all" goes on as long as there are rows to test.
ConnectionsTypes ==
  /\ {"rows", "tested", "deleting", "form", "dialog"} \subseteq DOMAIN ui /\ "kind" \in DOMAIN ui.form /\ "names" \in DOMAIN srv
  /\ OnConnections!TypeOK
ConnectionsBrought ==
  /\ Brought(net, ConnectionsReads, OnConnections!AnyRow)
  /\ OnConnections!Out("all") => net["all"].arg \subseteq OnConnections!AnyRow /\ net["all"].arg # {}
ConnectionsShow ==
  /\ ConnectionsTypes /\ ConnectionsBrought
  /\ Paired(net, "delete", "deleted", ui.deleting)
  /\ Listing(net, noise, ui.rows, srv.names, ConnectionsReads, ConnectionsWrites, Excuses)

\* Reads and writes are told from each other and from the rest.
LEMMA ConnectionsTold ==
  /\ ConnectionsReads \cap ConnectionsWrites = {}
  /\ \A p \in OnConnections!AnyRow :
       OnConnections!Named("test", p) \notin ConnectionsNames /\ OnConnections!Named("test", p) \notin ConnectionsReads \cup ConnectionsWrites
  /\ \A k \in {"refresh", "saved", "deleted"} : k \in ConnectionsReads
  /\ "delete" \in ConnectionsWrites /\ "save" \in ConnectionsWrites
  /\ \A k \in {"usage", "all"} : k \notin ConnectionsReads \cup ConnectionsWrites
  BY ConnectionsNamed DEF ConnectionsReads, ConnectionsWrites, ConnectionsNames, OnConnections!Refreshes

\* The least of some rows is one of them.
LEMMA ConnectionsMin ==
  ASSUME NEW S, S \subseteq OnConnections!AnyRow, S # {}
  PROVE  OnConnections!Min(S) \in S
<1>1. S \subseteq Nat
  <2>1. Cardinality(Rows) \in Nat
    BY RowsAssumption, FS_CardinalityType
  <2>2. OnConnections!Cardinality(Rows) = Cardinality(Rows)
    BY DEF OnConnections!Cardinality, Cardinality
  <2> QED
    BY <2>1, <2>2, RowsAssumption DEF OnConnections!AnyRow, OnConnections!Made
<1>2. PICK m \in S : \A k \in S : <<k, m>> \notin OpToRel(<, Nat)
  BY <1>1, WFMin, NatLessThanWellFounded, Zenon
<1>3. ASSUME NEW k \in S PROVE m <= k
  <2>1. k \in Nat /\ m \in Nat
    BY <1>1
  <2>2. ~(k < m)
    BY <1>2, <2>1 DEF OpToRel
  <2> QED
    BY <2>1, <2>2
<1> QED
  BY <1>3 DEF OnConnections!Min

\* What the page's helpers do to the requests.
LEMMA ConnectionsNet ==
  /\ \A requests, k, arg : Sends(requests, OnConnections!With(requests, k, arg), k)
  /\ \A k \in DOMAIN net : Closes(net, OnConnections!Closed(k), k)
  /\ \A k, state, answer : ConnectionsShow /\ OnConnections!Handles(k, state, answer) =>
       Turns(net, net', k) /\ net'[k].stage = "answered" /\ net'[k].got = answer /\ srv' = state /\ ui' = ui /\ noise' = noise
  /\ \A k : ConnectionsShow /\ OnConnections!Breaks(k) =>
       Turns(net, net', k) /\ net'[k].stage = "failed" /\ srv' = srv /\ ui' = ui /\ noise' = noise
<1>1. \A requests, k, arg : Sends(requests, OnConnections!With(requests, k, arg), k)
  BY DEF Sends, OnConnections!With
<1>2. \A k \in DOMAIN net : Closes(net, OnConnections!Closed(k), k)
  BY DEF Closes, OnConnections!Closed, OnConnections!Without, OnConnections!Restrict
<1>3. ASSUME NEW k, NEW state, NEW answer, ConnectionsShow, OnConnections!Handles(k, state, answer)
      PROVE  Turns(net, net', k) /\ net'[k].stage = "answered" /\ net'[k].got = answer /\ srv' = state /\ ui' = ui /\ noise' = noise
  BY <1>3 DEF Turns, OnConnections!Handles, OnConnections!Out, ConnectionsShow, Listing
<1>4. ASSUME NEW k, ConnectionsShow, OnConnections!Breaks(k)
      PROVE  Turns(net, net', k) /\ net'[k].stage = "failed" /\ srv' = srv /\ ui' = ui /\ noise' = noise
  BY <1>4 DEF Turns, OnConnections!Breaks, OnConnections!Fails, OnConnections!Out, ConnectionsShow, Listing
<1> QED
  BY <1>1, <1>2, <1>3, <1>4

\* It holds when the page opens.
LEMMA ConnectionsShowInit == OnConnections!Init => ConnectionsShow
<1> SUFFICES ASSUME OnConnections!Init PROVE ConnectionsShow
  OBVIOUS
<1>0. PICK preset \in BOOLEAN :
        /\ srv = [names |-> [p \in Rows |-> p], configs |-> {{<<IF preset THEN "task step" ELSE "graph source", 1>>}}, tests |-> 0]
        /\ ui = [rows |-> OnConnections!NoRows, usage |-> OnConnections!Unknown, unused |-> preset, form |-> OnConnections!NoForm,
                 dialog |-> OnConnections!Nobody, deleting |-> FALSE, testing |-> OnConnections!Nobody, testingAll |-> FALSE, tested |-> {}]
  BY Zenon DEF OnConnections!Init
<1>1. net = OnConnections!With(OnConnections!With(<<>>, "refresh", {}), "usage", {}) /\ ConnectionsTypes
  BY <1>0 DEF OnConnections!Init, ConnectionsTypes, OnConnections!TypeOK, OnConnections!There, OnConnections!Shown, OnConnections!NoForm, OnConnections!AnyRow
<1>2. /\ DOMAIN net = {"refresh", "usage"} /\ net["refresh"].stage = "sent"
      /\ \A k \in DOMAIN net : DOMAIN net[k] = {"arg", "stage", "got"} /\ net[k].stage = "sent"
  BY <1>1, DOMAIN <<>> = {} DEF OnConnections!With
<1>3. Listing(net, noise, ui.rows, srv.names, ConnectionsReads, ConnectionsWrites, Excuses)
  <2>1. ConnectionsReads \cap DOMAIN net = {"refresh"}
    BY <1>2, ConnectionsTold
  <2> QED
    BY <1>2, <2>1, ConnectionsTold, ListingStarts
<1> QED
  BY <1>1, <1>2, <1>3 DEF ConnectionsShow, ConnectionsBrought, Brought, Paired, OnConnections!Out

\* What does not concern the list.
LEMMA ConnectionsRests ==
  ASSUME ConnectionsShow, ConnectionsTypes', ui'.rows = ui.rows, ui'.deleting = ui.deleting, net' = net, srv' = srv, noise' = noise
  PROVE  ConnectionsShow'
  BY DEF ConnectionsShow, ConnectionsBrought, OnConnections!Out

\* A request is sent.
LEMMA ConnectionsAsks ==
  ASSUME ConnectionsShow, ConnectionsTypes', NEW k, NEW arg, net' = OnConnections!Sent(k, arg),
         k \in ConnectionsWrites => k \notin DOMAIN net, k \notin ConnectionsReads,
         k = "all" => arg \subseteq OnConnections!AnyRow /\ arg # {},
         ui'.rows = ui.rows, srv' = srv, noise' = noise,
         IF k = "delete" THEN ui'.deleting /\ "deleted" \notin DOMAIN net ELSE ui'.deleting = ui.deleting
  PROVE  ConnectionsShow'
<1>1. Sends(net, net', k)
  BY ConnectionsNet DEF OnConnections!Sent
<1>2. net'[k].arg = arg
  BY DEF OnConnections!Sent, OnConnections!With
<1>3. Listing(net', noise', ui'.rows, srv'.names, ConnectionsReads, ConnectionsWrites, Excuses)
  BY <1>1, ListingSends DEF ConnectionsShow
<1>4. Paired(net', "delete", "deleted", ui'.deleting)
  BY <1>1, ConnectionsTold DEF ConnectionsShow, Sends, Paired
<1>5. ConnectionsBrought'
  BY <1>1, <1>2, ConnectionsTold DEF ConnectionsShow, Sends, ConnectionsBrought, Brought, OnConnections!Out
<1> QED
  BY <1>3, <1>4, <1>5 DEF ConnectionsShow

\* The user's clicks.
LEMMA ConnectionsClicks == ConnectionsShow /\ OnConnections!Clicks => ConnectionsShow'
<1> SUFFICES ASSUME ConnectionsShow, OnConnections!Clicks PROVE ConnectionsShow'
  OBVIOUS
<1>t. ConnectionsTypes
  BY DEF ConnectionsShow
<1> USE DEF ConnectionsTypes, OnConnections!TypeOK, OnConnections!There, OnConnections!Shown, OnConnections!NoForm, OnConnections!Out
<1>1. ASSUME NEW p \in OnConnections!AnyRow, OnConnections!Test(p) PROVE ConnectionsShow'
  <2>1. ConnectionsTypes' /\ ui'.rows = ui.rows /\ ui'.deleting = ui.deleting
    BY <1>t, <1>1 DEF OnConnections!Test
  <2>2. OnConnections!Named("test", p) \notin ConnectionsReads /\ OnConnections!Named("test", p) \notin {"delete", "all"}
    BY ConnectionsTold DEF ConnectionsNames
  <2> QED
    BY <1>1, <2>1, <2>2, ConnectionsAsks DEF OnConnections!Test
<1>2. ASSUME NEW p \in OnConnections!AnyRow, OnConnections!Edit(p) PROVE ConnectionsShow'
  <2>1. ConnectionsTypes' /\ ui'.rows = ui.rows /\ ui'.deleting = ui.deleting
    BY <1>t, <1>2 DEF OnConnections!Edit
  <2> QED
    BY <1>2, <2>1, ConnectionsRests DEF OnConnections!Edit
<1>3. ASSUME NEW p \in OnConnections!AnyRow, OnConnections!AskDelete(p) PROVE ConnectionsShow'
  BY <1>t, <1>3, ConnectionsRests DEF OnConnections!AskDelete
<1>4. CASE OnConnections!New
  BY <1>t, <1>4, ConnectionsRests DEF OnConnections!New
<1>5. CASE OnConnections!Type
  BY <1>t, <1>5, ConnectionsRests DEF OnConnections!Type
<1>6. CASE OnConnections!ChangeType
  BY <1>t, <1>6, ConnectionsRests DEF OnConnections!ChangeType
<1>7. CASE OnConnections!LeaveForm
  BY <1>t, <1>7, ConnectionsRests DEF OnConnections!LeaveForm
<1>8. CASE OnConnections!SaveNew
  <2>1. ConnectionsTypes' /\ ui'.rows = ui.rows /\ ui'.deleting = ui.deleting
    BY <1>t, <1>8 DEF OnConnections!SaveNew
  <2> QED
    BY <1>8, <2>1, ConnectionsTold, ConnectionsAsks DEF OnConnections!SaveNew
<1>9. CASE OnConnections!SaveEdit
  <2>1. ConnectionsTypes' /\ ui'.rows = ui.rows /\ ui'.deleting = ui.deleting
    BY <1>t, <1>9 DEF OnConnections!SaveEdit
  <2> QED
    BY <1>9, <2>1, ConnectionsTold, ConnectionsAsks, ConnectionsRests DEF OnConnections!SaveEdit
<1>10. CASE OnConnections!TestAll
  <2>1. ConnectionsTypes' /\ ui'.rows = ui.rows /\ ui'.deleting = ui.deleting
    BY <1>t, <1>10 DEF OnConnections!TestAll
  <2>2. OnConnections!Shown \subseteq OnConnections!AnyRow /\ OnConnections!Shown # {}
    BY <1>t, <1>10 DEF OnConnections!TestAll
  <2> QED
    BY <1>10, <2>1, <2>2, ConnectionsTold, ConnectionsAsks DEF OnConnections!TestAll
<1>11. CASE OnConnections!LeaveDialog
  BY <1>t, <1>11, ConnectionsRests DEF OnConnections!LeaveDialog
<1>12. CASE OnConnections!ConfirmDelete
  <2>1. ConnectionsTypes' /\ ui'.rows = ui.rows /\ ui'.deleting /\ "delete" \notin DOMAIN net /\ "deleted" \notin DOMAIN net
    BY <1>t, <1>12 DEF OnConnections!ConfirmDelete, ConnectionsShow, Paired
  <2> QED
    BY <1>12, <2>1, ConnectionsTold, ConnectionsAsks DEF OnConnections!ConfirmDelete
<1>13. CASE OnConnections!SetFilter
  BY <1>t, <1>13, ConnectionsRests DEF OnConnections!SetFilter
<1> QED
  BY <1>1, <1>2, <1>3, <1>4, <1>5, <1>6, <1>7, <1>8, <1>9, <1>10, <1>11, <1>12, <1>13
  DEF OnConnections!Clicks, OnConnections!RowButtons, OnConnections!Forms

\* The server takes a request: a read answers with what is there, a write keeps
\* to the rows there can be, the rest does not matter.
LEMMA ConnectionsTakes ==
  ASSUME ConnectionsShow, NEW k, NEW state, NEW answer, OnConnections!Handles(k, state, answer),
         "names" \in DOMAIN state, DOMAIN state.names \subseteq OnConnections!AnyRow,
         k \in ConnectionsWrites \/ (state.names = srv.names /\ (k \in ConnectionsReads => answer = srv.names))
  PROVE  ConnectionsShow'
<1>1. Turns(net, net', k) /\ net'[k].stage = "answered" /\ net'[k].got = answer /\ srv' = state /\ ui' = ui /\ noise' = noise
  BY ConnectionsNet
<1>2. Listing(net', noise', ui'.rows, srv'.names, ConnectionsReads, ConnectionsWrites, Excuses)
  BY <1>1, ListingServed DEF ConnectionsShow
<1>3. Paired(net', "delete", "deleted", ui'.deleting)
  BY <1>1 DEF ConnectionsShow, Turns, Paired
<1>4. \A j \in DOMAIN net : net'[j].arg = net[j].arg
  BY DEF OnConnections!Handles
<1>5. ConnectionsBrought'
  BY <1>1, <1>4, ConnectionsTold
  DEF ConnectionsShow, Turns, ConnectionsBrought, Brought, ConnectionsTypes, OnConnections!TypeOK, OnConnections!There, OnConnections!Out
<1>6. ConnectionsTypes'
  BY <1>1 DEF ConnectionsShow, ConnectionsTypes, OnConnections!TypeOK, OnConnections!There, OnConnections!Shown
<1> QED
  BY <1>2, <1>3, <1>5, <1>6 DEF ConnectionsShow

\* The server's answers keep it: a read is answered with what is there.
LEMMA ConnectionsServe == ConnectionsShow /\ OnConnections!Serve => ConnectionsShow'
<1> SUFFICES ASSUME ConnectionsShow, OnConnections!Serve PROVE ConnectionsShow'
  OBVIOUS
<1>2. /\ "names" \in DOMAIN srv /\ OnConnections!There \subseteq OnConnections!AnyRow
      /\ OnConnections!Made \in OnConnections!AnyRow /\ OnConnections!There = DOMAIN srv.names
  BY DEF ConnectionsShow, ConnectionsTypes, OnConnections!TypeOK, OnConnections!AnyRow, OnConnections!There
<1>3. ASSUME NEW k \in OnConnections!Refreshes, OnConnections!Handles(k, srv, srv.names) PROVE ConnectionsShow'
  BY <1>2, <1>3, ConnectionsTakes
<1>4. ASSUME NEW k \in ConnectionsWrites, NEW names, OnConnections!Handles(k, [srv EXCEPT !.names = names], {}),
             DOMAIN names \subseteq OnConnections!AnyRow
      PROVE  ConnectionsShow'
  <2> DEFINE state == [srv EXCEPT !.names = names]
  <2>1. "names" \in DOMAIN state /\ state.names = names /\ OnConnections!Handles(k, state, {})
    BY <1>2, <1>4
  <2> HIDE DEF state
  <2> QED
    BY <1>4, <2>1, ConnectionsTakes
<1>5. ASSUME NEW p \in OnConnections!There, OnConnections!Handles(OnConnections!Named("test", p), [srv EXCEPT !.tests = @ + 1], {})
      PROVE  ConnectionsShow'
  <2> DEFINE state == [srv EXCEPT !.tests = @ + 1]
             k == OnConnections!Named("test", p)
  <2>1. "names" \in DOMAIN state /\ state.names = srv.names
    BY <1>2
  <2>2. k \notin ConnectionsReads
    BY <1>2, ConnectionsTold
  <2>3. OnConnections!Handles(k, state, {})
    BY <1>5
  <2> HIDE DEF state, k
  <2> QED
    BY <1>2, <2>1, <2>2, <2>3, ConnectionsTakes
<1>6. ASSUME OnConnections!Handles("usage", srv, srv.configs) \/ OnConnections!Handles("all", srv, {}) PROVE ConnectionsShow'
  BY <1>2, <1>6, ConnectionsTold, ConnectionsTakes
<1>7. ASSUME OnConnections!Handles("delete", [srv EXCEPT !.names = OnConnections!Restrict(@, OnConnections!There \ {net["delete"].arg})], {})
      PROVE  ConnectionsShow'
  <2> DEFINE names == OnConnections!Restrict(srv.names, OnConnections!There \ {net["delete"].arg})
  <2>1. DOMAIN names \subseteq OnConnections!AnyRow /\ OnConnections!Handles("delete", [srv EXCEPT !.names = names], {})
    BY <1>2, <1>7 DEF OnConnections!Restrict
  <2> HIDE DEF names
  <2> QED
    BY <1>4, <2>1, ConnectionsTold
<1>8. ASSUME net["save"].arg.row \in OnConnections!There \/ net["save"].arg.row = OnConnections!Made,
             OnConnections!Handles("save", [srv EXCEPT !.names = [p \in OnConnections!There \cup {net["save"].arg.row} |->
               IF p = net["save"].arg.row THEN net["save"].arg.name ELSE srv.names[p]]], {})
      PROVE  ConnectionsShow'
  <2> DEFINE names == [p \in OnConnections!There \cup {net["save"].arg.row} |->
                         IF p = net["save"].arg.row THEN net["save"].arg.name ELSE srv.names[p]]
  <2>1. DOMAIN names = OnConnections!There \cup {net["save"].arg.row} /\ OnConnections!Handles("save", [srv EXCEPT !.names = names], {})
    BY <1>8
  <2> HIDE DEF names
  <2> QED
    BY <1>2, <1>4, <1>8, <2>1, ConnectionsTold
<1> QED
  BY <1>3, <1>5, <1>6, <1>7, <1>8 DEF OnConnections!Serve

\* The list is read: it shows what came, or the page knows that it may not.
LEMMA ConnectionsReadBack ==
  ASSUME ConnectionsShow, NEW k \in OnConnections!Refreshes, OnConnections!RefreshBack(k)
  PROVE  ConnectionsShow'
<1>1. k \in DOMAIN net /\ Closes(net, net', k) /\ srv' = srv
  BY ConnectionsNet DEF OnConnections!RefreshBack, OnConnections!Returned, OnConnections!Answered, OnConnections!Rejected, OnConnections!Out
<1>2. /\ DOMAIN ui' = DOMAIN ui /\ ui'.form = ui.form /\ ui'.dialog = ui.dialog /\ ui'.tested = ui.tested
      /\ ui'.deleting = IF k = "deleted" THEN FALSE ELSE ui.deleting
      /\ ui'.rows = IF net[k].stage = "answered" THEN net[k].got ELSE [p \in {} |-> 0]
  BY <1>1 DEF OnConnections!RefreshBack, ConnectionsShow, ConnectionsTypes, OnConnections!Answered, OnConnections!Out
<1>3. noise' \cap Excuses = {} => noise \cap Excuses = {} /\ net[k].stage = "answered" /\ ui'.rows = net[k].got
  BY <1>2 DEF OnConnections!RefreshBack, OnConnections!Returned, OnConnections!Answered, OnConnections!Rejected, Excuses
<1>4. Listing(net', noise', ui'.rows, srv'.names, ConnectionsReads, ConnectionsWrites, Excuses)
  BY <1>1, <1>3, ListingShows DEF ConnectionsShow, ConnectionsReads
<1>5. ConnectionsTypes'
  BY <1>1, <1>2
  DEF ConnectionsShow, ConnectionsTypes, OnConnections!TypeOK, OnConnections!There, OnConnections!Shown, ConnectionsReads, ConnectionsBrought, Brought
<1>6. Paired(net', "delete", "deleted", ui'.deleting) /\ ConnectionsBrought'
  BY <1>1, <1>2 DEF ConnectionsShow, Closes, Paired, ConnectionsBrought, Brought, OnConnections!Out
<1> QED
  BY <1>4, <1>5, <1>6 DEF ConnectionsShow

\* Another request is answered: a read of the list follows, or the page knows
\* it should, or it was no write.
LEMMA ConnectionsWriteBack ==
  ASSUME ConnectionsShow, NEW k, NEW kk \in ConnectionsReads, OnConnections!Returned(k), k \notin ConnectionsReads, ConnectionsTypes',
         ui'.rows = ui.rows, srv' = srv, ui'.deleting = ui.deleting \/ k = "delete",
         \/ OnConnections!Refresh(OnConnections!Closed(k), kk) /\ ui'.deleting = ui.deleting
         \/ net' = OnConnections!Closed(k) /\ (noise' = noise \cup {"lost answer"} \/ (k \notin ConnectionsWrites /\ noise' = noise)),
         k = "delete" <=> kk = "deleted"
  PROVE  ConnectionsShow'
<1> DEFINE closed == OnConnections!Closed(k)
<1>1. Closes(net, closed, k) /\ "delete" \notin ConnectionsReads /\ "all" \notin ConnectionsReads
  BY ConnectionsNet, ConnectionsTold DEF OnConnections!Returned, OnConnections!Answered, OnConnections!Rejected, OnConnections!Out
<1>2. CASE net' = closed /\ (noise' = noise \cup {"lost answer"} \/ (k \notin ConnectionsWrites /\ noise' = noise))
  <2>1. noise' \cap Excuses = {} => noise \cap Excuses = {} /\ k \notin ConnectionsReads \cup ConnectionsWrites
    BY <1>2 DEF Excuses
  <2>2. Listing(net', noise', ui'.rows, srv'.names, ConnectionsReads, ConnectionsWrites, Excuses)
    BY <1>1, <1>2, <2>1, ListingCloses DEF ConnectionsShow
  <2>3. Paired(net', "delete", "deleted", ui'.deleting) /\ ConnectionsBrought'
    BY <1>1, <1>2 DEF ConnectionsShow, Closes, Paired, ConnectionsBrought, Brought, OnConnections!Out
  <2> QED
    BY <2>2, <2>3 DEF ConnectionsShow
<1>3. CASE OnConnections!Refresh(closed, kk) /\ ui'.deleting = ui.deleting
  <2>1. Sends(closed, net', kk) /\ (noise' \cap Excuses = {} => DOMAIN closed \cap ConnectionsReads = {})
    BY <1>3, ConnectionsNet DEF OnConnections!Refresh, ConnectionsReads, Excuses
  <2> HIDE DEF closed
  <2>2. Listing(net', noise', ui'.rows, srv'.names, ConnectionsReads, ConnectionsWrites, Excuses)
    BY <1>1, <2>1, ListingFollows DEF ConnectionsShow
  <2>3. Paired(net', "delete", "deleted", ui'.deleting)
    BY <1>1, <1>3, <2>1 DEF ConnectionsShow, Sends, Closes, Paired
  <2>4. ConnectionsBrought'
    BY <1>1, <2>1 DEF ConnectionsShow, Sends, Closes, ConnectionsBrought, Brought, OnConnections!Out
  <2> QED
    BY <2>2, <2>3, <2>4 DEF ConnectionsShow
<1> QED
  BY <1>2, <1>3

\* "Test all" goes on to the next row.
LEMMA ConnectionsTestsAll == ConnectionsShow /\ OnConnections!TestAllGoesOn => ConnectionsShow'
<1> SUFFICES ASSUME ConnectionsShow, OnConnections!TestAllGoesOn PROVE ConnectionsShow'
  OBVIOUS
<1> DEFINE p == OnConnections!Min(net["all"].arg)
           rest == net["all"].arg \ {p}
<1>1. OnConnections!Returned("all") /\ srv' = srv /\ noise' = noise
  BY DEF OnConnections!TestAllGoesOn
<1>2. p \in OnConnections!AnyRow /\ rest \subseteq OnConnections!AnyRow
  BY <1>1, ConnectionsMin
  DEF ConnectionsShow, ConnectionsBrought, OnConnections!Returned, OnConnections!Answered, OnConnections!Rejected, OnConnections!Out
<1>3. \/ rest = {} /\ net' = OnConnections!Closed("all")
      \/ rest # {} /\ net' = OnConnections!Sent("all", rest)
  BY DEF OnConnections!TestAllGoesOn
<1>4. /\ DOMAIN ui' = DOMAIN ui /\ ui'.rows = ui.rows /\ ui'.deleting = ui.deleting /\ ui'.form = ui.form /\ ui'.dialog = ui.dialog
      /\ ui'.tested = ui.tested \cup {p}
  BY DEF OnConnections!TestAllGoesOn, ConnectionsShow, ConnectionsTypes
<1>5. ConnectionsTypes'
  BY <1>1, <1>2, <1>4 DEF ConnectionsShow, ConnectionsTypes, OnConnections!TypeOK, OnConnections!There, OnConnections!Shown
<1> HIDE DEF p, rest
<1>6. CASE rest = {} /\ net' = OnConnections!Closed("all")
  BY <1>1, <1>4, <1>5, <1>6, ConnectionsTold, ConnectionsWriteBack
<1>7. CASE rest # {} /\ net' = OnConnections!Sent("all", rest)
  BY <1>1, <1>2, <1>4, <1>5, <1>7, ConnectionsTold, ConnectionsAsks
<1> QED
  BY <1>3, <1>6, <1>7

\* Every step of the page keeps it.
LEMMA ConnectionsShowStep == ConnectionsShow /\ OnConnections!Next => ConnectionsShow'
<1> SUFFICES ASSUME ConnectionsShow, OnConnections!Next PROVE ConnectionsShow'
  OBVIOUS
<1> USE DEF ConnectionsTypes, OnConnections!TypeOK, OnConnections!There, OnConnections!Shown, OnConnections!NoForm
<1>0. ConnectionsTypes
  BY DEF ConnectionsShow
<1>1. ASSUME NEW p \in OnConnections!AnyRow, OnConnections!TestBack(p) PROVE ConnectionsShow'
  <2>1. OnConnections!Named("test", p) \notin ConnectionsReads \cup ConnectionsWrites /\ OnConnections!Named("test", p) # "delete"
    BY ConnectionsTold DEF ConnectionsNames
  <2>2. ConnectionsTypes' /\ ui'.rows = ui.rows /\ ui'.deleting = ui.deleting
    BY <1>0, <1>1 DEF OnConnections!TestBack
  <2> QED
    BY <1>1, <2>1, <2>2, ConnectionsTold, ConnectionsWriteBack DEF OnConnections!TestBack
<1>2. CASE OnConnections!UsageBack
  <2>1. ConnectionsTypes' /\ ui'.rows = ui.rows /\ ui'.deleting = ui.deleting
    BY <1>0, <1>2 DEF OnConnections!UsageBack
  <2> QED
    BY <1>2, <2>1, ConnectionsTold, ConnectionsWriteBack DEF OnConnections!UsageBack
<1>3. CASE OnConnections!DeleteBack
  <2>1. ConnectionsTypes' /\ ui'.rows = ui.rows /\ (OnConnections!Answered("delete") => ui'.deleting = ui.deleting)
    BY <1>0, <1>3 DEF OnConnections!DeleteBack
  <2> QED
    BY <1>3, <2>1, ConnectionsTold, ConnectionsWriteBack DEF OnConnections!DeleteBack, OnConnections!Lost, OnConnections!Returned
<1>4. CASE OnConnections!SaveBack
  <2>1. ConnectionsTypes' /\ ui'.rows = ui.rows /\ ui'.deleting = ui.deleting
    BY <1>0, <1>4 DEF OnConnections!SaveBack
  <2> QED
    BY <1>4, <2>1, ConnectionsTold, ConnectionsWriteBack DEF OnConnections!SaveBack, OnConnections!Lost, OnConnections!Returned
<1>5. ASSUME NEW k \in DOMAIN net, OnConnections!Breaks(k) PROVE ConnectionsShow'
  <2>1. Turns(net, net', k) /\ net'[k].stage = "failed" /\ ui' = ui /\ srv' = srv /\ noise' = noise
    BY <1>5, ConnectionsNet
  <2>2. Listing(net', noise', ui'.rows, srv'.names, ConnectionsReads, ConnectionsWrites, Excuses)
    BY <2>1, ListingFails DEF ConnectionsShow
  <2>3. \A j \in DOMAIN net : net'[j].arg = net[j].arg
    BY <1>5 DEF OnConnections!Breaks, OnConnections!Fails
  <2>4. ConnectionsBrought' /\ Paired(net', "delete", "deleted", ui'.deleting)
    BY <2>1, <2>3 DEF ConnectionsShow, Turns, ConnectionsBrought, Brought, Paired, OnConnections!Out
  <2> QED
    BY <1>0, <2>1, <2>2, <2>4 DEF ConnectionsShow
<1> QED
  BY <1>1, <1>2, <1>3, <1>4, <1>5, ConnectionsTestsAll, ConnectionsClicks, ConnectionsServe, ConnectionsReadBack
  DEF OnConnections!Next, OnConnections!Returns

\* It is what the page promises.
LEMMA ConnectionsShowEnough == ConnectionsShow => OnConnections!ShowsServer /\ OnConnections!TypeOK
  BY DEF ConnectionsShow, ConnectionsTypes, OnConnections!ShowsServer, OnConnections!Quiet, Listing, Fresh, Excuses

------------------------------------------------------------------------------
(* Members *)

\* What is kept on this page: the member being changed is a user.
MembersSpins ==
  /\ {"submitting", "removing", "updating"} \subseteq DOMAIN ui
  /\ ui.updating \in OnMembers!Users \cup {OnMembers!Nobody}
  /\ OnMembers!SpinnersHaveRequests

\* It holds when the page opens.
LEMMA MembersInit == OnMembers!Init => MembersSpins
  BY DEF OnMembers!Init, MembersSpins, OnMembers!SpinnersHaveRequests, OnMembers!Nobody

\* The requests of the page that are about no row.
MembersNames == {"refresh", "added", "removed", "add", "remove"}

\* The requests about a row are told from these and from each other.
LEMMA MembersNamed ==
  ASSUME NEW p \in OnMembers!Users, NEW q \in OnMembers!Users
  PROVE  /\ OnMembers!Role(p) \notin MembersNames
         /\ OnMembers!Named("changed", p) \notin MembersNames
         /\ OnMembers!Role(p) # OnMembers!Named("changed", q)
         /\ OnMembers!Role(p) = OnMembers!Role(q) => p = q
         /\ OnMembers!Named("changed", p) = OnMembers!Named("changed", q) => p = q
<1> DEFINE ops == {"role", "changed"}
<1>0. Distinct(ops, OnMembers!Users, MembersNames)
  BY NamesAssumption DEF MembersNames
<1>1. \A op \in ops, r \in OnMembers!Users : op \o ToString(r) \notin MembersNames
  BY <1>0 DEF Distinct
<1>2. \A op \in ops, r \in OnMembers!Users, op2 \in ops, s \in OnMembers!Users :
        op \o ToString(r) = op2 \o ToString(s) => op = op2 /\ r = s
  BY <1>0 DEF Distinct
<1> QED
  BY <1>1, <1>2 DEF OnMembers!Named, OnMembers!Role

\* Every step of the page keeps it.
LEMMA MembersStep == MembersSpins /\ OnMembers!Next => MembersSpins'
<1> SUFFICES ASSUME MembersSpins, OnMembers!Next PROVE MembersSpins'
  OBVIOUS
<1> USE DEF MembersSpins, OnMembers!SpinnersHaveRequests, OnMembers!Out
<1>n. ui.updating # OnMembers!Nobody => OnMembers!Role(ui.updating) \notin MembersNames /\ OnMembers!Named("changed", ui.updating) \notin MembersNames
  BY MembersNamed
<1>1. CASE OnMembers!Serve
  BY <1>1 DEF OnMembers!Serve, OnMembers!Handles, OnMembers!Counts, OnMembers!Writes, OnMembers!Restrict, OnMembers!PeerCounts, OnMembers!PeerWrites
<1>2. CASE OnMembers!AddBack
  <2>1. DOMAIN ui' = DOMAIN ui /\ ui'.removing = ui.removing /\ ui'.updating = ui.updating
    BY <1>2 DEF OnMembers!AddBack
  <2>2. \/ DOMAIN net' = (DOMAIN net \ {"add"}) \cup {"added"}
        \/ ui'.submitting = FALSE /\ DOMAIN net' = DOMAIN net \ {"add"}
    BY <1>2 DEF OnMembers!AddBack, OnMembers!Closed, OnMembers!Without, OnMembers!Restrict, OnMembers!With, OnMembers!Sent, OnMembers!Refresh
  <2> QED
    BY <2>1, <2>2, <1>n DEF MembersNames
<1>3. CASE OnMembers!RemoveBack
  <2>1. DOMAIN ui' = DOMAIN ui /\ ui'.submitting = ui.submitting /\ ui'.updating = ui.updating
    BY <1>3 DEF OnMembers!RemoveBack
  <2>2. \/ DOMAIN net' = (DOMAIN net \ {"remove"}) \cup {"removed"}
        \/ ui'.removing = FALSE /\ DOMAIN net' = DOMAIN net \ {"remove"}
    BY <1>3 DEF OnMembers!RemoveBack, OnMembers!Closed, OnMembers!Without, OnMembers!Restrict, OnMembers!With, OnMembers!Sent, OnMembers!Refresh
  <2> QED
    BY <2>1, <2>2, <1>n DEF MembersNames
<1>4. ASSUME NEW k \in OnMembers!Refreshes, OnMembers!RefreshBack(k) PROVE MembersSpins'
  <2>1. /\ DOMAIN ui' = DOMAIN ui
        /\ ui'.submitting = IF k = "added" THEN FALSE ELSE ui.submitting
        /\ ui'.removing = IF k = "removed" THEN FALSE ELSE ui.removing
        /\ ui'.updating = IF k \in {"refresh", "added", "removed"} THEN ui.updating ELSE OnMembers!Nobody
    BY <1>4 DEF OnMembers!RefreshBack
  <2>2. DOMAIN net' = DOMAIN net \ {k}
    BY <1>4 DEF OnMembers!RefreshBack, OnMembers!Closed, OnMembers!Without, OnMembers!Restrict, OnMembers!With, OnMembers!Sent, OnMembers!Refresh
  <2>3. k \notin {"add", "remove"}
    BY MembersNamed DEF OnMembers!Refreshes, MembersNames
  <2> QED
    BY <2>1, <2>2, <2>3, <1>n DEF MembersNames
<1>5. ASSUME NEW u \in OnMembers!Users, OnMembers!RoleBack(u) PROVE MembersSpins'
  <2> DEFINE k == OnMembers!Role(u)  kk == OnMembers!Named("changed", u)
  <2>1. k \notin MembersNames /\ kk \notin MembersNames
    BY MembersNamed
  <2>2. CASE OnMembers!Answered(k)
    <3>1. ui' = ui /\ DOMAIN net' = (DOMAIN net \ {k}) \cup {kk}
      BY <1>5, <2>2 DEF OnMembers!RoleBack, OnMembers!Closed, OnMembers!Without, OnMembers!Restrict, OnMembers!With, OnMembers!Sent, OnMembers!Refresh
    <3>2. ui.updating # OnMembers!Nobody /\ k = OnMembers!Role(ui.updating) => ui.updating = u
      BY MembersNamed
    <3>3. ui.updating # OnMembers!Nobody => k # OnMembers!Named("changed", ui.updating)
      BY MembersNamed
    <3> HIDE DEF k, kk
    <3> QED
      BY <3>1, <3>2, <3>3, <2>1 DEF MembersNames, kk
  <2>3. CASE ~OnMembers!Answered(k)
    <3>1. ui' = [ui EXCEPT !.updating = OnMembers!Nobody] /\ DOMAIN net' = DOMAIN net \ {k}
      BY <1>5, <2>3 DEF OnMembers!RoleBack, OnMembers!Closed, OnMembers!Without, OnMembers!Restrict, OnMembers!With, OnMembers!Sent, OnMembers!Refresh
    <3> HIDE DEF k
    <3> QED
      BY <3>1, <2>1 DEF MembersNames
  <2> QED
    BY <2>2, <2>3
<1>6. CASE OnMembers!ToggleForm
  BY <1>6 DEF OnMembers!ToggleForm
<1>7. CASE OnMembers!LeaveDialog
  BY <1>7 DEF OnMembers!LeaveDialog
<1>8. CASE OnMembers!ConfirmRemove
  BY <1>8 DEF OnMembers!ConfirmRemove, OnMembers!Sent, OnMembers!With
<1>9. ASSUME NEW r, OnMembers!Add(r) PROVE MembersSpins'
  BY <1>9 DEF OnMembers!Add, OnMembers!Sent, OnMembers!With
<1>10. ASSUME NEW u \in OnMembers!Users, NEW r, OnMembers!ChangeRole(u, r) PROVE MembersSpins'
  <2> DEFINE k == OnMembers!Role(u)
  <2>1. DOMAIN ui' = DOMAIN ui /\ ui'.submitting = ui.submitting /\ ui'.removing = ui.removing /\ ui'.updating = u
    BY <1>10 DEF OnMembers!ChangeRole
  <2>2. DOMAIN net' = DOMAIN net \cup {k}
    BY <1>10 DEF OnMembers!ChangeRole, OnMembers!Closed, OnMembers!Without, OnMembers!Restrict, OnMembers!With, OnMembers!Sent, OnMembers!Refresh
  <2> QED
    BY <2>1, <2>2
<1>11. ASSUME NEW u \in OnMembers!Users, OnMembers!AskRemove(u) PROVE MembersSpins'
  BY <1>11 DEF OnMembers!AskRemove
<1>12. ASSUME NEW k \in DOMAIN net, OnMembers!Breaks(k) PROVE MembersSpins'
  BY <1>12 DEF OnMembers!Breaks, OnMembers!Fails
<1> QED
  BY <1>1, <1>2, <1>3, <1>4, <1>5, <1>6, <1>7, <1>8, <1>9, <1>10, <1>11, <1>12 DEF OnMembers!Next, OnMembers!Returns, OnMembers!Clicks

\* With it, the user never takes the ownership away from themselves; they have
\* it until the other owner's write, and from that one's count on the other
\* keeps it: no request of the user has counted.
MembersRules ==
  /\ DOMAIN srv = {"rows", "peer"} /\ "dialog" \in DOMAIN ui
  /\ OnMembers!Role(OnMembers!Me) \notin DOMAIN net /\ ui.dialog # OnMembers!Me
  /\ "remove" \in DOMAIN net => net["remove"].arg # OnMembers!Me
  /\ \A k \in DOMAIN net : DOMAIN net[k] = {"arg", "stage", "got"}
  /\ OnMembers!Me \in OnMembers!There /\ srv.peer \in {"idle", "counted", "done"}
  /\ "two at once" \notin noise =>
       /\ srv.peer = "idle" => OnMembers!Me \in OnMembers!Owners
       /\ srv.peer # "idle" => OnMembers!Peer \in OnMembers!Owners /\ \A k \in DOMAIN net : net[k].stage # "counted"
       /\ srv.peer = "done" => OnMembers!Me \notin OnMembers!Owners

\* It holds when the page opens.
LEMMA MembersRulesInit == OnMembers!Init => MembersRules
<1> SUFFICES ASSUME OnMembers!Init PROVE MembersRules
  OBVIOUS
<1>1. /\ DOMAIN srv = {"rows", "peer"} /\ srv.peer = "idle" /\ DOMAIN srv.rows = {OnMembers!Me, OnMembers!Peer}
      /\ srv.rows[OnMembers!Me] = "owner"
  BY DEF OnMembers!Init
<1>2. "dialog" \in DOMAIN ui /\ ui.dialog # OnMembers!Me
  BY DEF OnMembers!Init, OnMembers!Nobody, OnMembers!Me
<1>3. DOMAIN net = {"refresh"} /\ DOMAIN net["refresh"] = {"arg", "stage", "got"}
  BY DEF OnMembers!Init, OnMembers!With
<1>4. OnMembers!Role(OnMembers!Me) # "refresh"
  BY MembersNamed DEF MembersNames, OnMembers!Users
<1> QED
  BY <1>1, <1>2, <1>3, <1>4 DEF MembersRules, OnMembers!There, OnMembers!Owners

\* It is kept by what the page does, as long as no request of it is given another
\* subject or counts.
LEMMA MembersRulesPage ==
  ASSUME MembersRules, "dialog" \in DOMAIN ui', ui'.dialog # OnMembers!Me, srv' = srv, noise \subseteq noise',
         OnMembers!Role(OnMembers!Me) \notin DOMAIN net',
         "remove" \in DOMAIN net' => net'["remove"].arg # OnMembers!Me,
         \A k \in DOMAIN net' : DOMAIN net'[k] = {"arg", "stage", "got"},
         \A k \in DOMAIN net' : net'[k].stage = "counted" => k \in DOMAIN net /\ net[k].stage = "counted"
  PROVE  MembersRules'
  BY DEF MembersRules, OnMembers!There, OnMembers!Owners

\* A new request, after an answer or with the others.
LEMMA MembersRulesNet ==
  ASSUME MembersRules, "dialog" \in DOMAIN ui', ui'.dialog # OnMembers!Me, srv' = srv, noise \subseteq noise',
         NEW gone, NEW k, NEW a, k # OnMembers!Role(OnMembers!Me), k = "remove" => a # OnMembers!Me,
         \/ net' = net \/ net' = OnMembers!Closed(gone)
         \/ net' = OnMembers!Sent(k, a) \/ net' = OnMembers!With(OnMembers!Closed(gone), k, a)
  PROVE  MembersRules'
<1>1. DOMAIN net' \subseteq DOMAIN net \cup {k}
  BY DEF OnMembers!Closed, OnMembers!Without, OnMembers!Restrict, OnMembers!Sent, OnMembers!With
<1>2. \A j \in DOMAIN net' : \/ j \in DOMAIN net /\ net'[j] = net[j]
                             \/ j = k /\ net'[j] = [arg |-> a, stage |-> "sent", got |-> "nothing"]
  <2>1. CASE net' = net
    BY <2>1
  <2>2. \A j \in DOMAIN OnMembers!Closed(gone) : j \in DOMAIN net /\ OnMembers!Closed(gone)[j] = net[j]
    BY DEF OnMembers!Closed, OnMembers!Without, OnMembers!Restrict
  <2>3. ASSUME NEW n, \A j \in DOMAIN n : j \in DOMAIN net /\ n[j] = net[j], net' = OnMembers!With(n, k, a)
        PROVE  \A j \in DOMAIN net' :
                 \/ j \in DOMAIN net /\ net'[j] = net[j]
                 \/ j = k /\ net'[j] = [arg |-> a, stage |-> "sent", got |-> "nothing"]
    BY <2>3 DEF OnMembers!With
  <2> QED
    BY <2>1, <2>2, <2>3 DEF OnMembers!Sent
<1>3. /\ OnMembers!Role(OnMembers!Me) \notin DOMAIN net'
      /\ "remove" \in DOMAIN net' => net'["remove"].arg # OnMembers!Me
      /\ \A j \in DOMAIN net' : DOMAIN net'[j] = {"arg", "stage", "got"}
  <2>1. OnMembers!Role(OnMembers!Me) \notin DOMAIN net'
    BY <1>1 DEF MembersRules
  <2>0. [arg |-> a, stage |-> "sent", got |-> "nothing"].arg = a
    OBVIOUS
  <2>2. "remove" \in DOMAIN net' => net'["remove"].arg # OnMembers!Me
    BY Zenon, <1>2, <2>0 DEF MembersRules
  <2>3. DOMAIN [arg |-> a, stage |-> "sent", got |-> "nothing"] = {"arg", "stage", "got"}
    OBVIOUS
  <2>4. \A j \in DOMAIN net' : DOMAIN net'[j] = {"arg", "stage", "got"}
    BY <1>2, <2>3 DEF MembersRules
  <2> QED
    BY <2>1, <2>2, <2>4
<1>4. \A j \in DOMAIN net' : net'[j].stage = "counted" => j \in DOMAIN net /\ net[j].stage = "counted"
  BY <1>2
<1> QED
  BY <1>3, <1>4, MembersRulesPage

\* Every step of the page keeps it.
LEMMA MembersRulesStep == MembersRules /\ OnMembers!Next => MembersRules'
<1> SUFFICES ASSUME MembersRules, OnMembers!Next PROVE MembersRules'
  OBVIOUS
<1> DEFINE me == OnMembers!Me
<1>n. /\ OnMembers!Role(me) \notin {"refresh", "added", "removed", "add", "remove"}
      /\ \A u \in OnMembers!Users : /\ OnMembers!Role(u) # "remove" /\ OnMembers!Named("changed", u) \notin {"remove", OnMembers!Role(me)}
                                    /\ (OnMembers!Role(u) = OnMembers!Role(me) => u = me)
  BY MembersNamed DEF MembersNames, OnMembers!Users
<1>r. \A k \in OnMembers!Refreshes : k # OnMembers!Role(me) /\ k # "remove"
  BY <1>n DEF OnMembers!Refreshes
<1>u. "dialog" \in DOMAIN ui /\ ui.dialog # me /\ me # OnMembers!Nobody
  BY DEF MembersRules, OnMembers!Me, OnMembers!Nobody
<1>1. ASSUME NEW k, NEW s, NEW answer, OnMembers!Handles(k, s, answer), DOMAIN s = {"rows", "peer"}, s.peer = srv.peer,
             DOMAIN srv.rows \subseteq DOMAIN s.rows, \A u \in DOMAIN srv.rows : s.rows[u] = srv.rows[u]
      PROVE  MembersRules'
  <2>1. /\ srv' = s /\ UNCHANGED <<ui, noise>>
        /\ k \in DOMAIN net /\ DOMAIN net' = DOMAIN net /\ net' = [net EXCEPT ![k].stage = "answered", ![k].got = answer]
    BY <1>1 DEF OnMembers!Handles, OnMembers!Out, MembersRules
  <2>2. DOMAIN net'[k] = {"arg", "stage", "got"} /\ net'[k].arg = net[k].arg /\ net'[k].stage = "answered"
    BY <2>1 DEF MembersRules
  <2>3. \A j \in DOMAIN net : j # k => net'[j] = net[j]
    BY <2>1
  <2>4. /\ OnMembers!Me \in OnMembers!Owners => (OnMembers!Me \in OnMembers!Owners)'
        /\ OnMembers!Me \notin OnMembers!Owners => (OnMembers!Me \notin OnMembers!Owners)'
        /\ OnMembers!Peer \in OnMembers!Owners => (OnMembers!Peer \in OnMembers!Owners)'
        /\ (OnMembers!Me \in OnMembers!There)'
    BY <1>1, <2>1 DEF MembersRules, OnMembers!Owners, OnMembers!There
  <2> QED
    BY <1>1, <2>1, <2>2, <2>3, <2>4 DEF MembersRules
<1>2. ASSUME NEW k \in OnMembers!Refreshes, OnMembers!Handles(k, srv, srv.rows) PROVE MembersRules'
  BY <1>1, <1>2 DEF MembersRules
<1>3. ASSUME OnMembers!Me \in OnMembers!Owners, OnMembers!Guest \notin OnMembers!There,
             OnMembers!Handles("add", [srv EXCEPT !.rows = [u \in OnMembers!There \cup {OnMembers!Guest} |->
                                                              IF u \in OnMembers!There THEN @[u] ELSE net["add"].arg]], {})
      PROVE  MembersRules'
  <2> DEFINE rows == [u \in OnMembers!There \cup {OnMembers!Guest} |-> IF u \in OnMembers!There THEN srv.rows[u] ELSE net["add"].arg]
  <2>1. /\ OnMembers!Handles("add", [srv EXCEPT !.rows = rows], {})
        /\ DOMAIN [srv EXCEPT !.rows = rows] = {"rows", "peer"} /\ [srv EXCEPT !.rows = rows].peer = srv.peer
        /\ [srv EXCEPT !.rows = rows].rows = rows
    BY <1>3 DEF MembersRules
  <2>2. DOMAIN srv.rows \subseteq DOMAIN rows /\ \A u \in DOMAIN srv.rows : rows[u] = srv.rows[u]
    BY DEF OnMembers!There
  <2> HIDE DEF rows
  <2> QED
    BY <1>1, <2>1, <2>2
<1>4. ASSUME NEW k, OnMembers!Counts(k) PROVE MembersRules'
  <2>1. PICK s \in {"counted", "failed"} :
          /\ net' = [net EXCEPT ![k].stage = s]
          /\ s = "counted" => OnMembers!Me \in OnMembers!Owners
    BY <1>4, Zenon DEF OnMembers!Counts, OnMembers!MayLose
  <2>2. /\ k \in DOMAIN net /\ UNCHANGED <<ui, srv>> /\ noise \subseteq noise'
        /\ srv.peer = "counted" => "two at once" \in noise'
    BY <1>4 DEF OnMembers!Counts, OnMembers!Out
  <2>3. DOMAIN net' = DOMAIN net /\ DOMAIN net'[k] = {"arg", "stage", "got"} /\ net'[k].arg = net[k].arg /\ net'[k].stage = s
    BY <2>1, <2>2 DEF MembersRules
  <2>4. \A j \in DOMAIN net : j # k => net'[j] = net[j]
    BY <2>1
  <2>5. UNCHANGED <<OnMembers!Owners, OnMembers!There>>
    BY <2>2 DEF OnMembers!Owners, OnMembers!There
  <2> QED
    BY <2>1, <2>2, <2>3, <2>4, <2>5 DEF MembersRules
<1>5. ASSUME NEW k, NEW rows, OnMembers!Writes(k, rows), OnMembers!Me \in DOMAIN rows, rows[OnMembers!Me] = srv.rows[OnMembers!Me]
      PROVE  MembersRules'
  <2>1. /\ k \in DOMAIN net /\ net[k].stage = "counted" /\ UNCHANGED <<ui, noise>>
        /\ DOMAIN srv' = {"rows", "peer"} /\ srv'.rows = rows /\ srv'.peer = srv.peer
        /\ DOMAIN net' = DOMAIN net /\ net' = [net EXCEPT ![k].stage = "answered"]
    BY <1>5 DEF OnMembers!Writes, OnMembers!Out, MembersRules
  <2>2. DOMAIN net'[k] = {"arg", "stage", "got"} /\ net'[k].arg = net[k].arg /\ net'[k].stage = "answered"
    BY <2>1 DEF MembersRules
  <2>3. \A j \in DOMAIN net : j # k => net'[j] = net[j]
    BY <2>1
  <2>4. (OnMembers!Me \in OnMembers!There)' /\ (OnMembers!Me \in OnMembers!Owners => (OnMembers!Me \in OnMembers!Owners)')
    BY <1>5, <2>1 DEF OnMembers!Owners, OnMembers!There
  <2>5. "two at once" \notin noise => srv.peer = "idle" /\ OnMembers!Me \in OnMembers!Owners
    BY <2>1 DEF MembersRules
  <2> QED
    BY <2>1, <2>2, <2>3, <2>4, <2>5 DEF MembersRules
<1>6. ASSUME NEW u \in OnMembers!There, OnMembers!Writes(OnMembers!Role(u), [srv.rows EXCEPT ![u] = net[OnMembers!Role(u)].arg])
      PROVE  MembersRules'
  <2>1. u # OnMembers!Me /\ OnMembers!Me \in DOMAIN srv.rows
    BY <1>6 DEF OnMembers!Writes, OnMembers!Out, MembersRules, OnMembers!There
  <2> DEFINE rows == [srv.rows EXCEPT ![u] = net[OnMembers!Role(u)].arg]
  <2>2. OnMembers!Me \in DOMAIN rows /\ rows[OnMembers!Me] = srv.rows[OnMembers!Me]
    BY <2>1
  <2> HIDE DEF rows
  <2>3. OnMembers!Writes(OnMembers!Role(u), rows)
    BY <1>6 DEF rows
  <2> QED
    BY <1>5, <2>2, <2>3
<1>7. ASSUME OnMembers!Out("remove"), OnMembers!Writes("remove", OnMembers!Restrict(srv.rows, OnMembers!There \ {net["remove"].arg}))
      PROVE  MembersRules'
  <2> DEFINE rows == OnMembers!Restrict(srv.rows, OnMembers!There \ {net["remove"].arg})
  <2>1. OnMembers!Me \in DOMAIN rows /\ rows[OnMembers!Me] = srv.rows[OnMembers!Me]
    BY <1>7 DEF OnMembers!Restrict, MembersRules, OnMembers!Out
  <2> HIDE DEF rows
  <2>2. OnMembers!Writes("remove", rows)
    BY <1>7 DEF rows
  <2> QED
    BY <1>5, <2>1, <2>2
<1>8. CASE OnMembers!PeerCounts
  <2>1. /\ srv.peer = "idle" /\ OnMembers!Peer \in OnMembers!Owners /\ OnMembers!Me \in OnMembers!Owners
        /\ UNCHANGED <<ui, net>> /\ noise \subseteq noise'
        /\ "two at once" \notin noise' => \A k \in DOMAIN net : net[k].stage # "counted"
        /\ DOMAIN srv' = {"rows", "peer"} /\ srv'.rows = srv.rows /\ srv'.peer = "counted"
    BY <1>8 DEF OnMembers!PeerCounts, OnMembers!MayLose, MembersRules
  <2>2. UNCHANGED <<OnMembers!Owners, OnMembers!There>>
    BY <2>1 DEF OnMembers!Owners, OnMembers!There
  <2> QED
    BY <2>1, <2>2 DEF MembersRules
<1>9. CASE OnMembers!PeerWrites
  <2>1. /\ srv.peer = "counted" /\ UNCHANGED <<ui, net, noise>> /\ OnMembers!Me \in DOMAIN srv.rows
        /\ DOMAIN srv' = {"rows", "peer"} /\ srv'.peer = "done" /\ srv'.rows = [srv.rows EXCEPT ![OnMembers!Me] = "viewer"]
    BY <1>9 DEF OnMembers!PeerWrites, MembersRules, OnMembers!There
  <2>2. /\ (OnMembers!Me \in OnMembers!There)' /\ (OnMembers!Me \notin OnMembers!Owners)'
        /\ OnMembers!Peer \in OnMembers!Owners => (OnMembers!Peer \in OnMembers!Owners)'
    BY <2>1 DEF OnMembers!Owners, OnMembers!There, OnMembers!Me, OnMembers!Peer
  <2> QED
    BY <2>1, <2>2 DEF MembersRules
<1>10. CASE OnMembers!AddBack \/ OnMembers!RemoveBack
  <2>1. /\ "dialog" \in DOMAIN ui' /\ ui'.dialog \in {ui.dialog, OnMembers!Nobody} /\ srv' = srv /\ noise \subseteq noise'
    BY <1>10, <1>u DEF OnMembers!AddBack, OnMembers!RemoveBack, OnMembers!Refresh, OnMembers!Lost
  <2>2. CASE OnMembers!AddBack
    <3>1. \/ net' = OnMembers!Closed("add") \/ net' = OnMembers!With(OnMembers!Closed("add"), "added", {})
      BY <2>2 DEF OnMembers!AddBack, OnMembers!Refresh
    <3> QED
      BY <2>1, <3>1, <1>n, <1>u, MembersRulesNet
  <2>3. CASE OnMembers!RemoveBack
    <3>1. \/ net' = OnMembers!Closed("remove") \/ net' = OnMembers!With(OnMembers!Closed("remove"), "removed", {})
      BY <2>3 DEF OnMembers!RemoveBack, OnMembers!Refresh
    <3> QED
      BY <2>1, <3>1, <1>n, <1>u, MembersRulesNet
  <2> QED
    BY <1>10, <2>2, <2>3
<1>11. ASSUME NEW k \in OnMembers!Refreshes, OnMembers!RefreshBack(k) PROVE MembersRules'
  <2>1. /\ "dialog" \in DOMAIN ui' /\ ui'.dialog = ui.dialog /\ srv' = srv /\ noise \subseteq noise' /\ net' = OnMembers!Closed(k)
    BY <1>11, <1>u DEF OnMembers!RefreshBack
  <2> QED
    BY <2>1, <1>n, <1>u, MembersRulesNet
<1>12. ASSUME NEW u \in OnMembers!Users, OnMembers!RoleBack(u) PROVE MembersRules'
  <2> DEFINE k == OnMembers!Role(u)
             k2 == OnMembers!Named("changed", u)
  <2>1. /\ "dialog" \in DOMAIN ui' /\ ui'.dialog = ui.dialog /\ srv' = srv /\ noise \subseteq noise'
        /\ \/ net' = OnMembers!Closed(k) \/ net' = OnMembers!With(OnMembers!Closed(k), k2, {})
    BY <1>12, <1>u DEF OnMembers!RoleBack, OnMembers!Refresh, OnMembers!Lost
  <2>2. k2 # OnMembers!Role(me) /\ k2 # "remove"
    BY <1>n
  <2> HIDE DEF k, k2
  <2> QED
    BY <2>1, <2>2, <1>u, MembersRulesNet
<1>13. CASE OnMembers!Clicks
  <2>1. CASE OnMembers!ToggleForm \/ OnMembers!LeaveDialog
    <3>1. /\ "dialog" \in DOMAIN ui' /\ ui'.dialog \in {ui.dialog, OnMembers!Nobody} /\ srv' = srv /\ noise' = noise /\ net' = net
      BY <2>1, <1>u DEF OnMembers!ToggleForm, OnMembers!LeaveDialog
    <3> QED
      BY <3>1, <1>n, <1>u, MembersRulesNet
  <2>2. CASE OnMembers!ConfirmRemove
    <3>1. /\ "dialog" \in DOMAIN ui' /\ ui'.dialog = ui.dialog /\ srv' = srv /\ noise' = noise
          /\ net' = OnMembers!Sent("remove", ui.dialog)
      BY <2>2, <1>u DEF OnMembers!ConfirmRemove
    <3> QED
      BY <3>1, <1>n, <1>u, MembersRulesNet
  <2>3. ASSUME NEW r, OnMembers!Add(r) PROVE MembersRules'
    <3>1. /\ "dialog" \in DOMAIN ui' /\ ui'.dialog = ui.dialog /\ srv' = srv /\ noise' = noise /\ net' = OnMembers!Sent("add", r)
      BY <2>3, <1>u DEF OnMembers!Add
    <3> QED
      BY <3>1, <1>n, <1>u, MembersRulesNet
  <2>4. ASSUME NEW u \in OnMembers!Users, NEW r, OnMembers!ChangeRole(u, r) PROVE MembersRules'
    <3>1. /\ "dialog" \in DOMAIN ui' /\ ui'.dialog = ui.dialog /\ srv' = srv /\ noise' = noise
          /\ net' = OnMembers!Sent(OnMembers!Role(u), r) /\ u # me
      BY <2>4, <1>u DEF OnMembers!ChangeRole, OnMembers!Editable
    <3>2. OnMembers!Role(u) # OnMembers!Role(me) /\ OnMembers!Role(u) # "remove"
      BY <3>1, <1>n
    <3> QED
      BY <3>1, <3>2, <1>u, MembersRulesNet
  <2>5. ASSUME NEW u \in OnMembers!Users, OnMembers!AskRemove(u) PROVE MembersRules'
    <3>1. "dialog" \in DOMAIN ui' /\ ui'.dialog = u /\ u # me /\ srv' = srv /\ noise' = noise /\ net' = net
      BY <2>5, <1>u DEF OnMembers!AskRemove, OnMembers!Editable
    <3> QED
      BY <3>1, <1>n, MembersRulesNet
  <2> QED
    BY <1>13, <2>1, <2>2, <2>3, <2>4, <2>5 DEF OnMembers!Clicks
<1>14. ASSUME NEW k \in DOMAIN net, OnMembers!Breaks(k) PROVE MembersRules'
  <2>1. /\ net' = [net EXCEPT ![k].stage = "failed", ![k].got = "nothing"] /\ UNCHANGED <<ui, srv, noise>>
    BY <1>14 DEF OnMembers!Breaks, OnMembers!Fails
  <2>2. DOMAIN net' = DOMAIN net /\ DOMAIN net'[k] = {"arg", "stage", "got"} /\ net'[k].arg = net[k].arg /\ net'[k].stage = "failed"
    BY <2>1 DEF MembersRules
  <2>3. \A j \in DOMAIN net : j # k => net'[j] = net[j]
    BY <2>1
  <2>4. /\ OnMembers!Role(me) \notin DOMAIN net'
        /\ "remove" \in DOMAIN net' => net'["remove"].arg # me
        /\ \A j \in DOMAIN net' : DOMAIN net'[j] = {"arg", "stage", "got"}
        /\ \A j \in DOMAIN net' : net'[j].stage = "counted" => j \in DOMAIN net /\ net[j].stage = "counted"
    BY <2>2, <2>3 DEF MembersRules
  <2> QED
    BY <2>1, <2>4, <1>u, MembersRulesPage
<1>15. CASE OnMembers!Serve
  BY Zenon, <1>2, <1>3, <1>4, <1>6, <1>7, <1>8, <1>9, <1>15 DEF OnMembers!Serve
<1> QED
  BY <1>10, <1>11, <1>12, <1>13, <1>14, <1>15 DEF OnMembers!Next, OnMembers!Returns

\* And so the workspace has an owner.
LEMMA MembersRulesEnough == MembersRules => OnMembers!KeepsOwner
  BY DEF MembersRules, OnMembers!KeepsOwner

(* What it shows *)

\* The requests that read the list and those that change it.
MembersReads == OnMembers!Refreshes
MembersWrites == {"add", "remove"} \cup {OnMembers!Role(u) : u \in OnMembers!Users}

\* What happened that the page does not see: what the other owner wrote, too.
MembersPast == (noise \cap Excuses) \cup (IF srv.peer = "done" THEN {"peer"} ELSE {})
MembersExcuses == Excuses \cup {"peer"}

\* Types; a role that is asked for is one of the two.
MembersTypes ==
  /\ {"rows", "submitting", "removing", "updating", "dialog"} \subseteq DOMAIN ui /\ DOMAIN srv = {"rows", "peer"}
  /\ OnMembers!TypeOK
MembersAsked == \A k \in (MembersWrites \ {"remove"}) \cap DOMAIN net : net[k].arg \in {"owner", "viewer"}
MembersPaired == Paired(net, "add", "added", ui.submitting) /\ Paired(net, "remove", "removed", ui.removing)
MembersShow ==
  /\ MembersTypes /\ MembersAsked /\ MembersPaired
  /\ Listing(net, MembersPast, ui.rows, srv.rows, MembersReads, MembersWrites, MembersExcuses)

\* Reads and writes are told from each other.
LEMMA MembersTold ==
  /\ MembersReads \cap MembersWrites = {}
  /\ \A u \in OnMembers!Users :
       /\ OnMembers!Role(u) \notin MembersNames /\ OnMembers!Named("changed", u) \notin MembersNames
       /\ OnMembers!Role(u) \in MembersWrites /\ OnMembers!Named("changed", u) \in MembersReads
  /\ \A k \in {"refresh", "added", "removed"} : k \in MembersReads
  /\ "add" \in MembersWrites /\ "remove" \in MembersWrites
<1>1. \A k \in MembersReads : k \in {"refresh", "added", "removed"} \/ \E u \in OnMembers!Users : k = OnMembers!Named("changed", u)
  BY DEF MembersReads, OnMembers!Refreshes
<1>2. \A k \in MembersWrites : k \in {"add", "remove"} \/ \E u \in OnMembers!Users : k = OnMembers!Role(u)
  BY DEF MembersWrites
<1>3. \A u \in OnMembers!Users : OnMembers!Role(u) \notin MembersNames /\ OnMembers!Named("changed", u) \notin MembersNames
  BY MembersNamed
<1>4. \A u, v \in OnMembers!Users : OnMembers!Role(u) # OnMembers!Named("changed", v)
  BY MembersNamed
<1>5. MembersReads \cap MembersWrites = {}
  BY <1>1, <1>2, <1>3, <1>4 DEF MembersNames
<1> QED
  BY <1>3, <1>5 DEF MembersReads, MembersWrites, OnMembers!Refreshes

\* What the page's helpers do to the requests.
LEMMA MembersNet ==
  /\ \A requests, k, arg : Sends(requests, OnMembers!With(requests, k, arg), k)
  /\ \A k \in DOMAIN net : Closes(net, OnMembers!Closed(k), k)
  /\ \A k, state, answer : MembersShow /\ OnMembers!Handles(k, state, answer) =>
       Turns(net, net', k) /\ net'[k].stage = "answered" /\ net'[k].got = answer /\ srv' = state /\ ui' = ui /\ noise' = noise
  /\ \A k : MembersShow /\ OnMembers!Breaks(k) =>
       Turns(net, net', k) /\ net'[k].stage = "failed" /\ srv' = srv /\ ui' = ui /\ noise' = noise
<1>1. \A requests, k, arg : Sends(requests, OnMembers!With(requests, k, arg), k)
  BY DEF Sends, OnMembers!With
<1>2. \A k \in DOMAIN net : Closes(net, OnMembers!Closed(k), k)
  BY DEF Closes, OnMembers!Closed, OnMembers!Without, OnMembers!Restrict
<1>3. ASSUME NEW k, NEW state, NEW answer, MembersShow, OnMembers!Handles(k, state, answer)
      PROVE  Turns(net, net', k) /\ net'[k].stage = "answered" /\ net'[k].got = answer /\ srv' = state /\ ui' = ui /\ noise' = noise
  BY <1>3 DEF Turns, OnMembers!Handles, OnMembers!Out, MembersShow, Listing
<1>4. ASSUME NEW k, MembersShow, OnMembers!Breaks(k)
      PROVE  Turns(net, net', k) /\ net'[k].stage = "failed" /\ srv' = srv /\ ui' = ui /\ noise' = noise
  BY <1>4 DEF Turns, OnMembers!Breaks, OnMembers!Fails, OnMembers!Out, MembersShow, Listing
<1> QED
  BY <1>1, <1>2, <1>3, <1>4

\* It holds when the page opens.
LEMMA MembersShowInit == OnMembers!Init => MembersShow
<1> SUFFICES ASSUME OnMembers!Init PROVE MembersShow
  OBVIOUS
<1>1. net = OnMembers!With(<<>>, "refresh", {}) /\ MembersTypes
  BY DEF OnMembers!Init, MembersTypes, OnMembers!TypeOK, OnMembers!There, OnMembers!Users
<1>2. DOMAIN net = {"refresh"} /\ DOMAIN net["refresh"] = {"arg", "stage", "got"} /\ net["refresh"].stage = "sent"
  BY <1>1, DOMAIN <<>> = {} DEF OnMembers!With
<1>3. Listing(net, MembersPast, ui.rows, srv.rows, MembersReads, MembersWrites, MembersExcuses)
  BY <1>2, MembersTold, ListingStarts
<1>4. "refresh" \notin MembersWrites
  BY MembersTold
<1> QED
  BY <1>1, <1>2, <1>3, <1>4 DEF MembersShow, MembersAsked, MembersPaired, Paired

\* What does not concern the list.
LEMMA MembersRests ==
  ASSUME MembersShow, MembersTypes', ui'.rows = ui.rows, ui'.submitting = ui.submitting, ui'.removing = ui.removing,
         net' = net, srv' = srv, noise' = noise
  PROVE  MembersShow'
  BY DEF MembersShow, MembersAsked, MembersPaired, MembersPast

\* A click that sends a request.
LEMMA MembersAsks ==
  ASSUME MembersShow, MembersTypes', NEW k \in MembersWrites, NEW arg, net' = OnMembers!Sent(k, arg), k \notin DOMAIN net,
         k # "remove" => arg \in {"owner", "viewer"},
         ui'.rows = ui.rows, srv' = srv, noise' = noise,
         IF k = "add" THEN ui'.submitting /\ "added" \notin DOMAIN net ELSE ui'.submitting = ui.submitting,
         IF k = "remove" THEN ui'.removing /\ "removed" \notin DOMAIN net ELSE ui'.removing = ui.removing
  PROVE  MembersShow'
<1>0. k \notin MembersReads /\ MembersPast' = MembersPast
  BY MembersTold DEF MembersPast
<1>1. Sends(net, net', k)
  BY MembersNet DEF OnMembers!Sent
<1>2. net'[k].arg = arg
  BY DEF OnMembers!Sent, OnMembers!With
<1>3. Listing(net', MembersPast', ui'.rows, srv'.rows, MembersReads, MembersWrites, MembersExcuses)
  BY <1>0, <1>1, ListingSends DEF MembersShow
<1>4. MembersPaired'
  BY <1>0, <1>1, MembersTold DEF MembersShow, Sends, MembersPaired, Paired
<1>5. MembersAsked'
  BY <1>1, <1>2 DEF MembersShow, Sends, MembersAsked
<1> QED
  BY <1>3, <1>4, <1>5 DEF MembersShow

\* The user's clicks.
LEMMA MembersClicks == MembersShow /\ OnMembers!Clicks => MembersShow'
<1> SUFFICES ASSUME MembersShow, OnMembers!Clicks PROVE MembersShow'
  OBVIOUS
<1>t. MembersTypes
  BY DEF MembersShow
<1> USE DEF MembersTypes, OnMembers!TypeOK, OnMembers!There, OnMembers!Out
<1>1. CASE OnMembers!ToggleForm
  BY <1>t, <1>1, MembersRests DEF OnMembers!ToggleForm
<1>2. CASE OnMembers!LeaveDialog
  BY <1>t, <1>2, MembersRests DEF OnMembers!LeaveDialog
<1>3. CASE OnMembers!ConfirmRemove
  <2>1. /\ MembersTypes' /\ ui'.rows = ui.rows /\ ui'.submitting = ui.submitting /\ ui'.removing
        /\ "remove" \notin DOMAIN net /\ "removed" \notin DOMAIN net
    BY <1>t, <1>3 DEF OnMembers!ConfirmRemove, MembersShow, MembersPaired, Paired
  <2> QED
    BY <1>3, <2>1, MembersTold, MembersAsks DEF OnMembers!ConfirmRemove
<1>4. ASSUME NEW r \in {"owner", "viewer"}, OnMembers!Add(r) PROVE MembersShow'
  <2>1. /\ MembersTypes' /\ ui'.rows = ui.rows /\ ui'.removing = ui.removing /\ ui'.submitting
        /\ "add" \notin DOMAIN net /\ "added" \notin DOMAIN net
    BY <1>t, <1>4 DEF OnMembers!Add, MembersShow, MembersPaired, Paired
  <2> QED
    BY <1>4, <2>1, MembersTold, MembersAsks DEF OnMembers!Add
<1>5. ASSUME NEW r \in {"owner", "viewer"}, NEW u \in OnMembers!Users, OnMembers!ChangeRole(u, r) PROVE MembersShow'
  <2>1. MembersTypes' /\ ui'.rows = ui.rows /\ ui'.removing = ui.removing /\ ui'.submitting = ui.submitting
    BY <1>t, <1>5 DEF OnMembers!ChangeRole
  <2>2. OnMembers!Role(u) \in MembersWrites /\ OnMembers!Role(u) \notin {"add", "remove"}
    BY MembersTold DEF MembersNames
  <2> QED
    BY <1>5, <2>1, <2>2, MembersAsks DEF OnMembers!ChangeRole
<1>6. ASSUME NEW u \in OnMembers!Users, OnMembers!AskRemove(u) PROVE MembersShow'
  BY <1>t, <1>6, MembersRests DEF OnMembers!AskRemove
<1> QED
  BY <1>1, <1>2, <1>3, <1>4, <1>5, <1>6 DEF OnMembers!Clicks

\* The server answers a request: a read with what is there, a write with other
\* members or roles.
LEMMA MembersTakes ==
  ASSUME MembersShow, NEW k, Turns(net, net', k), net'[k].stage = "answered", ui' = ui, noise' = noise,
         DOMAIN srv' = {"rows", "peer"}, srv'.peer = srv.peer,
         \A j \in DOMAIN net : net'[j].arg = net[j].arg,
         DOMAIN srv'.rows \subseteq OnMembers!Users, \A u \in DOMAIN srv'.rows : srv'.rows[u] \in {"owner", "viewer"},
         k \in MembersWrites \/ (srv'.rows = srv.rows /\ net'[k].got = srv.rows)
  PROVE  MembersShow'
<1>1. MembersPast' = MembersPast
  BY DEF MembersPast
<1>2. Listing(net', MembersPast', ui'.rows, srv'.rows, MembersReads, MembersWrites, MembersExcuses)
  BY <1>1, ListingServed DEF MembersShow
<1>3. MembersPaired' /\ MembersAsked'
  BY DEF MembersShow, Turns, MembersPaired, Paired, MembersAsked
<1>4. MembersTypes'
  BY DEF MembersShow, MembersTypes, OnMembers!TypeOK, OnMembers!There
<1> QED
  BY <1>2, <1>3, <1>4 DEF MembersShow

\* A request is counted for, or refused.
LEMMA MembersCounts ==
  ASSUME MembersShow, NEW k \in {"remove"} \cup {OnMembers!Role(u) : u \in OnMembers!Users}, OnMembers!Counts(k)
  PROVE  MembersShow'
<1>1. /\ k \in DOMAIN net /\ net[k].stage = "sent" /\ ui' = ui /\ srv' = srv
      /\ noise' \ {"two at once"} = noise \ {"two at once"}
      /\ \E stage : net' = [net EXCEPT ![k].stage = stage]
  BY DEF OnMembers!Counts, OnMembers!Out
<1>2. PICK stage : net' = [net EXCEPT ![k].stage = stage]
  BY <1>1
<1>3. Turns(net, net', k)
  BY <1>1, <1>2 DEF Turns
<1>4. MembersAsked' /\ MembersPaired'
  <2>1. \A j \in DOMAIN net : net'[j].arg = net[j].arg
    BY <1>2
  <2> QED
    BY <1>1, <1>3, <2>1 DEF MembersShow, MembersAsked, MembersPaired, Paired, Turns
<1>5. Listing(net', MembersPast, ui'.rows, srv'.rows, MembersReads, MembersWrites, MembersExcuses)
  BY <1>1, <1>3, ListingCounts DEF MembersShow, MembersWrites
<1>6. MembersPast' \cap MembersExcuses = {} => MembersPast \cap MembersExcuses = {}
  BY <1>1 DEF MembersPast, MembersExcuses, Excuses
<1>7. Listing(net', MembersPast', ui'.rows, srv'.rows, MembersReads, MembersWrites, MembersExcuses)
  BY <1>5, <1>6 DEF Listing
<1>8. MembersTypes'
  BY <1>1 DEF MembersShow, MembersTypes, OnMembers!TypeOK, OnMembers!There
<1> QED
  BY <1>4, <1>7, <1>8 DEF MembersShow

\* The other owner counts, and writes.
LEMMA MembersPeer == MembersShow /\ (OnMembers!PeerCounts \/ OnMembers!PeerWrites) => MembersShow'
<1> SUFFICES ASSUME MembersShow, OnMembers!PeerCounts \/ OnMembers!PeerWrites PROVE MembersShow'
  OBVIOUS
<1> USE DEF MembersTypes, OnMembers!TypeOK, OnMembers!There
<1>1. CASE OnMembers!PeerCounts
  <2>1. net' = net /\ ui' = ui /\ srv' = [srv EXCEPT !.peer = "counted"] /\ noise \subseteq noise'
    BY <1>1 DEF OnMembers!PeerCounts
  <2>2. MembersTypes'
    BY <2>1 DEF MembersShow
  <2>3. srv'.rows = srv.rows /\ (MembersPast' \cap MembersExcuses = {} => MembersPast \cap MembersExcuses = {})
    BY <1>1, <2>1 DEF MembersShow, MembersPast, OnMembers!PeerCounts
  <2>4. Listing(net', MembersPast', ui'.rows, srv'.rows, MembersReads, MembersWrites, MembersExcuses)
    BY <2>1, <2>3 DEF MembersShow, Listing
  <2> QED
    BY <2>1, <2>2, <2>4 DEF MembersShow, MembersAsked, MembersPaired
<1>2. CASE OnMembers!PeerWrites
  <2>1. net' = net /\ ui' = ui /\ srv' = [rows |-> [srv.rows EXCEPT ![OnMembers!Me] = "viewer"], peer |-> "done"]
    BY <1>2 DEF OnMembers!PeerWrites
  <2>2. MembersTypes'
    BY <2>1 DEF MembersShow
  <2>3. "peer" \in MembersPast' \cap MembersExcuses
    BY <2>1 DEF MembersPast, MembersExcuses
  <2>4. Listing(net', MembersPast', ui'.rows, srv'.rows, MembersReads, MembersWrites, MembersExcuses)
    BY <2>1, <2>3 DEF MembersShow, Listing
  <2> QED
    BY <2>1, <2>2, <2>4 DEF MembersShow, MembersAsked, MembersPaired
<1> QED
  BY <1>1, <1>2

\* The server's answers keep it: a read is answered with what is there.
LEMMA MembersServe == MembersShow /\ OnMembers!Serve => MembersShow'
<1> SUFFICES ASSUME MembersShow, OnMembers!Serve PROVE MembersShow'
  OBVIOUS
<1>0. /\ DOMAIN srv = {"rows", "peer"} /\ DOMAIN srv.rows \subseteq OnMembers!Users /\ OnMembers!There = DOMAIN srv.rows
      /\ \A u \in DOMAIN srv.rows : srv.rows[u] \in {"owner", "viewer"}
  BY DEF MembersShow, MembersTypes, OnMembers!TypeOK, OnMembers!There
<1>1. ASSUME NEW k \in OnMembers!Refreshes, OnMembers!Handles(k, srv, srv.rows) PROVE MembersShow'
  <2>1. /\ Turns(net, net', k) /\ net'[k].stage = "answered" /\ net'[k].got = srv.rows
        /\ srv' = srv /\ ui' = ui /\ noise' = noise
    BY <1>1, MembersNet
  <2>2. \A j \in DOMAIN net : net'[j].arg = net[j].arg
    BY <1>1 DEF OnMembers!Handles
  <2> QED
    BY <1>0, <2>1, <2>2, MembersTakes
<1>2. ASSUME OnMembers!Out("add"), OnMembers!Handles("add", [srv EXCEPT !.rows =
               [u \in OnMembers!There \cup {OnMembers!Guest} |-> IF u \in OnMembers!There THEN srv.rows[u] ELSE net["add"].arg]], {})
      PROVE  MembersShow'
  <2> DEFINE rows == [u \in OnMembers!There \cup {OnMembers!Guest} |-> IF u \in OnMembers!There THEN srv.rows[u] ELSE net["add"].arg]
             state == [srv EXCEPT !.rows = rows]
  <2>1. OnMembers!Handles("add", state, {})
    BY <1>2
  <2>2. net["add"].arg \in {"owner", "viewer"}
    BY <1>2, MembersTold DEF MembersShow, MembersAsked, OnMembers!Out
  <2>3. DOMAIN rows \subseteq OnMembers!Users /\ \A u \in DOMAIN rows : rows[u] \in {"owner", "viewer"}
    BY <1>0, <2>2 DEF OnMembers!Users
  <2> HIDE DEF rows
  <2>4. DOMAIN state = {"rows", "peer"} /\ state.peer = srv.peer /\ state.rows = rows
    BY <1>0
  <2> HIDE DEF state
  <2>5. \A j \in DOMAIN net : net'[j].arg = net[j].arg
    BY <1>2 DEF OnMembers!Handles
  <2>6. Turns(net, net', "add") /\ net'["add"].stage = "answered" /\ srv' = state /\ ui' = ui /\ noise' = noise
    BY <2>1, MembersNet
  <2> QED
    BY <2>3, <2>4, <2>5, <2>6, MembersTakes, MembersTold
<1>3. ASSUME NEW k \in MembersWrites, NEW rows, OnMembers!Writes(k, rows),
             DOMAIN rows \subseteq OnMembers!Users, \A u \in DOMAIN rows : rows[u] \in {"owner", "viewer"}
      PROVE  MembersShow'
  <2>1. Turns(net, net', k) /\ net'[k].stage = "answered"
    BY <1>3 DEF OnMembers!Writes, OnMembers!Out, Turns, MembersShow, Listing
  <2>2. ui' = ui /\ noise' = noise /\ \A j \in DOMAIN net : net'[j].arg = net[j].arg
    BY <1>3 DEF OnMembers!Writes
  <2>3. DOMAIN srv' = {"rows", "peer"} /\ srv'.peer = srv.peer /\ srv'.rows = rows
    BY <1>0, <1>3 DEF OnMembers!Writes
  <2> QED
    BY <1>3, <2>1, <2>2, <2>3, MembersTakes
<1>4. ASSUME NEW u \in OnMembers!There, OnMembers!Writes(OnMembers!Role(u), [srv.rows EXCEPT ![u] = net[OnMembers!Role(u)].arg])
      PROVE  MembersShow'
  <2>1. OnMembers!Role(u) \in MembersWrites \ {"remove"}
    BY <1>0, MembersTold DEF MembersNames
  <2>2. net[OnMembers!Role(u)].arg \in {"owner", "viewer"}
    BY <1>4, <2>1 DEF MembersShow, MembersAsked, OnMembers!Writes, OnMembers!Out
  <2> DEFINE rows == [srv.rows EXCEPT ![u] = net[OnMembers!Role(u)].arg]
  <2>3. DOMAIN rows \subseteq OnMembers!Users /\ \A v \in DOMAIN rows : rows[v] \in {"owner", "viewer"}
    BY <1>0, <2>2
  <2>4. OnMembers!Writes(OnMembers!Role(u), rows)
    BY <1>4
  <2> HIDE DEF rows
  <2> QED
    BY <1>3, <2>1, <2>3, <2>4
<1>5. ASSUME OnMembers!Writes("remove", OnMembers!Restrict(srv.rows, OnMembers!There \ {net["remove"].arg}))
      PROVE  MembersShow'
  <2> DEFINE rows == OnMembers!Restrict(srv.rows, OnMembers!There \ {net["remove"].arg})
  <2>1. DOMAIN rows \subseteq OnMembers!Users /\ \A v \in DOMAIN rows : rows[v] \in {"owner", "viewer"}
    BY <1>0 DEF OnMembers!Restrict
  <2>2. OnMembers!Writes("remove", rows)
    BY <1>5
  <2> HIDE DEF rows
  <2> QED
    BY <1>3, <2>1, <2>2, MembersTold
<1> QED
  BY <1>1, <1>2, <1>4, <1>5, MembersCounts, MembersPeer DEF OnMembers!Serve

\* The list is read: it shows what came, or the page knows that it may not.
LEMMA MembersReadBack ==
  ASSUME MembersShow, NEW k \in OnMembers!Refreshes, OnMembers!RefreshBack(k)
  PROVE  MembersShow'
<1>1. k \in DOMAIN net /\ Closes(net, net', k) /\ srv' = srv
  BY MembersNet DEF OnMembers!RefreshBack, OnMembers!Returned, OnMembers!Answered, OnMembers!Rejected, OnMembers!Out
<1>2. /\ DOMAIN ui' = DOMAIN ui /\ ui'.dialog = ui.dialog /\ ui'.updating \in {ui.updating, OnMembers!Nobody}
      /\ ui'.submitting = IF k = "added" THEN FALSE ELSE ui.submitting
      /\ ui'.removing = IF k = "removed" THEN FALSE ELSE ui.removing
      /\ ui'.rows = IF net[k].stage = "answered" THEN net[k].got ELSE [u \in {} |-> "viewer"]
  <2> DEFINE shown == [ui EXCEPT !.rows = IF OnMembers!Answered(k) THEN net[k].got ELSE [u \in {} |-> "viewer"]]
  <2>1. ui' = CASE k = "refresh" -> shown
                [] k = "added" -> [shown EXCEPT !.submitting = FALSE]
                [] k = "removed" -> [shown EXCEPT !.removing = FALSE]
                [] OTHER -> [shown EXCEPT !.updating = OnMembers!Nobody]
    BY DEF OnMembers!RefreshBack
  <2>2. /\ DOMAIN shown = DOMAIN ui /\ \A f \in DOMAIN ui \ {"rows"} : shown[f] = ui[f]
        /\ {"rows", "submitting", "removing", "updating", "dialog"} \subseteq DOMAIN ui
        /\ shown.rows = IF net[k].stage = "answered" THEN net[k].got ELSE [u \in {} |-> "viewer"]
    BY <1>1 DEF MembersShow, MembersTypes, OnMembers!Answered, OnMembers!Out
  <2> HIDE DEF shown
  <2> QED
    BY <2>1, <2>2
<1>3. MembersPast' \cap MembersExcuses = {} => MembersPast \cap MembersExcuses = {} /\ net[k].stage = "answered" /\ ui'.rows = net[k].got
  BY <1>1, <1>2 DEF OnMembers!RefreshBack, OnMembers!Returned, OnMembers!Answered, OnMembers!Rejected, MembersPast, MembersExcuses, Excuses
<1>4. Listing(net', MembersPast', ui'.rows, srv'.rows, MembersReads, MembersWrites, MembersExcuses)
  BY <1>1, <1>3, ListingShows DEF MembersShow, MembersReads
<1>5. MembersTypes'
  BY <1>1, <1>2 DEF MembersShow, MembersTypes, OnMembers!TypeOK, OnMembers!There
<1>6. MembersAsked' /\ MembersPaired'
  BY <1>1, <1>2 DEF MembersShow, Closes, MembersPaired, Paired, MembersAsked
<1> QED
  BY <1>4, <1>5, <1>6 DEF MembersShow

\* A write is answered: a read of the list follows, or the page knows it should.
LEMMA MembersWriteBack ==
  ASSUME MembersShow, NEW k \in MembersWrites, NEW kk \in MembersReads, OnMembers!Returned(k), MembersTypes',
         ui'.rows = ui.rows, srv' = srv, ui'.submitting = ui.submitting \/ k = "add", ui'.removing = ui.removing \/ k = "remove",
         \/ OnMembers!Refresh(OnMembers!Closed(k), kk) /\ ui'.submitting = ui.submitting /\ ui'.removing = ui.removing
         \/ net' = OnMembers!Closed(k) /\ noise' = noise \cup {"lost answer"},
         k = "add" <=> kk = "added", k = "remove" <=> kk = "removed"
  PROVE  MembersShow'
<1> DEFINE closed == OnMembers!Closed(k)
<1>1. Closes(net, closed, k) /\ \A j \in MembersReads : j \notin MembersWrites /\ j \notin {"add", "remove"}
  BY MembersNet, MembersTold DEF OnMembers!Returned, OnMembers!Answered, OnMembers!Rejected, OnMembers!Out
<1>2. CASE net' = closed /\ noise' = noise \cup {"lost answer"}
  <2>1. "lost answer" \in MembersPast' \cap MembersExcuses
    BY <1>2 DEF MembersPast, MembersExcuses, Excuses
  <2>2. Listing(net', MembersPast', ui'.rows, srv'.rows, MembersReads, MembersWrites, MembersExcuses)
    BY <1>1, <1>2, <2>1, ListingCloses DEF MembersShow
  <2>3. MembersAsked' /\ MembersPaired'
    BY <1>1, <1>2 DEF MembersShow, Closes, MembersPaired, Paired, MembersAsked
  <2> QED
    BY <2>2, <2>3 DEF MembersShow
<1>3. CASE OnMembers!Refresh(closed, kk) /\ ui'.submitting = ui.submitting /\ ui'.removing = ui.removing
  <2>1. Sends(closed, net', kk) /\ (MembersPast' \cap MembersExcuses = {} => DOMAIN closed \cap MembersReads = {})
    BY <1>3, MembersNet DEF OnMembers!Refresh, MembersReads, MembersPast, MembersExcuses, Excuses
  <2> HIDE DEF closed
  <2>2. Listing(net', MembersPast', ui'.rows, srv'.rows, MembersReads, MembersWrites, MembersExcuses)
    BY <1>1, <2>1, ListingFollows DEF MembersShow
  <2>3. MembersPaired'
    BY <1>1, <1>3, <2>1 DEF MembersShow, Sends, Closes, MembersPaired, Paired
  <2>4. MembersAsked'
    BY <1>1, <2>1 DEF MembersShow, Sends, Closes, MembersAsked
  <2> QED
    BY <2>2, <2>3, <2>4 DEF MembersShow
<1> QED
  BY <1>2, <1>3

\* Every step of the page keeps it.
LEMMA MembersShowStep == MembersShow /\ OnMembers!Next => MembersShow'
<1> SUFFICES ASSUME MembersShow, OnMembers!Next PROVE MembersShow'
  OBVIOUS
<1> USE DEF MembersTypes, OnMembers!TypeOK, OnMembers!There
<1>0. MembersTypes
  BY DEF MembersShow
<1>1. ASSUME NEW u \in OnMembers!Users, OnMembers!RoleBack(u) PROVE MembersShow'
  <2>1. /\ OnMembers!Role(u) \in MembersWrites /\ OnMembers!Named("changed", u) \in MembersReads
        /\ OnMembers!Role(u) \notin {"add", "remove"} /\ OnMembers!Named("changed", u) \notin {"added", "removed"}
    BY MembersTold DEF MembersNames
  <2>2. MembersTypes' /\ ui'.rows = ui.rows /\ ui'.submitting = ui.submitting /\ ui'.removing = ui.removing /\ srv' = srv
    BY <1>0, <1>1 DEF OnMembers!RoleBack
  <2> QED
    BY <1>1, <2>1, <2>2, MembersWriteBack DEF OnMembers!RoleBack, OnMembers!Lost, OnMembers!Returned
<1>2. CASE OnMembers!AddBack
  <2>1. /\ MembersTypes' /\ ui'.rows = ui.rows /\ ui'.removing = ui.removing
        /\ (OnMembers!Answered("add") => ui'.submitting = ui.submitting)
    BY <1>0, <1>2 DEF OnMembers!AddBack
  <2> QED
    BY <1>2, <2>1, MembersTold, MembersWriteBack DEF OnMembers!AddBack, OnMembers!Lost, OnMembers!Returned
<1>3. CASE OnMembers!RemoveBack
  <2>1. /\ MembersTypes' /\ ui'.rows = ui.rows /\ ui'.submitting = ui.submitting
        /\ (OnMembers!Answered("remove") => ui'.removing = ui.removing)
    BY <1>0, <1>3 DEF OnMembers!RemoveBack
  <2> QED
    BY <1>3, <2>1, MembersTold, MembersWriteBack DEF OnMembers!RemoveBack, OnMembers!Lost, OnMembers!Returned
<1>4. ASSUME NEW k \in DOMAIN net, OnMembers!Breaks(k) PROVE MembersShow'
  <2>1. Turns(net, net', k) /\ net'[k].stage = "failed" /\ ui' = ui /\ srv' = srv /\ noise' = noise
    BY <1>4, MembersNet
  <2>2. Listing(net', MembersPast', ui'.rows, srv'.rows, MembersReads, MembersWrites, MembersExcuses)
    BY <2>1, ListingFails DEF MembersShow, MembersPast
  <2>3. \A j \in DOMAIN net : net'[j].arg = net[j].arg
    BY <1>4 DEF OnMembers!Breaks, OnMembers!Fails
  <2>4. MembersAsked' /\ MembersPaired'
    BY <2>1, <2>3 DEF MembersShow, Turns, MembersAsked, MembersPaired, Paired
  <2> QED
    BY <1>0, <2>1, <2>2, <2>4 DEF MembersShow
<1> QED
  BY <1>1, <1>2, <1>3, <1>4, MembersClicks, MembersServe, MembersReadBack DEF OnMembers!Next, OnMembers!Returns

\* It is what the page promises.
LEMMA MembersShowEnough == MembersShow => OnMembers!ShowsServer /\ OnMembers!TypeOK
<1> SUFFICES ASSUME MembersShow PROVE OnMembers!ShowsServer /\ OnMembers!TypeOK
  OBVIOUS
<1>1. noise \cap {"stale rows", "lost answer"} = {} /\ srv.peer # "done" => MembersPast \cap MembersExcuses = {}
  BY DEF MembersPast, MembersExcuses, Excuses
<1>2. DOMAIN net = {} /\ MembersPast \cap MembersExcuses = {} => ui.rows = srv.rows
  BY DEF MembersShow, Listing, Fresh
<1> QED
  BY <1>1, <1>2 DEF MembersShow, MembersTypes, OnMembers!ShowsServer, OnMembers!Quiet

------------------------------------------------------------------------------
(* Variables *)

\* What is kept on this page: the record has the flag.
VariablesSpins == {"saving"} \subseteq DOMAIN ui /\ OnVariables!SpinnersHaveRequests

\* It holds when the page opens.
LEMMA VariablesInit == OnVariables!Init => VariablesSpins
  BY DEF OnVariables!Init, VariablesSpins, OnVariables!SpinnersHaveRequests

\* The requests of the page that are about no row.
VariablesNames == {"load", "saved", "usage", "set"}

\* The requests about a row are told from these and from each other.
LEMMA VariablesNamed ==
  ASSUME NEW n \in OnVariables!AnyName
  PROVE  OnVariables!Named("delete", n) \notin VariablesNames /\ OnVariables!Named("deleted", n) \notin VariablesNames
  BY NamesAssumption DEF Distinct, VariablesNames, OnVariables!Named

\* Every step of the page keeps it.
LEMMA VariablesStep == VariablesSpins /\ OnVariables!Next => VariablesSpins'
<1> SUFFICES ASSUME VariablesSpins, OnVariables!Next PROVE VariablesSpins'
  OBVIOUS
<1> USE DEF VariablesSpins, OnVariables!SpinnersHaveRequests, OnVariables!Out
<1>1. CASE OnVariables!Serve
  BY <1>1 DEF OnVariables!Serve, OnVariables!Handles, OnVariables!Restrict
<1>2. CASE OnVariables!UsageBack
  BY <1>2 DEF OnVariables!UsageBack, OnVariables!Closed, OnVariables!Without, OnVariables!Restrict
<1>3. CASE OnVariables!SaveBack
  BY <1>3 DEF OnVariables!SaveBack, OnVariables!Blank, OnVariables!Load, OnVariables!Closed, OnVariables!With, OnVariables!Without, OnVariables!Restrict
<1>4. ASSUME NEW k \in OnVariables!Loads, OnVariables!LoadBack(k) PROVE VariablesSpins'
  <2>1. DOMAIN ui' = DOMAIN ui /\ ui'.saving = IF k = "saved" THEN FALSE ELSE ui.saving
    BY <1>4, VariablesNamed DEF OnVariables!LoadBack, OnVariables!Reloads, VariablesNames
  <2>2. DOMAIN net' = DOMAIN net \ {k}
    BY <1>4 DEF OnVariables!LoadBack, OnVariables!Closed, OnVariables!Without, OnVariables!Restrict
  <2>3. k # "set"
    BY VariablesNamed DEF OnVariables!Loads, OnVariables!Reloads, VariablesNames
  <2> QED
    BY <2>1, <2>2, <2>3
<1>5. ASSUME NEW n \in OnVariables!AnyName, OnVariables!DeleteBack(n) PROVE VariablesSpins'
  <2> DEFINE k == OnVariables!Named("delete", n)  kk == OnVariables!Named("deleted", n)
  <2>1. DOMAIN ui' = DOMAIN ui /\ ui'.saving = ui.saving
    BY <1>5 DEF OnVariables!DeleteBack
  <2>2. DOMAIN net' = DOMAIN net \ {k} \/ DOMAIN net' = (DOMAIN net \ {k}) \cup {kk}
    BY <1>5 DEF OnVariables!DeleteBack, OnVariables!Load, OnVariables!Closed, OnVariables!Without, OnVariables!Restrict, OnVariables!With
  <2>3. k \notin VariablesNames
    BY VariablesNamed
  <2> HIDE DEF k, kk
  <2> QED
    BY <2>1, <2>2, <2>3 DEF VariablesNames
<1>6. CASE OnVariables!LeaveDialog
  BY <1>6 DEF OnVariables!LeaveDialog
<1>7. CASE OnVariables!ConfirmDelete
  BY <1>7 DEF OnVariables!ConfirmDelete, OnVariables!Sent, OnVariables!With
<1>8. CASE OnVariables!Save
  BY <1>8 DEF OnVariables!Save, OnVariables!Sent, OnVariables!With
<1>9. ASSUME NEW n \in OnVariables!AnyName, OnVariables!EditRow(n) PROVE VariablesSpins'
  BY <1>9 DEF OnVariables!EditRow
<1>10. ASSUME NEW n \in OnVariables!AnyName, OnVariables!Type(n) PROVE VariablesSpins'
  BY <1>10 DEF OnVariables!Type
<1>11. ASSUME NEW n \in OnVariables!AnyName, OnVariables!AskDelete(n) PROVE VariablesSpins'
  BY <1>11 DEF OnVariables!AskDelete
<1>12. ASSUME NEW k \in DOMAIN net, OnVariables!Breaks(k) PROVE VariablesSpins'
  BY <1>12 DEF OnVariables!Breaks, OnVariables!Fails
<1> QED
  BY <1>1, <1>2, <1>3, <1>4, <1>5, <1>6, <1>7, <1>8, <1>9, <1>10, <1>11, <1>12 DEF OnVariables!Next, OnVariables!Returns, OnVariables!Clicks

\* A value is as its name was first given it, a name's typing and digits excepted.
AsItStood(state, n, v) == n \in state.typed \/ v = state.was[n] \/ state.was[n] = "digits"
AllAsTheyStood(state, vars) == \A n \in DOMAIN vars : AsItStood(state, n, vars[n])
FormAsItStood(state, f) ==
  /\ DOMAIN f = {"name", "text", "from"} /\ f.name \in OnVariables!AnyName \cup {OnVariables!NoName}
  /\ f.from = f.name /\ f.name # OnVariables!NoName =>
       \/ f.name \in state.typed \/ state.was[f.name] = "digits"
       \/ f.text = OnVariables!TextOf(state.was[f.name])

\* With it, so is what was read, what is shown, and what is in the form or was
\* sent from it.
VariablesRules ==
  /\ DOMAIN srv = {"vars", "used", "was", "typed"} /\ {"vars", "form"} \subseteq DOMAIN ui
  /\ \A n \in OnVariables!AnyName : srv.was[n] \in OnVariables!Values
  /\ DOMAIN srv.vars \subseteq OnVariables!AnyName /\ AllAsTheyStood(srv, srv.vars)
  /\ "dialog" \in DOMAIN ui /\ ui.dialog \in OnVariables!AnyName \cup {OnVariables!NoName}
  /\ ui.vars # OnVariables!NoVars => AllAsTheyStood(srv, ui.vars)
  /\ FormAsItStood(srv, ui.form)
  /\ \A k \in DOMAIN net :
       /\ DOMAIN net[k] = {"arg", "stage", "got"}
       /\ k \in OnVariables!Loads /\ net[k].stage = "answered" => AllAsTheyStood(srv, net[k].got)
       /\ k = "set" => FormAsItStood(srv, net[k].arg) /\ net[k].arg.name # OnVariables!NoName

\* It holds when the page opens.
LEMMA VariablesRulesInit == OnVariables!Init => VariablesRules
<1> SUFFICES ASSUME OnVariables!Init PROVE VariablesRules
  OBVIOUS
<1>1. PICK f \in [OnVariables!Names -> OnVariables!Values] :
        srv = [vars |-> f, used |-> {"v"}, was |-> [n \in OnVariables!AnyName |-> IF n \in OnVariables!Names THEN f[n] ELSE "word"],
               typed |-> {OnVariables!Fresh}]
  BY DEF OnVariables!Init
<1>2. /\ DOMAIN srv = {"vars", "used", "was", "typed"} /\ srv.vars = f
      /\ srv.was = [n \in OnVariables!AnyName |-> IF n \in OnVariables!Names THEN f[n] ELSE "word"]
  BY <1>1
<1>3. /\ \A n \in OnVariables!AnyName : srv.was[n] \in OnVariables!Values
      /\ DOMAIN srv.vars \subseteq OnVariables!AnyName /\ AllAsTheyStood(srv, srv.vars)
  BY <1>2 DEF OnVariables!AnyName, OnVariables!Values, AllAsTheyStood, AsItStood
<1>4. {"vars", "form"} \subseteq DOMAIN ui /\ ui.vars = OnVariables!NoVars /\ FormAsItStood(srv, ui.form)
      /\ "dialog" \in DOMAIN ui /\ ui.dialog = OnVariables!NoName
  BY DEF OnVariables!Init, FormAsItStood, OnVariables!Blank
<1>5. \A k \in DOMAIN net : DOMAIN net[k] = {"arg", "stage", "got"} /\ net[k].stage = "sent" /\ k # "set"
  BY DEF OnVariables!Init, OnVariables!With
<1> QED
  BY <1>2, <1>3, <1>4, <1>5 DEF VariablesRules

\* What is deleted is not what is read after a deletion.
LEMMA VariablesNamedApart ==
  \A n, m \in OnVariables!AnyName : OnVariables!Named("delete", n) # OnVariables!Named("deleted", m)
<1> DEFINE ops == {"delete", "deleted"}
<1>1. Distinct(ops, OnVariables!AnyName, VariablesNames)
  BY NamesAssumption DEF VariablesNames
<1>2. \A op \in ops, n \in OnVariables!AnyName, op2 \in ops, m \in OnVariables!AnyName :
        op \o ToString(n) = op2 \o ToString(m) => op = op2 /\ n = m
  BY <1>1 DEF Distinct
<1> QED
  BY <1>2 DEF OnVariables!Named

\* A new request, after an answer or with the others.
LEMMA VariablesRulesNet ==
  ASSUME VariablesRules, srv' = srv, {"vars", "form", "dialog"} \subseteq DOMAIN ui',
         ui'.dialog \in OnVariables!AnyName \cup {OnVariables!NoName},
         ui'.vars # OnVariables!NoVars => AllAsTheyStood(srv, ui'.vars), FormAsItStood(srv, ui'.form),
         NEW gone, NEW k, NEW a, k = "set" => FormAsItStood(srv, a) /\ a.name # OnVariables!NoName,
         \/ net' = net \/ net' = OnVariables!Closed(gone)
         \/ net' = OnVariables!Sent(k, a) \/ net' = OnVariables!With(OnVariables!Closed(gone), k, a)
  PROVE  VariablesRules'
<1> DEFINE r == [arg |-> a, stage |-> "sent", got |-> "nothing"]
<1>1. \A j \in DOMAIN net' : (j \in DOMAIN net /\ net'[j] = net[j]) \/ (j = k /\ net'[j] = r)
  <2>1. CASE net' = net
    BY <2>1
  <2>2. \A j \in DOMAIN OnVariables!Closed(gone) : j \in DOMAIN net /\ OnVariables!Closed(gone)[j] = net[j]
    BY DEF OnVariables!Closed, OnVariables!Without, OnVariables!Restrict
  <2>3. ASSUME NEW n, \A j \in DOMAIN n : j \in DOMAIN net /\ n[j] = net[j], net' = OnVariables!With(n, k, a)
        PROVE  \A j \in DOMAIN net' : (j \in DOMAIN net /\ net'[j] = net[j]) \/ (j = k /\ net'[j] = r)
    BY <2>3 DEF OnVariables!With
  <2> QED
    BY <2>1, <2>2, <2>3 DEF OnVariables!Sent
<1>2. DOMAIN r = {"arg", "stage", "got"} /\ r.stage = "sent" /\ r.arg = a
  OBVIOUS
<1> HIDE DEF r
<1>3. ASSUME NEW j \in DOMAIN net'
      PROVE  /\ DOMAIN net'[j] = {"arg", "stage", "got"}
             /\ j \in OnVariables!Loads /\ net'[j].stage = "answered" => AllAsTheyStood(srv, net'[j].got)
             /\ j = "set" => FormAsItStood(srv, net'[j].arg) /\ net'[j].arg.name # OnVariables!NoName
  BY <1>1, <1>2, Zenon DEF VariablesRules
<1> QED
  BY <1>3, Zenon DEF VariablesRules

\* The server takes a request: no name is untyped.
LEMMA VariablesRulesServe ==
  ASSUME VariablesRules, NEW k, NEW s, NEW answer, OnVariables!Handles(k, s, answer),
         DOMAIN s = {"vars", "used", "was", "typed"}, s.was = srv.was, srv.typed \subseteq s.typed,
         DOMAIN s.vars \subseteq OnVariables!AnyName, AllAsTheyStood(s, s.vars), k \in OnVariables!Loads => AllAsTheyStood(s, answer)
  PROVE  VariablesRules'
<1>1. /\ srv' = s /\ ui' = ui /\ k \in DOMAIN net /\ DOMAIN net' = DOMAIN net
      /\ net' = [net EXCEPT ![k].stage = "answered", ![k].got = answer]
  BY DEF OnVariables!Handles, OnVariables!Out
<1>2. /\ DOMAIN net'[k] = {"arg", "stage", "got"} /\ net'[k].arg = net[k].arg /\ net'[k].got = answer
  BY <1>1 DEF VariablesRules
<1>3. \A j \in DOMAIN net : j # k => net'[j] = net[j]
  BY <1>1
<1>4. /\ \A vars : AllAsTheyStood(srv, vars) => AllAsTheyStood(s, vars)
      /\ \A f : FormAsItStood(srv, f) => FormAsItStood(s, f)
  BY DEF AllAsTheyStood, AsItStood, FormAsItStood
<1>5. ASSUME NEW j \in DOMAIN net'
      PROVE  /\ DOMAIN net'[j] = {"arg", "stage", "got"}
             /\ j \in OnVariables!Loads /\ net'[j].stage = "answered" => AllAsTheyStood(s, net'[j].got)
             /\ j = "set" => FormAsItStood(s, net'[j].arg) /\ net'[j].arg.name # OnVariables!NoName
  BY <1>1, <1>2, <1>3, <1>4, Zenon DEF VariablesRules
<1>6. /\ ui'.vars # OnVariables!NoVars => AllAsTheyStood(s, ui'.vars)
      /\ FormAsItStood(s, ui'.form) /\ {"vars", "form"} \subseteq DOMAIN ui'
  BY <1>1, <1>4 DEF VariablesRules
<1>7. \A n \in OnVariables!AnyName : s.was[n] \in OnVariables!Values
  BY DEF VariablesRules
<1> QED
  BY <1>1, <1>5, <1>6, <1>7, Zenon DEF VariablesRules

\* Every step of the page keeps it.
LEMMA VariablesRulesStep == VariablesRules /\ OnVariables!Next => VariablesRules'
<1> SUFFICES ASSUME VariablesRules, OnVariables!Next PROVE VariablesRules'
  OBVIOUS
<1>n. /\ {"set", "usage"} \cap OnVariables!Loads = {}
      /\ \A n \in OnVariables!AnyName : OnVariables!Named("delete", n) \notin OnVariables!Loads \cup {"set"}
      /\ \A n \in OnVariables!AnyName : OnVariables!Named("deleted", n) # "set"
  BY VariablesNamed, VariablesNamedApart DEF VariablesNames, OnVariables!Loads, OnVariables!Reloads
<1>u. /\ {"vars", "form", "dialog"} \subseteq DOMAIN ui /\ FormAsItStood(srv, ui.form)
      /\ ui.dialog \in OnVariables!AnyName \cup {OnVariables!NoName} /\ DOMAIN srv.vars \subseteq OnVariables!AnyName
      /\ ui.vars # OnVariables!NoVars => AllAsTheyStood(srv, ui.vars)
      /\ DOMAIN srv = {"vars", "used", "was", "typed"} /\ AllAsTheyStood(srv, srv.vars)
  BY DEF VariablesRules
<1>1. CASE \/ \E k \in OnVariables!Loads : OnVariables!Handles(k, srv, srv.vars)
           \/ OnVariables!Handles("usage", srv, srv.used)
  BY <1>1, <1>u, <1>n, VariablesRulesServe
<1>2. CASE OnVariables!Out("set") /\ OnVariables!Handles("set", OnVariables!Stored(net["set"].arg), {})
  <2> DEFINE form == net["set"].arg
             vars == [n \in OnVariables!There \cup {form.name} |-> IF n = form.name THEN OnVariables!Parsed(form.text) ELSE srv.vars[n]]
             typed == IF form.from = form.name THEN srv.typed ELSE srv.typed \cup {form.name}
             s == [srv EXCEPT !.vars = vars, !.typed = typed]
  <2>1. FormAsItStood(srv, form) /\ form.name # OnVariables!NoName
    BY <1>2 DEF VariablesRules, OnVariables!Out
  <2>2. s = OnVariables!Stored(form)
    BY DEF OnVariables!Stored
  <2>3. DOMAIN s = {"vars", "used", "was", "typed"} /\ s.was = srv.was /\ s.vars = vars /\ s.typed = typed
    BY <1>u
  <2>4. srv.was[form.name] \in OnVariables!Values
    BY <2>1 DEF FormAsItStood, VariablesRules
  <2> HIDE DEF s, form
  <2>5. srv.typed \subseteq typed
    OBVIOUS
  <2>6. AsItStood(s, form.name, OnVariables!Parsed(form.text))
    <3>1. CASE form.from # form.name
      BY <2>3, <3>1 DEF AsItStood
    <3>2. CASE form.from = form.name
      <4>1. \/ form.name \in srv.typed \/ srv.was[form.name] = "digits"
            \/ form.text = OnVariables!TextOf(srv.was[form.name])
        BY <2>1, <3>2 DEF FormAsItStood
      <4>2. form.text = OnVariables!TextOf(srv.was[form.name]) /\ srv.was[form.name] # "digits" =>
              OnVariables!Parsed(form.text) = srv.was[form.name]
        BY <2>4 DEF OnVariables!Values, OnVariables!TextOf, OnVariables!Parsed
      <4> QED
        BY <2>3, <2>5, <4>1, <4>2 DEF AsItStood
    <3> QED
      BY <3>1, <3>2
  <2>7. \A n \in OnVariables!There : AsItStood(s, n, srv.vars[n])
    BY <1>u, <2>3, <2>5 DEF AllAsTheyStood, AsItStood, OnVariables!There
  <2>8. DOMAIN vars = OnVariables!There \cup {form.name} /\ \A n \in DOMAIN vars : vars[n] = IF n = form.name THEN OnVariables!Parsed(form.text) ELSE srv.vars[n]
    OBVIOUS
  <2>9. AllAsTheyStood(s, s.vars) /\ DOMAIN s.vars \subseteq OnVariables!AnyName
    <3>1. DOMAIN vars \subseteq OnVariables!AnyName
      BY <2>1, <1>u DEF FormAsItStood, OnVariables!There
    <3> HIDE DEF vars, typed
    <3> QED
      BY <2>3, <2>6, <2>7, <2>8, <3>1, Zenon DEF AllAsTheyStood
  <2>10. OnVariables!Handles("set", s, {})
    BY <1>2, <2>2 DEF form
  <2> QED
    BY <1>n, <2>3, <2>5, <2>9, <2>10, VariablesRulesServe
<1>3. ASSUME NEW n \in OnVariables!There,
             OnVariables!Handles(OnVariables!Named("delete", n), [srv EXCEPT !.vars = OnVariables!Restrict(@, OnVariables!There \ {n})], {})
      PROVE  VariablesRules'
  <2> DEFINE s == [srv EXCEPT !.vars = OnVariables!Restrict(@, OnVariables!There \ {n})]
  <2>1. /\ DOMAIN s = {"vars", "used", "was", "typed"} /\ s.was = srv.was /\ s.typed = srv.typed
        /\ s.vars = OnVariables!Restrict(srv.vars, OnVariables!There \ {n})
    BY <1>u
  <2> HIDE DEF s
  <2>2. AllAsTheyStood(s, s.vars) /\ DOMAIN s.vars \subseteq OnVariables!AnyName
    BY <1>u, <2>1 DEF AllAsTheyStood, AsItStood, OnVariables!Restrict, OnVariables!There
  <2>3. OnVariables!Handles(OnVariables!Named("delete", n), s, {})
    BY <1>3 DEF s
  <2>4. OnVariables!Named("delete", n) \notin OnVariables!Loads
    BY <1>n, <1>u DEF OnVariables!There
  <2> QED
    BY <2>1, <2>2, <2>3, <2>4, VariablesRulesServe
<1>4. CASE OnVariables!Serve
  BY <1>1, <1>2, <1>3, <1>4, Zenon DEF OnVariables!Serve
<1>5. CASE OnVariables!UsageBack
  <2>1. /\ {"vars", "form", "dialog"} \subseteq DOMAIN ui' /\ ui'.dialog = ui.dialog /\ ui'.vars = ui.vars /\ ui'.form = ui.form /\ srv' = srv
        /\ net' = OnVariables!Closed("usage")
    BY <1>5, <1>u DEF OnVariables!UsageBack
  <2> QED
    BY <1>n, <1>u, <2>1, VariablesRulesNet
<1>6. CASE OnVariables!SaveBack
  <2>1. /\ {"vars", "form", "dialog"} \subseteq DOMAIN ui' /\ ui'.dialog = ui.dialog /\ ui'.vars = ui.vars /\ ui'.form \in {ui.form, OnVariables!Blank} /\ srv' = srv
        /\ net' = OnVariables!Closed("set") \/ net' = OnVariables!With(OnVariables!Closed("set"), "saved", {})
    BY <1>6, <1>u DEF OnVariables!SaveBack, OnVariables!Load
  <2>2. FormAsItStood(srv, OnVariables!Blank)
    BY DEF FormAsItStood, OnVariables!Blank
  <2> QED
    BY <1>n, <1>u, <2>1, <2>2, VariablesRulesNet
<1>7. ASSUME NEW k \in OnVariables!Loads, OnVariables!LoadBack(k) PROVE VariablesRules'
  <2> DEFINE shown == IF OnVariables!Answered(k) THEN [ui EXCEPT !.vars = net[k].got] ELSE ui
  <2>1. DOMAIN shown = DOMAIN ui /\ shown.form = ui.form /\ shown.dialog = ui.dialog /\ shown.vars = IF OnVariables!Answered(k) THEN net[k].got ELSE ui.vars
    BY <1>u
  <2>2. srv' = srv /\ net' = OnVariables!Closed(k)
    BY <1>7 DEF OnVariables!LoadBack
  <2>3. OnVariables!Answered(k) => AllAsTheyStood(srv, net[k].got)
    BY DEF VariablesRules, OnVariables!Answered, OnVariables!Out
  <2>4. ui' = CASE k = "saved" -> [shown EXCEPT !.saving = FALSE]
                [] k \in OnVariables!Reloads -> [shown EXCEPT !.dialog = OnVariables!NoName]
                [] OTHER -> shown
    BY <1>7 DEF OnVariables!LoadBack
  <2> HIDE DEF shown
  <2>5. DOMAIN ui' = DOMAIN shown /\ ui'.form = shown.form /\ ui'.vars = shown.vars /\ ui'.dialog \in {shown.dialog, OnVariables!NoName}
    <3>0. "saved" \notin OnVariables!Reloads
      BY VariablesNamed DEF VariablesNames, OnVariables!Reloads
    <3>1. CASE k = "saved"
      <4>1. ui' = [shown EXCEPT !.saving = FALSE]
        BY <2>4, <3>0, <3>1
      <4> QED
        BY <4>1
    <3>2. CASE k \in OnVariables!Reloads
      <4>1. ui' = [shown EXCEPT !.dialog = OnVariables!NoName]
        BY <2>4, <3>0, <3>2
      <4> QED
        BY <4>1, <2>1, <1>u
    <3>3. CASE k # "saved" /\ k \notin OnVariables!Reloads
      <4>1. ui' = shown
        BY <2>4, <3>3
      <4> QED
        BY <4>1
    <3> QED
      BY <3>1, <3>2, <3>3
  <2>6. /\ {"vars", "form", "dialog"} \subseteq DOMAIN ui' /\ FormAsItStood(srv, ui'.form)
        /\ ui'.dialog \in OnVariables!AnyName \cup {OnVariables!NoName}
        /\ ui'.vars # OnVariables!NoVars => AllAsTheyStood(srv, ui'.vars)
    BY <1>u, <2>1, <2>3, <2>5
  <2> QED
    BY <1>n, <2>2, <2>6, VariablesRulesNet
<1>8. ASSUME NEW n \in OnVariables!AnyName, OnVariables!DeleteBack(n) PROVE VariablesRules'
  <2> DEFINE k == OnVariables!Named("delete", n)
             k2 == OnVariables!Named("deleted", n)
  <2>1. /\ {"vars", "form", "dialog"} \subseteq DOMAIN ui' /\ ui'.dialog \in {ui.dialog, OnVariables!NoName} /\ ui'.vars = ui.vars /\ ui'.form = ui.form /\ srv' = srv
        /\ net' = OnVariables!Closed(k) \/ net' = OnVariables!With(OnVariables!Closed(k), k2, {})
    BY <1>8, <1>u DEF OnVariables!DeleteBack, OnVariables!Load
  <2>2. k2 # "set"
    BY <1>n
  <2> HIDE DEF k, k2
  <2> QED
    BY <1>u, <2>1, <2>2, VariablesRulesNet
<1>9. CASE OnVariables!Clicks
  <2>1. CASE OnVariables!LeaveDialog
    <3>1. {"vars", "form", "dialog"} \subseteq DOMAIN ui' /\ ui'.dialog = OnVariables!NoName /\ ui'.vars = ui.vars /\ ui'.form = ui.form /\ srv' = srv /\ net' = net
      BY <2>1, <1>u DEF OnVariables!LeaveDialog
    <3> QED
      BY <1>u, <3>1, <1>n, VariablesRulesNet
  <2>2. CASE OnVariables!ConfirmDelete
    <3>1. PICK k, a : k = OnVariables!Named("delete", ui.dialog) /\ net' = OnVariables!Sent(k, a) /\ UNCHANGED <<ui, srv>>
      BY <2>2 DEF OnVariables!ConfirmDelete
    <3>2. k # "set"
      BY <2>2, <3>1, <1>n, <1>u DEF OnVariables!ConfirmDelete
    <3> QED
      BY <1>u, <3>1, <3>2, VariablesRulesNet
  <2>3. CASE OnVariables!Save
    <3>1. /\ {"vars", "form", "dialog"} \subseteq DOMAIN ui' /\ ui'.dialog = ui.dialog /\ ui'.vars = ui.vars /\ ui'.form = ui.form /\ srv' = srv
          /\ net' = OnVariables!Sent("set", ui.form) /\ ui.form.name # OnVariables!NoName
      BY <2>3, <1>u DEF OnVariables!Save
    <3> QED
      BY <1>u, <3>1, VariablesRulesNet
  <2>4. ASSUME NEW n \in OnVariables!AnyName, OnVariables!EditRow(n) PROVE VariablesRules'
    <3>1. /\ {"vars", "form", "dialog"} \subseteq DOMAIN ui' /\ ui'.dialog = ui.dialog /\ ui'.vars = ui.vars /\ srv' = srv /\ net' = net
          /\ ui'.form = [name |-> n, text |-> OnVariables!TextOf(ui.vars[n]), from |-> n]
      BY <2>4, <1>u DEF OnVariables!EditRow
    <3>2. AsItStood(srv, n, ui.vars[n])
      BY <2>4, <1>u DEF OnVariables!EditRow, OnVariables!Listed, AllAsTheyStood
    <3>3. FormAsItStood(srv, ui'.form)
      BY <3>1, <3>2 DEF FormAsItStood, AsItStood
    <3> QED
      BY <1>u, <1>n, <3>1, <3>3, VariablesRulesNet
  <2>5. ASSUME NEW n \in OnVariables!AnyName, OnVariables!Type(n) PROVE VariablesRules'
    <3>1. /\ {"vars", "form", "dialog"} \subseteq DOMAIN ui' /\ ui'.dialog = ui.dialog /\ ui'.vars = ui.vars /\ srv' = srv /\ net' = net
          /\ ui'.form = [ui.form EXCEPT !.name = n, !.from = OnVariables!NoName]
      BY <2>5, <1>u DEF OnVariables!Type
    <3>2. DOMAIN ui'.form = {"name", "text", "from"} /\ ui'.form.name = n /\ ui'.form.from = OnVariables!NoName
      BY <3>1, <1>u DEF FormAsItStood
    <3>3. FormAsItStood(srv, ui'.form)
      BY <3>2 DEF FormAsItStood
    <3> QED
      BY <1>u, <1>n, <3>1, <3>3, VariablesRulesNet
  <2>6. ASSUME NEW n \in OnVariables!AnyName, OnVariables!AskDelete(n) PROVE VariablesRules'
    <3>1. {"vars", "form", "dialog"} \subseteq DOMAIN ui' /\ ui'.dialog = n /\ ui'.vars = ui.vars /\ ui'.form = ui.form /\ srv' = srv /\ net' = net
      BY <2>6, <1>u DEF OnVariables!AskDelete
    <3> QED
      BY <1>u, <3>1, <1>n, VariablesRulesNet
  <2> QED
    BY <1>9, <2>1, <2>2, <2>3, <2>4, <2>5, <2>6 DEF OnVariables!Clicks
<1>10. ASSUME NEW k \in DOMAIN net, OnVariables!Breaks(k) PROVE VariablesRules'
  <2>1. /\ net' = [net EXCEPT ![k].stage = "failed", ![k].got = "nothing"] /\ UNCHANGED <<ui, srv>>
    BY <1>10 DEF OnVariables!Breaks, OnVariables!Fails
  <2>2. DOMAIN net' = DOMAIN net /\ DOMAIN net'[k] = {"arg", "stage", "got"} /\ net'[k].arg = net[k].arg /\ net'[k].stage = "failed"
    BY <2>1 DEF VariablesRules
  <2>3. \A j \in DOMAIN net : j # k => net'[j] = net[j]
    BY <2>1
  <2>4. ASSUME NEW j \in DOMAIN net'
        PROVE  /\ DOMAIN net'[j] = {"arg", "stage", "got"}
               /\ j \in OnVariables!Loads /\ net'[j].stage = "answered" => AllAsTheyStood(srv, net'[j].got)
               /\ j = "set" => FormAsItStood(srv, net'[j].arg) /\ net'[j].arg.name # OnVariables!NoName
    BY <2>2, <2>3, Zenon DEF VariablesRules
  <2> QED
    BY <2>1, <2>4, Zenon DEF VariablesRules
<1> QED
  BY <1>4, <1>5, <1>6, <1>7, <1>8, <1>9, <1>10 DEF OnVariables!Next, OnVariables!Returns

\* And so has what is stored.
LEMMA VariablesRulesEnough == VariablesRules => OnVariables!SavedAsItStood
  BY DEF VariablesRules, AllAsTheyStood, AsItStood, OnVariables!SavedAsItStood, OnVariables!There

(* What it shows *)

\* The requests that read the list and those that change it.
VariablesReads == OnVariables!Loads
VariablesWrites == {"set"} \cup OnVariables!Deletes

\* Types; one variable is used, and the index knows it or nothing.
VariablesTypes ==
  /\ {"vars", "usage", "form", "saving", "dialog"} \subseteq DOMAIN ui /\ "name" \in DOMAIN ui.form
  /\ DOMAIN srv = {"vars", "used", "was", "typed"} /\ srv.used = {"v"} /\ ui.usage \in {OnVariables!Unknown, {"v"}}
  /\ OnVariables!TypeOK
VariablesAsked ==
  /\ OnVariables!Out("set") => net["set"].arg.name \in OnVariables!AnyName
  /\ OnVariables!Answered("usage") => net["usage"].got = {"v"}
VariablesShow ==
  /\ VariablesTypes /\ VariablesAsked /\ Paired(net, "set", "saved", ui.saving)
  /\ Listing(net, noise, ui.vars, srv.vars, VariablesReads, VariablesWrites, Excuses)

\* Reads and writes are told from each other.
LEMMA VariablesTold ==
  /\ VariablesReads \cap VariablesWrites = {} /\ "usage" \notin VariablesReads \cup VariablesWrites
  /\ \A n \in OnVariables!AnyName :
       /\ OnVariables!Named("delete", n) \notin VariablesNames /\ OnVariables!Named("deleted", n) \notin VariablesNames
       /\ OnVariables!Named("delete", n) \in VariablesWrites /\ OnVariables!Named("deleted", n) \in VariablesReads
  /\ \A k \in OnVariables!Reloads : k # "saved"
  /\ \A k \in {"load", "saved"} : k \in VariablesReads
  /\ "set" \in VariablesWrites
<1>1. \A k \in VariablesReads : k \in {"load", "saved"} \/ \E n \in OnVariables!AnyName : k = OnVariables!Named("deleted", n)
  BY DEF VariablesReads, OnVariables!Loads, OnVariables!Reloads
<1>2. \A k \in VariablesWrites : k = "set" \/ \E n \in OnVariables!AnyName : k = OnVariables!Named("delete", n)
  BY DEF VariablesWrites, OnVariables!Deletes
<1>3. \A n \in OnVariables!AnyName :
        OnVariables!Named("delete", n) \notin VariablesNames /\ OnVariables!Named("deleted", n) \notin VariablesNames
  BY VariablesNamed
<1>4. VariablesReads \cap VariablesWrites = {} /\ "usage" \notin VariablesReads \cup VariablesWrites
  BY <1>1, <1>2, <1>3, VariablesNamedApart DEF VariablesNames
<1>5. \A k \in OnVariables!Reloads : k # "saved"
  BY <1>3 DEF OnVariables!Reloads, VariablesNames
<1> QED
  BY <1>3, <1>4, <1>5 DEF VariablesReads, VariablesWrites, OnVariables!Loads, OnVariables!Reloads, OnVariables!Deletes

\* What the page's helpers do to the requests.
LEMMA VariablesNet ==
  /\ \A requests, k, arg : Sends(requests, OnVariables!With(requests, k, arg), k)
  /\ \A k \in DOMAIN net : Closes(net, OnVariables!Closed(k), k)
  /\ \A k, state, answer : VariablesShow /\ OnVariables!Handles(k, state, answer) =>
       Turns(net, net', k) /\ net'[k].stage = "answered" /\ net'[k].got = answer /\ srv' = state /\ ui' = ui /\ noise' = noise
  /\ \A k : VariablesShow /\ OnVariables!Breaks(k) =>
       Turns(net, net', k) /\ net'[k].stage = "failed" /\ srv' = srv /\ ui' = ui /\ noise' = noise
<1>1. \A requests, k, arg : Sends(requests, OnVariables!With(requests, k, arg), k)
  BY DEF Sends, OnVariables!With
<1>2. \A k \in DOMAIN net : Closes(net, OnVariables!Closed(k), k)
  BY DEF Closes, OnVariables!Closed, OnVariables!Without, OnVariables!Restrict
<1>3. ASSUME NEW k, NEW state, NEW answer, VariablesShow, OnVariables!Handles(k, state, answer)
      PROVE  Turns(net, net', k) /\ net'[k].stage = "answered" /\ net'[k].got = answer /\ srv' = state /\ ui' = ui /\ noise' = noise
  BY <1>3 DEF Turns, OnVariables!Handles, OnVariables!Out, VariablesShow, Listing
<1>4. ASSUME NEW k, VariablesShow, OnVariables!Breaks(k)
      PROVE  Turns(net, net', k) /\ net'[k].stage = "failed" /\ srv' = srv /\ ui' = ui /\ noise' = noise
  BY <1>4 DEF Turns, OnVariables!Breaks, OnVariables!Fails, OnVariables!Out, VariablesShow, Listing
<1> QED
  BY <1>1, <1>2, <1>3, <1>4

\* It holds when the page opens.
LEMMA VariablesShowInit == OnVariables!Init => VariablesShow
<1> SUFFICES ASSUME OnVariables!Init PROVE VariablesShow
  OBVIOUS
<1>0. PICK f \in [OnVariables!Names -> OnVariables!Values] :
        srv = [vars |-> f, used |-> {"v"}, was |-> [n \in OnVariables!AnyName |-> IF n \in OnVariables!Names THEN f[n] ELSE "word"],
               typed |-> {OnVariables!Fresh}]
  BY DEF OnVariables!Init
<1>1. /\ DOMAIN srv = {"vars", "used", "was", "typed"} /\ srv.used = {"v"} /\ srv.vars = f
      /\ net = OnVariables!With(OnVariables!With(<<>>, "load", {}), "usage", {})
  BY <1>0 DEF OnVariables!Init
<1>2. VariablesTypes
  BY <1>1 DEF OnVariables!Init, VariablesTypes, OnVariables!TypeOK, OnVariables!There, OnVariables!AnyName, OnVariables!Blank, OnVariables!Unknown
<1>3. /\ DOMAIN net = {"load", "usage"} /\ net["load"].stage = "sent"
      /\ \A k \in DOMAIN net : DOMAIN net[k] = {"arg", "stage", "got"} /\ net[k].stage = "sent"
  BY <1>1, DOMAIN <<>> = {} DEF OnVariables!With
<1>4. Listing(net, noise, ui.vars, srv.vars, VariablesReads, VariablesWrites, Excuses)
  <2>1. VariablesReads \cap DOMAIN net = {"load"}
    BY <1>3, VariablesTold
  <2> QED
    BY <1>3, <2>1, VariablesTold, ListingStarts
<1> QED
  BY <1>2, <1>3, <1>4 DEF VariablesShow, VariablesAsked, Paired, OnVariables!Out, OnVariables!Answered

\* What does not concern the list.
LEMMA VariablesRests ==
  ASSUME VariablesShow, VariablesTypes', ui'.vars = ui.vars, ui'.saving = ui.saving, net' = net, srv' = srv, noise' = noise
  PROVE  VariablesShow'
  BY DEF VariablesShow, VariablesAsked, OnVariables!Out, OnVariables!Answered

\* A click that sends a request.
LEMMA VariablesAsks ==
  ASSUME VariablesShow, VariablesTypes', NEW k \in VariablesWrites, NEW arg, net' = OnVariables!Sent(k, arg), k \notin DOMAIN net,
         k = "set" => arg.name \in OnVariables!AnyName,
         ui'.vars = ui.vars, srv' = srv, noise' = noise,
         IF k = "set" THEN ui'.saving /\ "saved" \notin DOMAIN net ELSE ui'.saving = ui.saving
  PROVE  VariablesShow'
<1>0. k \notin VariablesReads /\ k # "usage" /\ "saved" \in VariablesReads
  BY VariablesTold
<1>1. Sends(net, net', k)
  BY VariablesNet DEF OnVariables!Sent
<1>2. net'[k].arg = arg
  BY DEF OnVariables!Sent, OnVariables!With
<1>3. Listing(net', noise', ui'.vars, srv'.vars, VariablesReads, VariablesWrites, Excuses)
  BY <1>0, <1>1, ListingSends DEF VariablesShow
<1>4. Paired(net', "set", "saved", ui'.saving)
  BY <1>0, <1>1 DEF VariablesShow, Sends, Paired
<1>5. VariablesAsked'
  BY <1>0, <1>1, <1>2 DEF VariablesShow, Sends, VariablesAsked, OnVariables!Out, OnVariables!Answered
<1> QED
  BY <1>3, <1>4, <1>5 DEF VariablesShow

\* The user's clicks.
LEMMA VariablesClicks == VariablesShow /\ OnVariables!Clicks => VariablesShow'
<1> SUFFICES ASSUME VariablesShow, OnVariables!Clicks PROVE VariablesShow'
  OBVIOUS
<1>t. VariablesTypes
  BY DEF VariablesShow
<1> USE DEF VariablesTypes, OnVariables!TypeOK, OnVariables!There, OnVariables!Out
<1>1. CASE OnVariables!LeaveDialog
  BY <1>t, <1>1, VariablesRests DEF OnVariables!LeaveDialog
<1>2. CASE OnVariables!ConfirmDelete
  <2>1. OnVariables!Named("delete", ui.dialog) \in VariablesWrites /\ OnVariables!Named("delete", ui.dialog) # "set"
    BY <1>t, <1>2, VariablesTold DEF OnVariables!ConfirmDelete, VariablesNames
  <2>2. VariablesTypes'
    BY <1>t, <1>2 DEF OnVariables!ConfirmDelete
  <2> QED
    BY <1>2, <2>1, <2>2, VariablesAsks DEF OnVariables!ConfirmDelete
<1>3. CASE OnVariables!Save
  <2>1. /\ VariablesTypes' /\ ui'.vars = ui.vars /\ ui'.saving /\ ui.form.name \in OnVariables!AnyName
        /\ "set" \notin DOMAIN net /\ "saved" \notin DOMAIN net
    BY <1>t, <1>3 DEF OnVariables!Save, VariablesShow, Paired
  <2> QED
    BY <1>3, <2>1, VariablesTold, VariablesAsks DEF OnVariables!Save
<1>4. ASSUME NEW n \in OnVariables!AnyName, OnVariables!EditRow(n) PROVE VariablesShow'
  <2>1. VariablesTypes' /\ ui'.vars = ui.vars /\ ui'.saving = ui.saving
    BY <1>t, <1>4 DEF OnVariables!EditRow
  <2> QED
    BY <1>4, <2>1, VariablesRests DEF OnVariables!EditRow
<1>5. ASSUME NEW n \in OnVariables!AnyName, OnVariables!Type(n) PROVE VariablesShow'
  <2>1. VariablesTypes' /\ ui'.vars = ui.vars /\ ui'.saving = ui.saving
    BY <1>t, <1>5 DEF OnVariables!Type
  <2> QED
    BY <1>5, <2>1, VariablesRests DEF OnVariables!Type
<1>6. ASSUME NEW n \in OnVariables!AnyName, OnVariables!AskDelete(n) PROVE VariablesShow'
  BY <1>t, <1>6, VariablesRests DEF OnVariables!AskDelete
<1> QED
  BY <1>1, <1>2, <1>3, <1>4, <1>5, <1>6 DEF OnVariables!Clicks

\* The server answers a request: a read with what is there, a write with other
\* variables, the index with what is used.
LEMMA VariablesTakes ==
  ASSUME VariablesShow, NEW k, NEW state, NEW answer, OnVariables!Handles(k, state, answer),
         DOMAIN state = {"vars", "used", "was", "typed"}, state.used = srv.used,
         DOMAIN state.vars \subseteq OnVariables!AnyName, \A n \in DOMAIN state.vars : state.vars[n] \in OnVariables!Values,
         k \in VariablesWrites \/ (state.vars = srv.vars /\ (k \in VariablesReads => answer = srv.vars)),
         k = "usage" => answer = srv.used
  PROVE  VariablesShow'
<1>1. Turns(net, net', k) /\ net'[k].stage = "answered" /\ net'[k].got = answer /\ srv' = state /\ ui' = ui /\ noise' = noise
  BY VariablesNet
<1>2. Listing(net', noise', ui'.vars, srv'.vars, VariablesReads, VariablesWrites, Excuses)
  BY <1>1, ListingServed DEF VariablesShow
<1>3. \A j \in DOMAIN net : net'[j].arg = net[j].arg
  BY DEF OnVariables!Handles
<1>4. Paired(net', "set", "saved", ui'.saving)
  BY <1>1 DEF VariablesShow, Turns, Paired
<1>5. VariablesAsked'
  BY <1>1, <1>3 DEF VariablesShow, Turns, VariablesAsked, VariablesTypes, OnVariables!Out, OnVariables!Answered
<1>6. VariablesTypes'
  BY <1>1 DEF VariablesShow, VariablesTypes, OnVariables!TypeOK, OnVariables!There
<1> QED
  BY <1>2, <1>4, <1>5, <1>6 DEF VariablesShow

\* The server's answers keep it: a read is answered with what is there.
LEMMA VariablesServe == VariablesShow /\ OnVariables!Serve => VariablesShow'
<1> SUFFICES ASSUME VariablesShow, OnVariables!Serve PROVE VariablesShow'
  OBVIOUS
<1>0. /\ DOMAIN srv = {"vars", "used", "was", "typed"} /\ DOMAIN srv.vars \subseteq OnVariables!AnyName
      /\ OnVariables!There = DOMAIN srv.vars /\ \A n \in DOMAIN srv.vars : srv.vars[n] \in OnVariables!Values
  BY DEF VariablesShow, VariablesTypes, OnVariables!TypeOK, OnVariables!There
<1>1. ASSUME NEW k \in OnVariables!Loads, OnVariables!Handles(k, srv, srv.vars) PROVE VariablesShow'
  <2>1. k \in VariablesReads /\ k # "usage"
    BY VariablesTold DEF VariablesReads
  <2> QED
    BY <1>0, <1>1, <2>1, VariablesTakes
<1>2. ASSUME OnVariables!Handles("usage", srv, srv.used) PROVE VariablesShow'
  BY <1>0, <1>2, VariablesTold, VariablesTakes
<1>3. ASSUME OnVariables!Out("set"), OnVariables!Handles("set", OnVariables!Stored(net["set"].arg), {}) PROVE VariablesShow'
  <2> DEFINE form == net["set"].arg
             state == OnVariables!Stored(form)
  <2>1. form.name \in OnVariables!AnyName
    BY <1>3 DEF VariablesShow, VariablesAsked
  <2>2. /\ DOMAIN state = {"vars", "used", "was", "typed"} /\ state.used = srv.used
        /\ state.vars = [n \in OnVariables!There \cup {form.name} |-> IF n = form.name THEN OnVariables!Parsed(form.text) ELSE srv.vars[n]]
    BY <1>0 DEF OnVariables!Stored
  <2>3. OnVariables!Parsed(form.text) \in OnVariables!Values
    BY DEF OnVariables!Parsed, OnVariables!Values
  <2>4. DOMAIN state.vars \subseteq OnVariables!AnyName /\ \A n \in DOMAIN state.vars : state.vars[n] \in OnVariables!Values
    BY <1>0, <2>1, <2>2, <2>3
  <2>5. OnVariables!Handles("set", state, {})
    BY <1>3
  <2> HIDE DEF state
  <2> QED
    BY <2>2, <2>4, <2>5, VariablesTold, VariablesTakes
<1>4. ASSUME NEW n \in OnVariables!There,
             OnVariables!Handles(OnVariables!Named("delete", n), [srv EXCEPT !.vars = OnVariables!Restrict(@, OnVariables!There \ {n})], {})
      PROVE  VariablesShow'
  <2> DEFINE vars == OnVariables!Restrict(srv.vars, OnVariables!There \ {n})
             state == [srv EXCEPT !.vars = vars]
             k == OnVariables!Named("delete", n)
  <2>1. OnVariables!Handles(k, state, {})
    BY <1>4
  <2>2. DOMAIN vars \subseteq OnVariables!AnyName /\ \A m \in DOMAIN vars : vars[m] \in OnVariables!Values
    BY <1>0 DEF OnVariables!Restrict
  <2> HIDE DEF vars
  <2>3. DOMAIN state = {"vars", "used", "was", "typed"} /\ state.used = srv.used /\ state.vars = vars
    BY <1>0
  <2> HIDE DEF state
  <2>4. k \in VariablesWrites /\ k # "usage"
    BY <1>0, VariablesTold DEF VariablesNames
  <2> HIDE DEF k
  <2> QED
    BY <2>1, <2>2, <2>3, <2>4, VariablesTakes
<1> QED
  BY <1>1, <1>2, <1>3, <1>4 DEF OnVariables!Serve

\* The list is read: it shows what came, or the page knows that it may not.
LEMMA VariablesReadBack ==
  ASSUME VariablesShow, NEW k \in OnVariables!Loads, OnVariables!LoadBack(k)
  PROVE  VariablesShow'
<1>1. k \in DOMAIN net /\ Closes(net, net', k) /\ srv' = srv
  BY VariablesNet DEF OnVariables!LoadBack, OnVariables!Returned, OnVariables!Answered, OnVariables!Rejected, OnVariables!Out
<1>2. /\ DOMAIN ui' = DOMAIN ui /\ ui'.form = ui.form /\ ui'.usage = ui.usage /\ ui'.dialog \in {ui.dialog, OnVariables!NoName}
      /\ ui'.saving = IF k = "saved" THEN FALSE ELSE ui.saving
      /\ ui'.vars = IF net[k].stage = "answered" THEN net[k].got ELSE ui.vars
  <2> DEFINE shown == IF OnVariables!Answered(k) THEN [ui EXCEPT !.vars = net[k].got] ELSE ui
  <2>1. ui' = CASE k = "saved" -> [shown EXCEPT !.saving = FALSE]
                [] k \in OnVariables!Reloads -> [shown EXCEPT !.dialog = OnVariables!NoName]
                [] OTHER -> shown
    BY DEF OnVariables!LoadBack
  <2>2. /\ DOMAIN shown = DOMAIN ui /\ \A f \in DOMAIN ui \ {"vars"} : shown[f] = ui[f]
        /\ {"vars", "usage", "form", "saving", "dialog"} \subseteq DOMAIN ui
        /\ shown.vars = IF net[k].stage = "answered" THEN net[k].got ELSE ui.vars
    BY <1>1 DEF VariablesShow, VariablesTypes, OnVariables!Answered, OnVariables!Out
  <2> HIDE DEF shown
  <2> QED
    BY <2>1, <2>2, VariablesTold
<1>3. noise' \cap Excuses = {} => noise \cap Excuses = {} /\ net[k].stage = "answered" /\ ui'.vars = net[k].got
  BY <1>2 DEF OnVariables!LoadBack, OnVariables!Returned, OnVariables!Answered, OnVariables!Rejected, Excuses
<1>4. Listing(net', noise', ui'.vars, srv'.vars, VariablesReads, VariablesWrites, Excuses)
  BY <1>1, <1>3, ListingShows DEF VariablesShow, VariablesReads
<1>5. VariablesTypes'
  BY <1>1, <1>2 DEF VariablesShow, VariablesTypes, OnVariables!TypeOK, OnVariables!There
<1>6. VariablesAsked' /\ Paired(net', "set", "saved", ui'.saving)
  BY <1>1, <1>2 DEF VariablesShow, Closes, Paired, VariablesAsked, OnVariables!Out, OnVariables!Answered
<1> QED
  BY <1>4, <1>5, <1>6 DEF VariablesShow

\* Another request is answered: a read of the list follows, or the page knows
\* it should, or it was no write.
LEMMA VariablesWriteBack ==
  ASSUME VariablesShow, NEW k, k \notin VariablesReads, NEW kk \in VariablesReads, OnVariables!Returned(k), VariablesTypes',
         ui'.vars = ui.vars, srv' = srv, ui'.saving = ui.saving \/ k = "set",
         \/ OnVariables!Load(OnVariables!Closed(k), kk) /\ ui'.saving = ui.saving
         \/ net' = OnVariables!Closed(k) /\ (noise' = noise \cup {"lost answer"} \/ (k \notin VariablesWrites /\ noise' = noise)),
         k = "set" <=> kk = "saved"
  PROVE  VariablesShow'
<1> DEFINE closed == OnVariables!Closed(k)
<1>1. Closes(net, closed, k) /\ kk \notin {"set", "usage"}
  BY VariablesNet, VariablesTold DEF OnVariables!Returned, OnVariables!Answered, OnVariables!Rejected, OnVariables!Out
<1>2. CASE net' = closed /\ (noise' = noise \cup {"lost answer"} \/ (k \notin VariablesWrites /\ noise' = noise))
  <2>1. noise' \cap Excuses = {} => noise \cap Excuses = {} /\ k \notin VariablesReads \cup VariablesWrites
    BY <1>2 DEF Excuses
  <2>2. Listing(net', noise', ui'.vars, srv'.vars, VariablesReads, VariablesWrites, Excuses)
    BY <1>1, <1>2, <2>1, ListingCloses DEF VariablesShow
  <2>3. VariablesAsked' /\ Paired(net', "set", "saved", ui'.saving)
    BY <1>1, <1>2 DEF VariablesShow, Closes, Paired, VariablesAsked, OnVariables!Out, OnVariables!Answered
  <2> QED
    BY <2>2, <2>3 DEF VariablesShow
<1>3. CASE OnVariables!Load(closed, kk) /\ ui'.saving = ui.saving
  <2>1. Sends(closed, net', kk) /\ (noise' \cap Excuses = {} => DOMAIN closed \cap VariablesReads = {})
    BY <1>3, VariablesNet DEF OnVariables!Load, VariablesReads, Excuses
  <2> HIDE DEF closed
  <2>2. Listing(net', noise', ui'.vars, srv'.vars, VariablesReads, VariablesWrites, Excuses)
    BY <1>1, <2>1, ListingFollows DEF VariablesShow
  <2>3. Paired(net', "set", "saved", ui'.saving)
    BY <1>1, <1>3, <2>1 DEF VariablesShow, Sends, Closes, Paired
  <2>4. VariablesAsked'
    BY <1>1, <2>1 DEF VariablesShow, Sends, Closes, VariablesAsked, OnVariables!Out, OnVariables!Answered
  <2> QED
    BY <2>2, <2>3, <2>4 DEF VariablesShow
<1> QED
  BY <1>2, <1>3

\* Every step of the page keeps it.
LEMMA VariablesShowStep == VariablesShow /\ OnVariables!Next => VariablesShow'
<1> SUFFICES ASSUME VariablesShow, OnVariables!Next PROVE VariablesShow'
  OBVIOUS
<1> USE DEF VariablesTypes, OnVariables!TypeOK, OnVariables!There
<1>0. VariablesTypes
  BY DEF VariablesShow
<1>1. CASE OnVariables!UsageBack
  <2>1. VariablesTypes' /\ ui'.vars = ui.vars /\ ui'.saving = ui.saving
    BY <1>0, <1>1 DEF OnVariables!UsageBack, VariablesShow, VariablesAsked, OnVariables!AnyName, OnVariables!Names, OnVariables!Unknown
  <2> QED
    BY <1>1, <2>1, VariablesTold, VariablesWriteBack DEF OnVariables!UsageBack
<1>2. CASE OnVariables!SaveBack
  <2>1. VariablesTypes' /\ ui'.vars = ui.vars /\ (OnVariables!Answered("set") => ui'.saving = ui.saving)
    BY <1>0, <1>2 DEF OnVariables!SaveBack, OnVariables!Blank
  <2> QED
    BY <1>2, <2>1, VariablesTold, VariablesWriteBack DEF OnVariables!SaveBack, OnVariables!Lost, OnVariables!Returned
<1>3. ASSUME NEW n \in OnVariables!AnyName, OnVariables!DeleteBack(n) PROVE VariablesShow'
  <2> DEFINE k == OnVariables!Named("delete", n)
             kk == OnVariables!Named("deleted", n)
  <2>1. k \in VariablesWrites /\ k \notin VariablesReads /\ k # "set" /\ kk \in VariablesReads /\ kk # "saved"
    BY VariablesTold DEF VariablesNames
  <2>2. VariablesTypes' /\ ui'.vars = ui.vars /\ ui'.saving = ui.saving
    BY <1>0, <1>3 DEF OnVariables!DeleteBack
  <2>3. /\ OnVariables!Returned(k) /\ srv' = srv
        /\ \/ OnVariables!Load(OnVariables!Closed(k), kk)
           \/ net' = OnVariables!Closed(k) /\ noise' = noise \cup {"lost answer"}
    BY <1>3 DEF OnVariables!DeleteBack, OnVariables!Lost, OnVariables!Returned
  <2> HIDE DEF k, kk
  <2> QED
    BY <2>1, <2>2, <2>3, VariablesWriteBack
<1>4. ASSUME NEW k \in DOMAIN net, OnVariables!Breaks(k) PROVE VariablesShow'
  <2>1. Turns(net, net', k) /\ net'[k].stage = "failed" /\ ui' = ui /\ srv' = srv /\ noise' = noise
    BY <1>4, VariablesNet
  <2>2. Listing(net', noise', ui'.vars, srv'.vars, VariablesReads, VariablesWrites, Excuses)
    BY <2>1, ListingFails DEF VariablesShow
  <2>3. \A j \in DOMAIN net : net'[j].arg = net[j].arg
    BY <1>4 DEF OnVariables!Breaks, OnVariables!Fails
  <2>4. VariablesAsked' /\ Paired(net', "set", "saved", ui'.saving)
    BY <2>1, <2>3 DEF VariablesShow, Turns, VariablesAsked, Paired, OnVariables!Out, OnVariables!Answered
  <2> QED
    BY <1>0, <2>1, <2>2, <2>4 DEF VariablesShow
<1> QED
  BY <1>1, <1>2, <1>3, <1>4, VariablesClicks, VariablesServe, VariablesReadBack DEF OnVariables!Next, OnVariables!Returns

\* It is what the page promises.
LEMMA VariablesShowEnough == VariablesShow => OnVariables!ShowsServer /\ OnVariables!TypeOK
  BY DEF VariablesShow, VariablesTypes, OnVariables!ShowsServer, OnVariables!Quiet, Listing, Fresh, Excuses

------------------------------------------------------------------------------
(* The list of diagrams *)

\* What is kept on this page: a diagram made is one to go to, so that the page
\* is left when it answers.
DiagramsSpins ==
  /\ {"creating", "importing", "at", "renaming", "dialog"} \subseteq DOMAIN ui
  /\ {ui.renaming, ui.dialog} \subseteq OnDiagrams!Diagrams \cup {OnDiagrams!Nobody}
  /\ "rows" \in DOMAIN srv /\ DOMAIN srv.rows \subseteq OnDiagrams!Diagrams
  /\ \A k \in {"create", "import"} : k \in DOMAIN net =>
       /\ {"stage", "got"} \subseteq DOMAIN net[k]
       /\ net[k].stage = "answered" => net[k].got \in OnDiagrams!Made
  /\ OnDiagrams!SpinnersHaveRequests

\* It holds when the page opens.
LEMMA DiagramsInit == OnDiagrams!Init => DiagramsSpins
<1> SUFFICES ASSUME OnDiagrams!Init PROVE DiagramsSpins
  OBVIOUS
<1>1. /\ {"creating", "importing", "at", "renaming", "dialog"} \subseteq DOMAIN ui
      /\ ui.renaming = OnDiagrams!Nobody /\ ui.dialog = OnDiagrams!Nobody
      /\ ui.creating = FALSE /\ ui.importing = FALSE
  BY DEF OnDiagrams!Init
<1>2. DOMAIN net = {"load"}
  BY DEF OnDiagrams!Init, OnDiagrams!With
<1>3. "rows" \in DOMAIN srv /\ DOMAIN srv.rows \subseteq OnDiagrams!Diagrams
  BY DEF OnDiagrams!Init, OnDiagrams!Diagrams
<1> QED
  BY <1>1, <1>2, <1>3 DEF DiagramsSpins, OnDiagrams!SpinnersHaveRequests

\* The requests of the page that are about no row.
DiagramsNames == {"load", "create", "import"}

\* The requests about a row are told from these and from each other.
LEMMA DiagramsNamed ==
  ASSUME NEW d \in OnDiagrams!Diagrams
  PROVE  /\ OnDiagrams!Rename(d) \notin DiagramsNames /\ OnDiagrams!Renamed(d) \notin DiagramsNames
         /\ OnDiagrams!Delete(d) \notin DiagramsNames /\ OnDiagrams!Deleted(d) \notin DiagramsNames
<1>1. \A op \in {"rename", "renamed", "delete", "deleted"} : op \o ToString(d) \notin DiagramsNames
  BY NamesAssumption DEF Distinct, DiagramsNames
<1> QED
  BY <1>1 DEF OnDiagrams!Named, OnDiagrams!Rename, OnDiagrams!Renamed, OnDiagrams!Delete, OnDiagrams!Deleted

\* The requests whose spinners are on the page are as they were.
SameMaking ==
  \A k \in {"create", "import"} : (k \in DOMAIN net' <=> k \in DOMAIN net) /\ (k \in DOMAIN net => net'[k] = net[k])

\* So are the spinners themselves.
SameSpinners ==
  /\ {ui'.renaming, ui'.dialog} \subseteq OnDiagrams!Diagrams \cup {OnDiagrams!Nobody}
  /\ srv' = srv /\ DOMAIN ui' = DOMAIN ui /\ ui'.creating = ui.creating /\ ui'.importing = ui.importing /\ ui'.at = ui.at

\* It is kept by what leaves both as they are.
LEMMA DiagramsFrame == DiagramsSpins /\ SameMaking /\ SameSpinners => DiagramsSpins'
  BY DEF DiagramsSpins, SameMaking, SameSpinners, OnDiagrams!SpinnersHaveRequests, OnDiagrams!Out, OnDiagrams!Here

\* A change of another request leaves these as they are.
LEMMA DiagramsOther ==
  ASSUME NEW k, k \notin {"create", "import"},
         \/ \E a : net' = OnDiagrams!With(net, k, a)
         \/ net' = OnDiagrams!Closed(k)
         \/ \E h, a : h \notin {"create", "import"} /\ net' = OnDiagrams!With(OnDiagrams!Closed(k), h, a)
         \/ \E s, g : net' = [net EXCEPT ![k].stage = s, ![k].got = g]
  PROVE  SameMaking
<1>1. CASE \E a : net' = OnDiagrams!With(net, k, a)
  BY <1>1 DEF OnDiagrams!With, SameMaking
<1>2. CASE net' = OnDiagrams!Closed(k)
  BY <1>2 DEF OnDiagrams!Closed, OnDiagrams!Without, OnDiagrams!Restrict, SameMaking
<1>3. CASE \E h, a : h \notin {"create", "import"} /\ net' = OnDiagrams!With(OnDiagrams!Closed(k), h, a)
  BY <1>3 DEF OnDiagrams!With, OnDiagrams!Closed, OnDiagrams!Without, OnDiagrams!Restrict, SameMaking
<1>4. CASE \E s, g : net' = [net EXCEPT ![k].stage = s, ![k].got = g]
  BY <1>4 DEF SameMaking
<1> QED
  BY <1>1, <1>2, <1>3, <1>4

\* Every step of the page keeps it.
LEMMA DiagramsStep == DiagramsSpins /\ OnDiagrams!Next => DiagramsSpins'
<1> SUFFICES ASSUME DiagramsSpins, OnDiagrams!Next PROVE DiagramsSpins'
  OBVIOUS
<1>a. OnDiagrams!Loads \cap {"create", "import"} = {}
  BY DiagramsNamed DEF OnDiagrams!Loads, DiagramsNames
<1>1. CASE OnDiagrams!Serve
  <2>1. ui' = ui
    BY <1>1 DEF OnDiagrams!Serve, OnDiagrams!Handles, OnDiagrams!Create
  <2>2. ASSUME NEW k \in OnDiagrams!Loads, OnDiagrams!Handles(k, srv, srv.rows) PROVE DiagramsSpins'
    <3>1. SameMaking
      BY <2>2, <1>a, DiagramsOther DEF OnDiagrams!Handles
    <3> QED
      BY <2>1, <2>2, <3>1, DiagramsFrame DEF DiagramsSpins, SameSpinners, OnDiagrams!Handles
  <2>3. ASSUME NEW k \in {"create", "import"}, NEW n, OnDiagrams!Create(k, n) PROVE DiagramsSpins'
    <3>1. PICK d \in OnDiagrams!Made : OnDiagrams!Handles(k, [srv EXCEPT !.rows = [e \in OnDiagrams!There \cup {d} |-> IF e = d THEN n ELSE srv.rows[e]]], d)
      BY <2>3 DEF OnDiagrams!Create
    <3>2. DOMAIN srv' = DOMAIN srv /\ DOMAIN srv'.rows = DOMAIN srv.rows \cup {d}
      BY <3>1 DEF OnDiagrams!Handles, OnDiagrams!There, DiagramsSpins
    <3>3. k \in DOMAIN net /\ net' = [net EXCEPT ![k].stage = "answered", ![k].got = d]
      BY <3>1 DEF OnDiagrams!Handles, OnDiagrams!Out
    <3>4. DOMAIN net' = DOMAIN net /\ \A j \in DOMAIN net : j # k => net'[j] = net[j]
      BY <3>3
    <3>5. DOMAIN net'[k] = DOMAIN net[k] /\ net'[k].got = d
      BY <3>3 DEF DiagramsSpins
    <3> QED
      BY <2>1, <3>2, <3>3, <3>4, <3>5 DEF DiagramsSpins, OnDiagrams!SpinnersHaveRequests, OnDiagrams!Out, OnDiagrams!Here, OnDiagrams!Diagrams
  <2>4. ASSUME NEW d \in OnDiagrams!There, NEW v, NEW a,
               \/ OnDiagrams!Handles(OnDiagrams!Rename(d), [srv EXCEPT !.rows[d] = v], a)
               \/ OnDiagrams!Handles(OnDiagrams!Delete(d), [srv EXCEPT !.rows = OnDiagrams!Restrict(@, OnDiagrams!There \ {d})], a)
        PROVE  DiagramsSpins'
    <3>1. d \in OnDiagrams!Diagrams
      BY <2>4 DEF DiagramsSpins, OnDiagrams!There
    <3>2. SameMaking
      <4>1. OnDiagrams!Rename(d) \notin {"create", "import"} /\ OnDiagrams!Delete(d) \notin {"create", "import"}
        BY <3>1, DiagramsNamed DEF DiagramsNames
      <4>2. CASE OnDiagrams!Handles(OnDiagrams!Rename(d), [srv EXCEPT !.rows[d] = v], a)
        BY <4>1, <4>2, DiagramsOther DEF OnDiagrams!Handles
      <4>3. CASE OnDiagrams!Handles(OnDiagrams!Delete(d), [srv EXCEPT !.rows = OnDiagrams!Restrict(@, OnDiagrams!There \ {d})], a)
        BY <4>1, <4>3, DiagramsOther DEF OnDiagrams!Handles
      <4> QED
        BY <2>4, <4>2, <4>3
    <3>3. DOMAIN srv' = DOMAIN srv /\ DOMAIN srv'.rows \subseteq DOMAIN srv.rows
      <4>1. CASE srv' = [srv EXCEPT !.rows[d] = v]
        <5>1. srv' = [srv EXCEPT !["rows"] = [srv["rows"] EXCEPT ![d] = v]]
          BY <4>1
        <5> QED
          BY <5>1 DEF DiagramsSpins
      <4>2. CASE srv' = [srv EXCEPT !.rows = OnDiagrams!Restrict(@, OnDiagrams!There \ {d})]
        BY <4>2 DEF DiagramsSpins, OnDiagrams!Restrict, OnDiagrams!There
      <4> QED
        BY <2>4, <4>1, <4>2 DEF OnDiagrams!Handles
    <3> QED
      BY <2>1, <3>2, <3>3 DEF DiagramsSpins, SameMaking, OnDiagrams!SpinnersHaveRequests, OnDiagrams!Out, OnDiagrams!Here
  <2>5. CASE \E d \in OnDiagrams!There : OnDiagrams!Out(OnDiagrams!Rename(d)) /\ OnDiagrams!Handles(OnDiagrams!Rename(d), [srv EXCEPT !.rows[d] = net[OnDiagrams!Rename(d)].arg], {})
    <3>1. PICK d \in OnDiagrams!There : OnDiagrams!Handles(OnDiagrams!Rename(d), [srv EXCEPT !.rows[d] = net[OnDiagrams!Rename(d)].arg], {})
      BY Zenon, <2>5
    <3> QED
      BY Zenon, <3>1, <2>4
  <2>6. CASE \E d \in OnDiagrams!There : OnDiagrams!Handles(OnDiagrams!Delete(d), [srv EXCEPT !.rows = OnDiagrams!Restrict(@, OnDiagrams!There \ {d})], {})
    BY Zenon, <2>6, <2>4
  <2> QED
    BY Zenon, <1>1, <2>2, <2>3, <2>5, <2>6 DEF OnDiagrams!Serve
<1>2. ASSUME NEW k \in OnDiagrams!Loads, OnDiagrams!RefreshBack(k) PROVE DiagramsSpins'
  <2>1. SameSpinners
    BY <1>2 DEF DiagramsSpins, OnDiagrams!RefreshBack, SameSpinners
  <2> QED
    BY <1>2, <2>1, <1>a, DiagramsOther, DiagramsFrame DEF OnDiagrams!RefreshBack
<1>3. CASE OnDiagrams!NewBack
  <2>1. srv' = srv /\ DOMAIN net' = DOMAIN net \ {"create"} /\ \A j \in DOMAIN net' : net'[j] = net[j]
    BY <1>3 DEF OnDiagrams!NewBack, OnDiagrams!Closed, OnDiagrams!Without, OnDiagrams!Restrict
  <2>2. CASE OnDiagrams!Answered("create")
    <3>1. DOMAIN ui' = DOMAIN ui /\ ui'.renaming = ui.renaming /\ ui'.dialog = ui.dialog /\ ui'.at = net["create"].got
      BY <1>3, <2>2 DEF OnDiagrams!NewBack, DiagramsSpins
    <3>2. net["create"].got \in OnDiagrams!Made
      BY <2>2 DEF OnDiagrams!Answered, OnDiagrams!Out, DiagramsSpins
    <3> QED
      BY <2>1, <3>1, <3>2 DEF DiagramsSpins, OnDiagrams!SpinnersHaveRequests, OnDiagrams!Here, OnDiagrams!Made, OnDiagrams!Nobody
  <2>3. CASE ~OnDiagrams!Answered("create")
    <3>1. DOMAIN ui' = DOMAIN ui /\ ui'.renaming = ui.renaming /\ ui'.dialog = ui.dialog /\ ui'.creating = FALSE /\ ui'.importing = ui.importing /\ ui'.at = ui.at
      BY <1>3, <2>3 DEF OnDiagrams!NewBack, DiagramsSpins
    <3> QED
      BY <2>1, <3>1 DEF DiagramsSpins, OnDiagrams!SpinnersHaveRequests, OnDiagrams!Here, OnDiagrams!Out
  <2> QED
    BY <2>2, <2>3
<1>4. CASE OnDiagrams!FileBack
  <2>1. srv' = srv /\ DOMAIN net' = DOMAIN net \ {"import"} /\ \A j \in DOMAIN net' : net'[j] = net[j]
    BY <1>4 DEF OnDiagrams!FileBack, OnDiagrams!Closed, OnDiagrams!Without, OnDiagrams!Restrict
  <2>2. DOMAIN ui' = DOMAIN ui /\ ui'.renaming = ui.renaming /\ ui'.dialog = ui.dialog /\ ui'.creating = ui.creating /\ ui'.importing = FALSE
    BY <1>4 DEF OnDiagrams!FileBack, DiagramsSpins
  <2>3. CASE OnDiagrams!Answered("import")
    <3>1. ui'.at = net["import"].got
      BY <1>4, <2>3 DEF OnDiagrams!FileBack, DiagramsSpins
    <3>2. net["import"].got \in OnDiagrams!Made
      BY <2>3 DEF OnDiagrams!Answered, OnDiagrams!Out, DiagramsSpins
    <3> QED
      BY <2>1, <2>2, <3>1, <3>2 DEF DiagramsSpins, OnDiagrams!SpinnersHaveRequests, OnDiagrams!Here, OnDiagrams!Made, OnDiagrams!Nobody
  <2>4. CASE ~OnDiagrams!Answered("import")
    <3>1. ui'.at = ui.at
      BY <1>4, <2>4 DEF OnDiagrams!FileBack, DiagramsSpins
    <3> QED
      BY <2>1, <2>2, <3>1 DEF DiagramsSpins, OnDiagrams!SpinnersHaveRequests, OnDiagrams!Here, OnDiagrams!Out
  <2> QED
    BY <2>3, <2>4
<1>5. ASSUME NEW d \in OnDiagrams!Diagrams, NEW k \in {OnDiagrams!Rename(d), OnDiagrams!Delete(d)},
             NEW then \in {OnDiagrams!Renamed(d), OnDiagrams!Deleted(d)}, OnDiagrams!ChangeBack(k, then)
      PROVE  DiagramsSpins'
  <2>1. SameSpinners
    BY <1>5 DEF DiagramsSpins, OnDiagrams!ChangeBack, SameSpinners
  <2>2. k \notin {"create", "import"} /\ then \notin {"create", "import"}
    BY <1>5, DiagramsNamed DEF DiagramsNames
  <2>3. \/ net' = OnDiagrams!With(OnDiagrams!Closed(k), then, {})
        \/ net' = OnDiagrams!Closed(k)
    BY <1>5 DEF OnDiagrams!ChangeBack, OnDiagrams!Refresh
  <2>4. SameMaking
    BY <2>2, <2>3, DiagramsOther
  <2> QED
    BY <2>1, <2>4, DiagramsFrame
<1>6. ASSUME NEW k \in {"create", "import"}, srv' = srv, net' = OnDiagrams!Sent(k, {}),
             ui' = IF k = "create" THEN [ui EXCEPT !.creating = TRUE] ELSE [ui EXCEPT !.importing = TRUE]
      PROVE  DiagramsSpins'
  <2>1. /\ DOMAIN net' = DOMAIN net \cup {k} /\ net'[k] = [arg |-> {}, stage |-> "sent", got |-> "nothing"]
        /\ \A j \in DOMAIN net \ {k} : net'[j] = net[j]
    BY <1>6 DEF OnDiagrams!Sent, OnDiagrams!With
  <2>2. /\ DOMAIN ui' = DOMAIN ui /\ ui'.at = ui.at /\ ui'.renaming = ui.renaming /\ ui'.dialog = ui.dialog
        /\ k # "create" => ui'.creating = ui.creating
        /\ k # "import" => ui'.importing = ui.importing
    BY <1>6 DEF DiagramsSpins
  <2> QED
    BY <1>6, <2>1, <2>2 DEF DiagramsSpins, OnDiagrams!SpinnersHaveRequests, OnDiagrams!Here, OnDiagrams!Out
<1>7. CASE OnDiagrams!Clicks
  <2>1. CASE OnDiagrams!OnNew \/ OnDiagrams!OnFile
    BY <2>1, <1>6 DEF OnDiagrams!OnNew, OnDiagrams!OnFile, OnDiagrams!Gesture
  <2>2. CASE OnDiagrams!OnRename
    <3>1. SameSpinners
      BY <2>2 DEF DiagramsSpins, OnDiagrams!OnRename, SameSpinners
    <3>2. CASE net' = net
      BY <3>1, <3>2, DiagramsFrame DEF SameMaking
    <3>3. CASE net' = OnDiagrams!Sent(OnDiagrams!Rename(ui.renaming), ui.value)
      <4>1. ui.renaming \in OnDiagrams!Diagrams
        BY <2>2 DEF OnDiagrams!OnRename, DiagramsSpins
      <4>2. OnDiagrams!Rename(ui.renaming) \notin {"create", "import"}
        BY <4>1, DiagramsNamed DEF DiagramsNames
      <4>3. SameMaking
        BY <3>3, <4>2, DiagramsOther DEF OnDiagrams!Sent
      <4> QED
        BY <3>1, <4>3, DiagramsFrame
    <3> QED
      BY <2>2, <3>2, <3>3 DEF OnDiagrams!OnRename
  <2>3. CASE OnDiagrams!OnDelete
    <3>1. SameSpinners
      BY <2>3 DEF DiagramsSpins, OnDiagrams!OnDelete, SameSpinners
    <3>2. ui.dialog \in OnDiagrams!Diagrams /\ net' = OnDiagrams!Sent(OnDiagrams!Delete(ui.dialog), ui.dialog)
      BY <2>3 DEF OnDiagrams!OnDelete, DiagramsSpins
    <3>3. OnDiagrams!Delete(ui.dialog) \notin {"create", "import"}
      BY <3>2, DiagramsNamed DEF DiagramsNames
    <3>4. SameMaking
      BY <3>2, <3>3, DiagramsOther DEF OnDiagrams!Sent
    <3> QED
      BY <3>1, <3>4, DiagramsFrame
  <2>4. CASE OnDiagrams!CancelRename \/ OnDiagrams!LeaveDialog
    BY <2>4, DiagramsFrame DEF DiagramsSpins, OnDiagrams!CancelRename, OnDiagrams!LeaveDialog, SameMaking, SameSpinners
  <2>5. ASSUME NEW d \in OnDiagrams!Diagrams, OnDiagrams!StartRename(d) \/ OnDiagrams!AskDelete(d) PROVE DiagramsSpins'
    BY <2>5, DiagramsFrame DEF DiagramsSpins, OnDiagrams!StartRename, OnDiagrams!AskDelete, OnDiagrams!Gesture, SameMaking, SameSpinners
  <2>6. ASSUME NEW v, OnDiagrams!TypeName(v) PROVE DiagramsSpins'
    BY <2>6, DiagramsFrame DEF DiagramsSpins, OnDiagrams!TypeName, SameMaking, SameSpinners
  <2> QED
    BY <1>7, <2>1, <2>2, <2>3, <2>4, <2>5, <2>6 DEF OnDiagrams!Clicks
<1>8. ASSUME NEW k \in DOMAIN net, OnDiagrams!Breaks(k) PROVE DiagramsSpins'
  <2>1. SameSpinners
    BY <1>8 DEF DiagramsSpins, OnDiagrams!Breaks, OnDiagrams!Fails, SameSpinners
  <2>2. net' = [net EXCEPT ![k].stage = "failed", ![k].got = "nothing"]
    BY <1>8 DEF OnDiagrams!Breaks, OnDiagrams!Fails
  <2>3. DOMAIN net' = DOMAIN net /\ \A j \in DOMAIN net : j # k => net'[j] = net[j]
    BY <2>2
  <2>4. k \in {"create", "import"} => DOMAIN net'[k] = DOMAIN net[k] /\ net'[k].stage = "failed"
    BY <2>2 DEF DiagramsSpins
  <2> QED
    BY <2>1, <2>3, <2>4 DEF SameSpinners, DiagramsSpins, OnDiagrams!SpinnersHaveRequests, OnDiagrams!Here, OnDiagrams!Out
<1> QED
  BY <1>1, <1>2, <1>3, <1>4, <1>5, <1>7, <1>8 DEF OnDiagrams!Next, OnDiagrams!Returns

(* What it shows *)

\* The requests that read the list and those that change it.
DiagramsReads == OnDiagrams!Loads
DiagramsWrites == {"create", "import"} \cup {OnDiagrams!Rename(d) : d \in OnDiagrams!Diagrams} \cup {OnDiagrams!Delete(d) : d \in OnDiagrams!Diagrams}

\* What happened that the list does not show: that it was left, too.
DiagramsPast == (noise \cap Excuses) \cup (IF OnDiagrams!Here THEN {} ELSE {"left"})
DiagramsExcuses == Excuses \cup {"left"}

\* The buttons that make a diagram are busy while one is made.
DiagramsBusy == ("create" \in DOMAIN net => ui.creating) /\ ("import" \in DOMAIN net => ui.importing)
DiagramsShow ==
  /\ DiagramsSpins /\ DiagramsBusy /\ {"rows", "value"} \subseteq DOMAIN ui /\ ui.at \in OnDiagrams!Diagrams \cup {OnDiagrams!Nobody}
  /\ Listing(net, DiagramsPast, ui.rows, srv.rows, DiagramsReads, DiagramsWrites, DiagramsExcuses)

\* Reads and writes are told from each other.
LEMMA DiagramsTold ==
  /\ DiagramsReads \cap DiagramsWrites = {}
  /\ \A d \in OnDiagrams!Diagrams :
       /\ {OnDiagrams!Rename(d), OnDiagrams!Delete(d)} \subseteq DiagramsWrites \ {"create", "import"}
       /\ {OnDiagrams!Renamed(d), OnDiagrams!Deleted(d)} \subseteq DiagramsReads
  /\ "load" \in DiagramsReads /\ {"create", "import"} \subseteq DiagramsWrites
<1> DEFINE ops == {"rename", "renamed", "delete", "deleted"}
<1>0. Distinct(ops, OnDiagrams!Diagrams, DiagramsNames)
  BY NamesAssumption DEF DiagramsNames
<1>1. \A op \in ops, d \in OnDiagrams!Diagrams : op \o ToString(d) \notin DiagramsNames
  BY <1>0 DEF Distinct
<1>2. \A op \in ops, d \in OnDiagrams!Diagrams, op2 \in ops, e \in OnDiagrams!Diagrams :
        op \o ToString(d) = op2 \o ToString(e) => op = op2 /\ d = e
  BY <1>0 DEF Distinct
<1>3. \A k \in DiagramsReads : k = "load" \/ \E op \in {"renamed", "deleted"}, d \in OnDiagrams!Diagrams : k = op \o ToString(d)
  BY DEF DiagramsReads, OnDiagrams!Loads, OnDiagrams!Renamed, OnDiagrams!Deleted, OnDiagrams!Named
<1>4. \A k \in DiagramsWrites : k \in {"create", "import"} \/ \E op \in {"rename", "delete"}, d \in OnDiagrams!Diagrams : k = op \o ToString(d)
  BY DEF DiagramsWrites, OnDiagrams!Rename, OnDiagrams!Delete, OnDiagrams!Named
<1>5. DiagramsReads \cap DiagramsWrites = {}
  <2> SUFFICES ASSUME NEW k \in DiagramsReads, k \in DiagramsWrites PROVE FALSE
    OBVIOUS
  <2>1. CASE k \in DiagramsNames
    BY <1>1, <1>3, <1>4, <2>1 DEF DiagramsNames
  <2>2. CASE k \notin DiagramsNames
    <3>1. PICK op \in {"renamed", "deleted"}, d \in OnDiagrams!Diagrams : k = op \o ToString(d)
      BY <1>3, <2>2 DEF DiagramsNames
    <3>2. PICK op2 \in {"rename", "delete"}, e \in OnDiagrams!Diagrams : k = op2 \o ToString(e)
      BY <1>4, <2>2 DEF DiagramsNames
    <3>3. op = op2
      BY <1>2, <3>1, <3>2, ZenonT(60)
    <3> QED
      BY <3>3
  <2> QED
    BY <2>1, <2>2
<1>6. ASSUME NEW d \in OnDiagrams!Diagrams
      PROVE  {OnDiagrams!Rename(d), OnDiagrams!Delete(d)} \cap {"create", "import"} = {}
  BY <1>1 DEF DiagramsNames, OnDiagrams!Rename, OnDiagrams!Delete, OnDiagrams!Named
<1> QED
  BY <1>5, <1>6 DEF DiagramsReads, DiagramsWrites, OnDiagrams!Loads

\* What the page's helpers do to the requests.
LEMMA DiagramsNet ==
  /\ \A requests, k, arg : Sends(requests, OnDiagrams!With(requests, k, arg), k)
  /\ \A k \in DOMAIN net : Closes(net, OnDiagrams!Closed(k), k)
  /\ \A k, state, answer : DiagramsShow /\ OnDiagrams!Handles(k, state, answer) =>
       Turns(net, net', k) /\ net'[k].stage = "answered" /\ net'[k].got = answer /\ srv' = state /\ ui' = ui /\ noise' = noise
  /\ \A k : DiagramsShow /\ OnDiagrams!Breaks(k) =>
       Turns(net, net', k) /\ net'[k].stage = "failed" /\ srv' = srv /\ ui' = ui /\ noise' = noise
<1>1. \A requests, k, arg : Sends(requests, OnDiagrams!With(requests, k, arg), k)
  BY DEF Sends, OnDiagrams!With
<1>2. \A k \in DOMAIN net : Closes(net, OnDiagrams!Closed(k), k)
  BY DEF Closes, OnDiagrams!Closed, OnDiagrams!Without, OnDiagrams!Restrict
<1>3. ASSUME NEW k, NEW state, NEW answer, DiagramsShow, OnDiagrams!Handles(k, state, answer)
      PROVE  Turns(net, net', k) /\ net'[k].stage = "answered" /\ net'[k].got = answer /\ srv' = state /\ ui' = ui /\ noise' = noise
  BY <1>3 DEF Turns, OnDiagrams!Handles, OnDiagrams!Out, DiagramsShow, Listing
<1>4. ASSUME NEW k, DiagramsShow, OnDiagrams!Breaks(k)
      PROVE  Turns(net, net', k) /\ net'[k].stage = "failed" /\ srv' = srv /\ ui' = ui /\ noise' = noise
  BY <1>4 DEF Turns, OnDiagrams!Breaks, OnDiagrams!Fails, OnDiagrams!Out, DiagramsShow, Listing
<1> QED
  BY <1>1, <1>2, <1>3, <1>4

\* It holds when the page opens.
LEMMA DiagramsShowInit == OnDiagrams!Init => DiagramsShow
<1> SUFFICES ASSUME OnDiagrams!Init PROVE DiagramsShow
  OBVIOUS
<1>1. /\ net = OnDiagrams!With(<<>>, "load", {}) /\ {"rows", "value"} \subseteq DOMAIN ui /\ ui.at = OnDiagrams!Nobody
  BY DEF OnDiagrams!Init
<1>2. DOMAIN net = {"load"} /\ DOMAIN net["load"] = {"arg", "stage", "got"} /\ net["load"].stage = "sent"
  BY <1>1, DOMAIN <<>> = {} DEF OnDiagrams!With
<1>3. Listing(net, DiagramsPast, ui.rows, srv.rows, DiagramsReads, DiagramsWrites, DiagramsExcuses)
  BY <1>2, DiagramsTold, ListingStarts
<1> QED
  BY <1>1, <1>2, <1>3, DiagramsInit DEF DiagramsShow, DiagramsBusy

\* What does not concern the list.
LEMMA DiagramsRests ==
  ASSUME DiagramsShow, DiagramsSpins', DOMAIN ui' = DOMAIN ui, ui'.rows = ui.rows, ui'.at = ui.at,
         ui'.creating = ui.creating, ui'.importing = ui.importing, net' = net, srv' = srv, noise' = noise
  PROVE  DiagramsShow'
  BY DEF DiagramsShow, DiagramsBusy, DiagramsPast, OnDiagrams!Here

\* A click that sends a request.
LEMMA DiagramsAsks ==
  ASSUME DiagramsShow, DiagramsSpins', NEW k \in DiagramsWrites, NEW arg, net' = OnDiagrams!Sent(k, arg), k \notin DOMAIN net,
         DOMAIN ui' = DOMAIN ui, ui'.rows = ui.rows, ui'.at = ui.at, srv' = srv, noise' = noise,
         IF k = "create" THEN ui'.creating ELSE ui'.creating = ui.creating,
         IF k = "import" THEN ui'.importing ELSE ui'.importing = ui.importing
  PROVE  DiagramsShow'
<1>0. k \notin DiagramsReads /\ DiagramsPast' = DiagramsPast
  BY DiagramsTold DEF DiagramsPast, OnDiagrams!Here
<1>1. Sends(net, net', k)
  BY DiagramsNet DEF OnDiagrams!Sent
<1>3. Listing(net', DiagramsPast', ui'.rows, srv'.rows, DiagramsReads, DiagramsWrites, DiagramsExcuses)
  BY <1>0, <1>1, ListingSends DEF DiagramsShow
<1>4. DiagramsBusy'
  BY <1>1 DEF DiagramsShow, DiagramsBusy, Sends
<1> QED
  BY <1>3, <1>4 DEF DiagramsShow

\* The user's clicks.
LEMMA DiagramsClicks == DiagramsShow /\ DiagramsSpins' /\ OnDiagrams!Clicks => DiagramsShow'
<1> SUFFICES ASSUME DiagramsShow, DiagramsSpins', OnDiagrams!Clicks PROVE DiagramsShow'
  OBVIOUS
<1>t. /\ {"rows", "value", "creating", "importing", "at", "renaming", "dialog"} \subseteq DOMAIN ui
      /\ {ui.renaming, ui.dialog} \subseteq OnDiagrams!Diagrams \cup {OnDiagrams!Nobody}
  BY DEF DiagramsShow, DiagramsSpins
<1>1. CASE OnDiagrams!OnNew
  <2>1. "create" \notin DOMAIN net
    BY <1>1 DEF OnDiagrams!OnNew, DiagramsShow, DiagramsBusy
  <2> QED
    BY <1>t, <1>1, <2>1, DiagramsTold, DiagramsAsks DEF OnDiagrams!OnNew, OnDiagrams!Gesture
<1>2. CASE OnDiagrams!OnFile
  <2>1. "import" \notin DOMAIN net
    BY <1>2 DEF OnDiagrams!OnFile, DiagramsShow, DiagramsBusy
  <2> QED
    BY <1>t, <1>2, <2>1, DiagramsTold, DiagramsAsks DEF OnDiagrams!OnFile, OnDiagrams!Gesture
<1>3. CASE OnDiagrams!OnRename
  <2> DEFINE k == OnDiagrams!Rename(ui.renaming)
  <2>1. /\ DOMAIN ui' = DOMAIN ui /\ ui'.rows = ui.rows /\ ui'.at = ui.at /\ ui'.creating = ui.creating /\ ui'.importing = ui.importing
        /\ srv' = srv /\ noise' = noise /\ k \notin DOMAIN net /\ ui.renaming \in OnDiagrams!Diagrams
    BY <1>t, <1>3 DEF OnDiagrams!OnRename, OnDiagrams!Out
  <2>2. k \in DiagramsWrites /\ k \notin {"create", "import"}
    BY <2>1, DiagramsTold
  <2>3. net' = net \/ net' = OnDiagrams!Sent(k, ui.value)
    BY <1>3 DEF OnDiagrams!OnRename
  <2> HIDE DEF k
  <2> QED
    BY <2>1, <2>2, <2>3, DiagramsAsks, DiagramsRests
<1>4. CASE OnDiagrams!CancelRename
  BY <1>t, <1>4, DiagramsRests DEF OnDiagrams!CancelRename
<1>5. CASE OnDiagrams!LeaveDialog
  BY <1>t, <1>5, DiagramsRests DEF OnDiagrams!LeaveDialog
<1>6. CASE OnDiagrams!OnDelete
  <2> DEFINE k == OnDiagrams!Delete(ui.dialog)
  <2>1. /\ DOMAIN ui' = DOMAIN ui /\ ui'.rows = ui.rows /\ ui'.at = ui.at /\ ui'.creating = ui.creating /\ ui'.importing = ui.importing
        /\ srv' = srv /\ noise' = noise /\ k \notin DOMAIN net /\ ui.dialog \in OnDiagrams!Diagrams
    BY <1>t, <1>6 DEF OnDiagrams!OnDelete, OnDiagrams!Out
  <2>2. k \in DiagramsWrites /\ k \notin {"create", "import"}
    BY <2>1, DiagramsTold
  <2>3. net' = OnDiagrams!Sent(k, ui.dialog)
    BY <1>6 DEF OnDiagrams!OnDelete
  <2> HIDE DEF k
  <2> QED
    BY <2>1, <2>2, <2>3, DiagramsAsks
<1>7. ASSUME NEW d \in OnDiagrams!Diagrams, OnDiagrams!StartRename(d) PROVE DiagramsShow'
  BY <1>t, <1>7, DiagramsRests DEF OnDiagrams!StartRename, OnDiagrams!Gesture
<1>8. ASSUME NEW d \in OnDiagrams!Diagrams, OnDiagrams!AskDelete(d) PROVE DiagramsShow'
  BY <1>t, <1>8, DiagramsRests DEF OnDiagrams!AskDelete, OnDiagrams!Gesture
<1>9. ASSUME NEW v, OnDiagrams!TypeName(v) PROVE DiagramsShow'
  BY <1>t, <1>9, DiagramsRests DEF OnDiagrams!TypeName
<1> QED
  BY <1>1, <1>2, <1>3, <1>4, <1>5, <1>6, <1>7, <1>8, <1>9 DEF OnDiagrams!Clicks

\* The server answers a request: a read with what is there.
LEMMA DiagramsTakes ==
  ASSUME DiagramsShow, DiagramsSpins', NEW k, NEW state, NEW answer, OnDiagrams!Handles(k, state, answer),
         k \in DiagramsWrites \/ (state = srv /\ answer = srv.rows)
  PROVE  DiagramsShow'
<1>1. Turns(net, net', k) /\ net'[k].stage = "answered" /\ net'[k].got = answer /\ srv' = state /\ ui' = ui /\ noise' = noise
  BY DiagramsNet
<1>2. DiagramsPast' = DiagramsPast
  BY <1>1 DEF DiagramsPast, OnDiagrams!Here
<1>3. Listing(net', DiagramsPast', ui'.rows, srv'.rows, DiagramsReads, DiagramsWrites, DiagramsExcuses)
  BY <1>1, <1>2, ListingServed DEF DiagramsShow
<1>4. DiagramsBusy'
  BY <1>1 DEF DiagramsShow, DiagramsBusy, Turns
<1> QED
  BY <1>1, <1>3, <1>4 DEF DiagramsShow

\* The server's answers keep it: a read is answered with what is there.
LEMMA DiagramsServe == DiagramsShow /\ DiagramsSpins' /\ OnDiagrams!Serve => DiagramsShow'
<1> SUFFICES ASSUME DiagramsShow, DiagramsSpins', OnDiagrams!Serve PROVE DiagramsShow'
  OBVIOUS
<1>0. OnDiagrams!There \subseteq OnDiagrams!Diagrams
  BY DEF DiagramsShow, DiagramsSpins, OnDiagrams!There
<1>1. ASSUME NEW k, NEW answer, OnDiagrams!Handles(k, srv, answer), answer = srv.rows PROVE DiagramsShow'
  BY <1>1, DiagramsTakes
<1>2. ASSUME NEW k \in DiagramsWrites, NEW state, NEW answer, OnDiagrams!Handles(k, state, answer) PROVE DiagramsShow'
  BY <1>2, DiagramsTakes
<1>3. ASSUME NEW k \in {"create", "import"}, NEW name, OnDiagrams!Create(k, name) PROVE DiagramsShow'
  <2>1. PICK d : OnDiagrams!Handles(k, [srv EXCEPT !.rows = [e \in OnDiagrams!There \cup {d} |-> IF e = d THEN name ELSE srv.rows[e]]], d)
    BY <1>3 DEF OnDiagrams!Create
  <2> QED
    BY <1>2, <2>1, DiagramsTold
<1>4. ASSUME NEW d \in OnDiagrams!There, OnDiagrams!Handles(OnDiagrams!Rename(d), [srv EXCEPT !.rows[d] = net[OnDiagrams!Rename(d)].arg], {})
      PROVE  DiagramsShow'
  <2>1. OnDiagrams!Rename(d) \in DiagramsWrites
    BY <1>0, DiagramsTold
  <2> QED
    BY <1>2, <1>4, <2>1
<1>5. ASSUME NEW d \in OnDiagrams!There, OnDiagrams!Handles(OnDiagrams!Delete(d), [srv EXCEPT !.rows = OnDiagrams!Restrict(@, OnDiagrams!There \ {d})], {})
      PROVE  DiagramsShow'
  <2>1. OnDiagrams!Delete(d) \in DiagramsWrites
    BY <1>0, DiagramsTold
  <2> QED
    BY <1>2, <1>5, <2>1
<1> QED
  BY <1>1, <1>3, <1>4, <1>5 DEF OnDiagrams!Serve

\* The list is read: it shows what came, or the page knows that it may not.
LEMMA DiagramsReadBack ==
  ASSUME DiagramsShow, DiagramsSpins', NEW k \in OnDiagrams!Loads, OnDiagrams!RefreshBack(k)
  PROVE  DiagramsShow'
<1>1. k \in DOMAIN net /\ Closes(net, net', k) /\ srv' = srv
  BY DiagramsNet DEF OnDiagrams!RefreshBack, OnDiagrams!Returned, OnDiagrams!Answered, OnDiagrams!Rejected, OnDiagrams!Out
<1>2. /\ DOMAIN ui' = DOMAIN ui /\ ui'.at = ui.at /\ ui'.creating = ui.creating /\ ui'.importing = ui.importing
      /\ ui'.rows = IF net[k].stage = "answered" THEN net[k].got ELSE <<>>
  BY <1>1 DEF OnDiagrams!RefreshBack, DiagramsShow, DiagramsSpins, OnDiagrams!Answered, OnDiagrams!Out
<1>3. DiagramsPast' \cap DiagramsExcuses = {} => DiagramsPast \cap DiagramsExcuses = {} /\ net[k].stage = "answered" /\ ui'.rows = net[k].got
  BY <1>1, <1>2 DEF OnDiagrams!RefreshBack, OnDiagrams!Returned, OnDiagrams!Answered, OnDiagrams!Rejected, DiagramsPast, DiagramsExcuses, Excuses, OnDiagrams!Here
<1>4. Listing(net', DiagramsPast', ui'.rows, srv'.rows, DiagramsReads, DiagramsWrites, DiagramsExcuses)
  BY <1>1, <1>3, ListingShows DEF DiagramsShow, DiagramsReads
<1>5. DiagramsBusy'
  BY <1>1, <1>2 DEF DiagramsShow, Closes, DiagramsBusy
<1> QED
  BY <1>2, <1>4, <1>5 DEF DiagramsShow

\* A diagram is never nobody's.
LEMMA DiagramsMade == \A d \in OnDiagrams!Made : d # OnDiagrams!Nobody
  BY DEF OnDiagrams!Made, OnDiagrams!Nobody

\* A diagram was made: the page is left for it, or does not know of it.
LEMMA DiagramsMakeBack ==
  ASSUME DiagramsShow, DiagramsSpins', NEW k \in {"create", "import"}, OnDiagrams!Returned(k), net' = OnDiagrams!Closed(k), srv' = srv,
         DOMAIN ui' = DOMAIN ui, ui'.rows = ui.rows,
         k # "create" => ui'.creating = ui.creating, k # "import" => ui'.importing = ui.importing,
         ui'.at = IF OnDiagrams!Answered(k) THEN net[k].got ELSE ui.at,
         noise' = IF OnDiagrams!Rejected(k) THEN noise \cup {"lost answer"} ELSE noise
  PROVE  DiagramsShow'
<1>1. k \in DOMAIN net /\ Closes(net, net', k)
  BY DiagramsNet DEF OnDiagrams!Returned, OnDiagrams!Answered, OnDiagrams!Rejected, OnDiagrams!Out
<1>2. OnDiagrams!Answered(k) => ui'.at \in OnDiagrams!Made
  BY <1>1 DEF DiagramsShow, DiagramsSpins, OnDiagrams!Answered
<1>3. ui'.at \in OnDiagrams!Diagrams \cup {OnDiagrams!Nobody} /\ (OnDiagrams!Answered(k) => ui'.at # OnDiagrams!Nobody)
  <2>1. OnDiagrams!Made \subseteq OnDiagrams!Diagrams
    BY DEF OnDiagrams!Diagrams
  <2>2. OnDiagrams!Answered(k) => ui'.at # OnDiagrams!Nobody
    BY <1>2, DiagramsMade
  <2> QED
    BY <1>2, <2>1, <2>2 DEF DiagramsShow
<1>4. DiagramsPast' \cap DiagramsExcuses # {}
  BY <1>3 DEF OnDiagrams!Returned, DiagramsPast, DiagramsExcuses, Excuses, OnDiagrams!Here
<1>5. Listing(net', DiagramsPast', ui'.rows, srv'.rows, DiagramsReads, DiagramsWrites, DiagramsExcuses)
  BY <1>1, <1>4, ListingCloses DEF DiagramsShow
<1>6. DiagramsBusy'
  BY <1>1 DEF DiagramsShow, Closes, DiagramsBusy
<1> QED
  BY <1>3, <1>5, <1>6 DEF DiagramsShow

\* A change is answered: a read of the list follows, or the page knows it should.
LEMMA DiagramsChangeBack ==
  ASSUME DiagramsShow, DiagramsSpins', NEW k \in DiagramsWrites, k \notin {"create", "import"}, NEW then \in DiagramsReads, OnDiagrams!ChangeBack(k, then)
  PROVE  DiagramsShow'
<1> DEFINE closed == OnDiagrams!Closed(k)
<1>1. Closes(net, closed, k) /\ then \notin {"create", "import"}
  BY DiagramsNet, DiagramsTold DEF OnDiagrams!ChangeBack, OnDiagrams!Returned, OnDiagrams!Answered, OnDiagrams!Rejected, OnDiagrams!Out
<1>2. ui' = ui /\ srv' = srv
  BY DEF OnDiagrams!ChangeBack
<1>3. CASE net' = closed /\ noise' = noise \cup {"lost answer"}
  <2>1. "lost answer" \in DiagramsPast' \cap DiagramsExcuses
    BY <1>3 DEF DiagramsPast, DiagramsExcuses, Excuses
  <2>2. Listing(net', DiagramsPast', ui'.rows, srv'.rows, DiagramsReads, DiagramsWrites, DiagramsExcuses)
    BY <1>1, <1>2, <1>3, <2>1, ListingCloses DEF DiagramsShow
  <2>3. DiagramsBusy'
    BY <1>1, <1>2, <1>3 DEF DiagramsShow, Closes, DiagramsBusy
  <2> QED
    BY <1>2, <2>2, <2>3 DEF DiagramsShow
<1>4. CASE OnDiagrams!Refresh(closed, then)
  <2>1. Sends(closed, net', then) /\ (DiagramsPast' \cap DiagramsExcuses = {} => DOMAIN closed \cap DiagramsReads = {})
    BY <1>4, DiagramsNet DEF OnDiagrams!Refresh, DiagramsReads, DiagramsPast, DiagramsExcuses, Excuses
  <2> HIDE DEF closed
  <2>2. Listing(net', DiagramsPast', ui'.rows, srv'.rows, DiagramsReads, DiagramsWrites, DiagramsExcuses)
    BY <1>1, <1>2, <2>1, ListingFollows DEF DiagramsShow
  <2>3. DiagramsBusy'
    BY <1>1, <1>2, <2>1 DEF DiagramsShow, Sends, Closes, DiagramsBusy
  <2> QED
    BY <1>2, <2>2, <2>3 DEF DiagramsShow
<1> QED
  BY <1>3, <1>4 DEF OnDiagrams!ChangeBack

\* Every step of the page keeps it.
LEMMA DiagramsShowStep == DiagramsShow /\ OnDiagrams!Next => DiagramsShow'
<1> SUFFICES ASSUME DiagramsShow, OnDiagrams!Next PROVE DiagramsShow'
  OBVIOUS
<1>0. DiagramsSpins /\ DiagramsSpins' /\ {"rows", "at", "creating", "importing"} \subseteq DOMAIN ui
  BY DiagramsStep DEF DiagramsShow, DiagramsSpins
<1>1. CASE OnDiagrams!NewBack
  BY <1>0, <1>1, DiagramsMakeBack DEF OnDiagrams!NewBack, OnDiagrams!Returned
<1>2. CASE OnDiagrams!FileBack
  BY <1>0, <1>2, DiagramsMakeBack DEF OnDiagrams!FileBack, OnDiagrams!Returned
<1>3. ASSUME NEW d \in OnDiagrams!Diagrams,
             OnDiagrams!ChangeBack(OnDiagrams!Rename(d), OnDiagrams!Renamed(d)) \/ OnDiagrams!ChangeBack(OnDiagrams!Delete(d), OnDiagrams!Deleted(d))
      PROVE  DiagramsShow'
  BY <1>0, <1>3, DiagramsTold, DiagramsChangeBack
<1>4. ASSUME NEW k \in DOMAIN net, OnDiagrams!Breaks(k) PROVE DiagramsShow'
  <2>1. Turns(net, net', k) /\ net'[k].stage = "failed" /\ ui' = ui /\ srv' = srv /\ noise' = noise
    BY <1>4, DiagramsNet
  <2>2. Listing(net', DiagramsPast', ui'.rows, srv'.rows, DiagramsReads, DiagramsWrites, DiagramsExcuses)
    BY <2>1, ListingFails DEF DiagramsShow, DiagramsPast, OnDiagrams!Here
  <2>3. DiagramsBusy'
    BY <2>1 DEF DiagramsShow, Turns, DiagramsBusy
  <2> QED
    BY <1>0, <2>1, <2>2, <2>3 DEF DiagramsShow
<1> QED
  BY <1>0, <1>1, <1>2, <1>3, <1>4, DiagramsClicks, DiagramsServe, DiagramsReadBack DEF OnDiagrams!Next, OnDiagrams!Returns

\* It is what the page promises.
LEMMA DiagramsShowEnough == DiagramsShow => OnDiagrams!ShowsServer /\ OnDiagrams!TypeOK
<1> SUFFICES ASSUME DiagramsShow PROVE OnDiagrams!ShowsServer /\ OnDiagrams!TypeOK
  OBVIOUS
<1>1. noise \cap {"stale rows", "lost answer"} = {} /\ OnDiagrams!Here => DiagramsPast \cap DiagramsExcuses = {}
  BY DEF DiagramsPast, DiagramsExcuses, Excuses
<1>2. DOMAIN net = {} /\ DiagramsPast \cap DiagramsExcuses = {} => ui.rows = srv.rows
  BY DEF DiagramsShow, Listing, Fresh
<1> QED
  BY <1>1, <1>2 DEF DiagramsShow, DiagramsSpins, OnDiagrams!TypeOK, OnDiagrams!There, OnDiagrams!ShowsServer, OnDiagrams!Quiet

------------------------------------------------------------------------------
(* The designer's three dialogs *)

\* What is kept on this page: each dialog has only its own requests under way;
\* a comparison waits for the list of tables or for the columns of those still
\* planned.
DialogsSpins ==
  /\ {"dialog", "busy", "plan"} \subseteq DOMAIN ui /\ ui.dialog \in OnDialogs!Dialogs
  /\ ui.dialog = "import" => DOMAIN net \subseteq {OnDialogs!Listing(c) : c \in OnDialogs!Conns} \cup {"columns"}
  /\ ui.dialog = "verify" =>
       /\ ui.plan \subseteq OnDialogs!Drawn
       /\ {OnDialogs!Columns(t) : t \in ui.plan} \subseteq DOMAIN net
       /\ DOMAIN net \subseteq {OnDialogs!Columns(t) : t \in ui.plan} \cup {"list"}
       /\ "list" \in DOMAIN net => ui.plan = {}
       /\ ui.busy <=> "list" \in DOMAIN net \/ ui.plan # {}
  /\ ui.dialog = "migrate" => DOMAIN net \subseteq {"create"}
  /\ OnDialogs!SpinnersHaveRequests

\* It holds when the page opens.
LEMMA DialogsInit == OnDialogs!Init => DialogsSpins
<1> SUFFICES ASSUME OnDialogs!Init PROVE DialogsSpins
  OBVIOUS
<1>1. PICK d \in OnDialogs!Dialogs : /\ {"dialog", "busy", "plan"} \subseteq DOMAIN ui
                                     /\ ui.dialog = d /\ ui.busy = FALSE /\ ui.plan = {}
  BY DEF OnDialogs!Init
<1>2. DOMAIN net = {}
  BY DEF OnDialogs!Init
<1> QED
  BY <1>1, <1>2 DEF DialogsSpins, OnDialogs!SpinnersHaveRequests

\* The requests about a row are told from these and from each other.
LEMMA DialogsNamed ==
  /\ \A c \in OnDialogs!Conns : OnDialogs!Listing(c) \notin {"columns", "list", "create"}
  /\ \A t \in OnDialogs!Drawn :
       /\ OnDialogs!Columns(t) \notin {"columns", "list", "create"}
       /\ \A c \in OnDialogs!Conns : OnDialogs!Columns(t) # OnDialogs!Listing(c)
       /\ \A s \in OnDialogs!Drawn : OnDialogs!Columns(t) = OnDialogs!Columns(s) => t = s
<1> USE DEF OnDialogs!Listing, OnDialogs!Columns, OnDialogs!Named
<1> DEFINE plain == {"columns", "list", "create"} \cup {OnDialogs!Listing(c) : c \in OnDialogs!Conns}
<1>1. Distinct({"tables"}, OnDialogs!Conns, {"columns", "list", "create"}) /\ Distinct({"columns"}, OnDialogs!Drawn, plain)
  BY NamesAssumption
<1>2. \A c \in OnDialogs!Conns : "tables" \o ToString(c) \notin {"columns", "list", "create"}
  BY <1>1 DEF Distinct
<1> HIDE DEF plain
<1>3. \A t \in OnDialogs!Drawn : /\ "columns" \o ToString(t) \notin plain
                                 /\ \A s \in OnDialogs!Drawn : "columns" \o ToString(t) = "columns" \o ToString(s) => t = s
  BY <1>1 DEF Distinct
<1> QED
  BY <1>2, <1>3 DEF plain

\* It is kept by what leaves the requests and the busy button as they are.
LEMMA DialogsFrame ==
  /\ DialogsSpins /\ DOMAIN ui' = DOMAIN ui /\ ui'.dialog = ui.dialog /\ ui'.busy = ui.busy /\ ui'.plan = ui.plan
  /\ DOMAIN net' = DOMAIN net
  => DialogsSpins'
  BY DEF DialogsSpins, OnDialogs!SpinnersHaveRequests, OnDialogs!Quiet

\* Every step of the page keeps it.
LEMMA DialogsStep == DialogsSpins /\ OnDialogs!Next => DialogsSpins'
<1> SUFFICES ASSUME DialogsSpins, OnDialogs!Next PROVE DialogsSpins'
  OBVIOUS
<1> USE DEF OnDialogs!Is, OnDialogs!Quiet
<1>a. \A k : OnDialogs!Returned(k) => k \in DOMAIN net
  BY DEF OnDialogs!Returned, OnDialogs!Answered, OnDialogs!Rejected, OnDialogs!Out
<1>b. \A k : DOMAIN OnDialogs!Closed(k) = DOMAIN net \ {k}
  BY DEF OnDialogs!Closed, OnDialogs!Without, OnDialogs!Restrict
<1>c. \A k, a : DOMAIN OnDialogs!Sent(k, a) = DOMAIN net \cup {k}
  BY DEF OnDialogs!Sent, OnDialogs!With
<1>1. CASE OnDialogs!Serve
  <2>1. \A k, s, a : OnDialogs!Handles(k, s, a) => ui' = ui /\ DOMAIN net' = DOMAIN net
    BY DEF OnDialogs!Handles
  <2>2. ui' = ui /\ DOMAIN net' = DOMAIN net
    BY Zenon, <1>1, <2>1 DEF OnDialogs!Serve
  <2> QED
    BY <2>2, DialogsFrame
<1>2. CASE OnDialogs!ImportBack
  <2>1. "columns" \in DOMAIN net /\ DOMAIN net' = DOMAIN net \ {"columns"}
    BY <1>a, <1>b, <1>2 DEF OnDialogs!ImportBack
  <2>2. PICK drawing_ : ui' = [ui EXCEPT !.busy = FALSE, !.open = FALSE, !.drawn = drawing_]
    BY <1>2 DEF OnDialogs!ImportBack
  <2>3. DOMAIN ui' = DOMAIN ui /\ ui'.dialog = ui.dialog /\ ui'.busy = FALSE /\ ui'.plan = ui.plan
    BY <2>2 DEF DialogsSpins
  <2>4. ui.dialog = "import"
    BY <2>1, DialogsNamed DEF DialogsSpins, OnDialogs!Dialogs
  <2> QED
    BY <2>1, <2>3, <2>4 DEF DialogsSpins, OnDialogs!SpinnersHaveRequests
<1>3. CASE OnDialogs!ListBack
  <2>1. "list" \in DOMAIN net
    BY <1>a, <1>3 DEF OnDialogs!ListBack
  <2>2. ui.dialog = "verify" /\ DOMAIN net = {"list"}
    BY <2>1, DialogsNamed DEF DialogsSpins, OnDialogs!Dialogs
  <2> DEFINE there == IF OnDialogs!Answered("list") THEN OnDialogs!Drawn \cap net["list"].got ELSE {}
             asked == {OnDialogs!Columns(t) : t \in there}
  <2>3. DOMAIN net' = asked
    <3>1. DOMAIN net' = asked \cup DOMAIN OnDialogs!Closed("list")
      BY <1>3 DEF OnDialogs!ListBack
    <3> QED
      BY <3>1, <2>2, <1>b
  <2>4. PICK report : ui' = [ui EXCEPT !.busy = there # {}, !.plan = there, !.report = report]
    BY <1>3 DEF OnDialogs!ListBack
  <2>5. there \subseteq OnDialogs!Drawn
    OBVIOUS
  <2> HIDE DEF there
  <2>6. DOMAIN ui' = DOMAIN ui /\ ui'.dialog = ui.dialog /\ (ui'.busy <=> there # {}) /\ ui'.plan = there
    BY <2>4 DEF DialogsSpins
  <2>7. "list" \notin asked
    BY <2>5, DialogsNamed
  <2> QED
    BY <2>2, <2>3, <2>5, <2>6, <2>7 DEF DialogsSpins, OnDialogs!SpinnersHaveRequests
<1>4. CASE OnDialogs!CreateBack
  <2>1. "create" \in DOMAIN net
    BY <1>a, <1>4 DEF OnDialogs!CreateBack
  <2>2. ui.dialog = "migrate" /\ DOMAIN net = {"create"}
    BY <2>1, DialogsNamed DEF DialogsSpins, OnDialogs!Dialogs
  <2> DEFINE u == IF OnDialogs!Answered("create") THEN [ui EXCEPT !.ok = @ + 1] ELSE [ui EXCEPT !.fail = @ + 1]
  <2>3. DOMAIN u = DOMAIN ui /\ u.dialog = ui.dialog /\ u.busy = ui.busy /\ u.plan = ui.plan
    BY DEF DialogsSpins
  <2>4. CASE u.plan # {}
    <3>1. OnDialogs!Ask(u, OnDialogs!Closed("create"))
      BY <1>4, <2>4 DEF OnDialogs!CreateBack
    <3> HIDE DEF u
    <3>2. PICK t \in u.plan : /\ ui' = [u EXCEPT !.plan = @ \ {t}]
                              /\ net' = OnDialogs!With(OnDialogs!Closed("create"), "create", t)
      BY <3>1 DEF OnDialogs!Ask
    <3>3. DOMAIN net' = {"create"}
      BY <3>2, <2>2, <1>b DEF OnDialogs!With
    <3>4. DOMAIN ui' = DOMAIN ui /\ ui'.dialog = ui.dialog
      BY <3>2, <2>3 DEF DialogsSpins
    <3> QED
      BY <2>2, <3>3, <3>4 DEF DialogsSpins, OnDialogs!SpinnersHaveRequests
  <2>5. CASE u.plan = {}
    <3>1. /\ net' = OnDialogs!Closed("create")
          /\ ui' = IF u.ok > 0 THEN [u EXCEPT !.busy = FALSE, !.open = FALSE, !.at = "migrations"] ELSE [u EXCEPT !.busy = FALSE]
      BY <1>4, <2>5 DEF OnDialogs!CreateBack
    <3> HIDE DEF u
    <3>2. DOMAIN ui' = DOMAIN ui /\ ui'.dialog = "migrate" /\ ui'.busy = FALSE
      BY <3>1, <2>2, <2>3 DEF DialogsSpins
    <3>3. DOMAIN net' = {}
      BY <3>1, <2>2, <1>b
    <3>4. {"dialog", "busy", "plan"} \subseteq DOMAIN ui' /\ ui'.dialog \in OnDialogs!Dialogs
      BY <2>2, <3>2 DEF DialogsSpins
    <3>5. ui'.dialog # "import" /\ ui'.dialog # "verify"
      BY <3>2
    <3>6. OnDialogs!SpinnersHaveRequests'
      BY <3>2 DEF OnDialogs!SpinnersHaveRequests
    <3> QED
      BY <3>3, <3>4, <3>5, <3>6 DEF DialogsSpins
  <2> QED
    BY <2>4, <2>5
<1>5. ASSUME NEW c \in OnDialogs!Conns, OnDialogs!ListingBack(c) PROVE DialogsSpins'
  <2>1. DOMAIN net' \subseteq DOMAIN net /\ ui.dialog = "import"
    BY <1>5, <1>b DEF OnDialogs!ListingBack
  <2>2. PICK tables : ui' = [ui EXCEPT !.tables = tables, !.busy = FALSE]
    BY <1>5 DEF OnDialogs!ListingBack
  <2>3. DOMAIN ui' = DOMAIN ui /\ ui'.dialog = ui.dialog /\ ui'.busy = FALSE /\ ui'.plan = ui.plan
    BY <2>2 DEF DialogsSpins
  <2> QED
    BY <2>1, <2>3 DEF DialogsSpins, OnDialogs!SpinnersHaveRequests
<1>6. ASSUME NEW t \in OnDialogs!Drawn, OnDialogs!ColumnsBack(t) PROVE DialogsSpins'
  <2> DEFINE k == OnDialogs!Columns(t)
  <2>1. k \in DOMAIN net /\ DOMAIN net' = DOMAIN net \ {k}
    BY <1>a, <1>b, <1>6 DEF OnDialogs!ColumnsBack
  <2>2. ui.dialog = "verify"
    BY <2>1, DialogsNamed DEF DialogsSpins, OnDialogs!Dialogs
  <2>3. t \in ui.plan
    BY <2>1, <2>2, DialogsNamed DEF DialogsSpins
  <2>4. PICK r : ui' = [ui EXCEPT !.plan = @ \ {t}, !.busy = ui.plan # {t}, !.report[t] = r]
    BY Zenon, <1>6 DEF OnDialogs!ColumnsBack
  <2>5. DOMAIN ui' = DOMAIN ui /\ ui'.dialog = ui.dialog /\ (ui'.busy <=> ui.plan # {t}) /\ ui'.plan = ui.plan \ {t}
    BY <2>4 DEF DialogsSpins
  <2>6. \A s \in ui.plan \ {t} : OnDialogs!Columns(s) # k
    BY <2>2, DialogsNamed DEF DialogsSpins
  <2>7. "list" \notin DOMAIN net
    BY <2>2, <2>3 DEF DialogsSpins
  <2> HIDE DEF k
  <2> QED
    BY <2>1, <2>2, <2>3, <2>5, <2>6, <2>7 DEF DialogsSpins, OnDialogs!SpinnersHaveRequests, k
<1>7. CASE OnDialogs!Clicks
  <2>1. CASE OnDialogs!Close
    <3>1. net' = net /\ DOMAIN ui' = DOMAIN ui /\ ui'.dialog = ui.dialog /\ ui'.busy = ui.busy /\ ui'.plan = ui.plan
      BY <2>1 DEF OnDialogs!Close, DialogsSpins
    <3> QED
      BY <3>1, DialogsFrame
  <2>2. CASE OnDialogs!Import
    <3>1. /\ ui.dialog = "import" /\ DOMAIN ui' = DOMAIN ui /\ ui'.dialog = ui.dialog
          /\ DOMAIN net' = DOMAIN net \cup {"columns"}
      BY <2>2, <1>c DEF OnDialogs!Import, DialogsSpins
    <3> QED
      BY <3>1 DEF DialogsSpins, OnDialogs!SpinnersHaveRequests
  <2>3. CASE OnDialogs!Compare
    <3>1. /\ ui.dialog = "verify" /\ ~ui.busy /\ DOMAIN ui' = DOMAIN ui /\ ui'.dialog = ui.dialog
          /\ ui'.busy = TRUE /\ ui'.plan = ui.plan /\ DOMAIN net' = DOMAIN net \cup {"list"}
      BY <2>3, <1>c DEF OnDialogs!Compare, DialogsSpins
    <3> QED
      BY <3>1 DEF DialogsSpins, OnDialogs!SpinnersHaveRequests
  <2>4. CASE OnDialogs!CreateAll
    <3> DEFINE u == [ui EXCEPT !.busy = TRUE, !.plan = OnDialogs!Eligible(ui), !.ok = 0, !.fail = 0]
    <3>1. ui.dialog = "migrate" /\ OnDialogs!Ask(u, net)
      BY <2>4 DEF OnDialogs!CreateAll
    <3>2. DOMAIN u = DOMAIN ui /\ u.dialog = ui.dialog
      BY DEF DialogsSpins
    <3> HIDE DEF u
    <3>3. PICK t \in u.plan : ui' = [u EXCEPT !.plan = @ \ {t}] /\ net' = OnDialogs!With(net, "create", t)
      BY <3>1 DEF OnDialogs!Ask
    <3>4. DOMAIN ui' = DOMAIN ui /\ ui'.dialog = ui.dialog /\ DOMAIN net' = DOMAIN net \cup {"create"}
      BY <3>2, <3>3 DEF DialogsSpins, OnDialogs!With
    <3> QED
      BY <3>1, <3>4 DEF DialogsSpins, OnDialogs!SpinnersHaveRequests
  <2>5. ASSUME NEW c \in OnDialogs!Conns \cup {OnDialogs!None}, OnDialogs!PickSource(c) PROVE DialogsSpins'
    <3>1. /\ ui.dialog = "import" /\ DOMAIN ui' = DOMAIN ui /\ ui'.dialog = ui.dialog
          /\ ui'.busy = (ui.busy \/ c # OnDialogs!None)
      BY <2>5 DEF OnDialogs!PickSource, DialogsSpins
    <3>2. CASE c = OnDialogs!None
      <4>1. net' = net
        BY <2>5, <3>2 DEF OnDialogs!PickSource
      <4> QED
        BY <3>1, <3>2, <4>1 DEF DialogsSpins, OnDialogs!SpinnersHaveRequests
    <3>3. CASE c # OnDialogs!None
      <4>1. DOMAIN net' = DOMAIN net \cup {OnDialogs!Listing(c)}
        BY <2>5, <3>3, <1>c DEF OnDialogs!PickSource
      <4> QED
        BY <3>1, <3>3, <4>1 DEF DialogsSpins, OnDialogs!SpinnersHaveRequests
    <3> QED
      BY <3>2, <3>3
  <2>6. ASSUME NEW c, OnDialogs!PickTarget(c) PROVE DialogsSpins'
    <3>1. net' = net /\ DOMAIN ui' = DOMAIN ui /\ ui'.dialog = ui.dialog /\ ui'.busy = ui.busy /\ ui'.plan = ui.plan
      BY <2>6 DEF OnDialogs!PickTarget, DialogsSpins
    <3> QED
      BY <3>1, DialogsFrame
  <2>7. ASSUME NEW t, OnDialogs!Choose(t) PROVE DialogsSpins'
    <3>1. net' = net /\ DOMAIN ui' = DOMAIN ui /\ ui'.dialog = ui.dialog /\ ui'.busy = ui.busy /\ ui'.plan = ui.plan
      BY <2>7 DEF OnDialogs!Choose, DialogsSpins
    <3> QED
      BY <3>1, DialogsFrame
  <2>8. ASSUME NEW s, OnDialogs!PickStrategy(s) PROVE DialogsSpins'
    <3>1. net' = net /\ DOMAIN ui' = DOMAIN ui /\ ui'.dialog = ui.dialog /\ ui'.busy = ui.busy /\ ui'.plan = ui.plan
      BY <2>8 DEF OnDialogs!PickStrategy, DialogsSpins
    <3> QED
      BY <3>1, DialogsFrame
  <2> QED
    BY <1>7, <2>1, <2>2, <2>3, <2>4, <2>5, <2>6, <2>7, <2>8 DEF OnDialogs!Clicks
<1>8. CASE /\ OnDialogs!Refuse /\ net' = [net EXCEPT !["create"].stage = "failed"]
           /\ UNCHANGED <<ui, srv, clicks, noise>>
  BY <1>8, DialogsFrame
<1>9. ASSUME NEW k \in DOMAIN net, OnDialogs!Spoils(k) PROVE DialogsSpins'
  BY <1>9, DialogsFrame DEF OnDialogs!Spoils, OnDialogs!Fails
<1> QED
  BY <1>1, <1>2, <1>3, <1>4, <1>5, <1>6, <1>7, <1>8, <1>9 DEF OnDialogs!Next, OnDialogs!Returns

\* The page's Cardinality is that of FiniteSets.
LEMMA DialogsCount == \A S : OnDialogs!Cardinality(S) = Cardinality(S)
  BY DEF OnDialogs!Cardinality, Cardinality

\* With it, a round of creating is under way as long as its request is, and the
\* dialog stays open for another only when nothing was made.
DialogsRules ==
  /\ {"dialog", "open", "busy", "plan", "ok", "fail", "at"} \subseteq DOMAIN ui
  /\ ui.dialog = "migrate" =>
       /\ DOMAIN srv = {"made", "before"} /\ srv.before \subseteq srv.made /\ IsFiniteSet(srv.made)
       /\ ui.ok \in Nat
       /\ DOMAIN net \subseteq {"create"} /\ (ui.busy <=> "create" \in DOMAIN net)
       /\ "create" \in DOMAIN net => {"arg", "stage"} \subseteq DOMAIN net["create"]
       /\ ui.busy \/ ui.ok = 0 => ui.at = "designer"
       /\ ~ui.busy /\ ui.ok # 0 => ui.at = "migrations" /\ ~ui.open
       /\ "failure" \notin noise =>
            /\ OnDialogs!Answered("create") => Cardinality(srv.made \ srv.before) = ui.ok + 1
            /\ ~OnDialogs!Answered("create") => Cardinality(srv.made \ srv.before) = ui.ok
  /\ OnDialogs!MakesWhatItCounts

\* It holds when a dialog opens.
LEMMA DialogsRulesInit == OnDialogs!Init => DialogsRules
<1> SUFFICES ASSUME OnDialogs!Init PROVE DialogsRules
  OBVIOUS
<1>1. /\ {"dialog", "open", "busy", "plan", "ok", "fail", "at"} \subseteq DOMAIN ui
      /\ ui.busy = FALSE /\ ui.ok = 0 /\ ui.at = "designer"
  BY DEF OnDialogs!Init
<1>2. PICK made \in SUBSET {"b"} : srv = [made |-> made, before |-> made]
  BY DEF OnDialogs!Init
<1>3. DOMAIN net = {}
  BY DEF OnDialogs!Init
<1>4. IsFiniteSet(srv.made) /\ srv.made \ srv.before = {} /\ srv.before \subseteq srv.made
  BY <1>2, FS_Subset, FS_Singleton
<1>5. Cardinality(srv.made \ srv.before) = 0
  BY <1>4, FS_EmptySet
<1>6. ~OnDialogs!Answered("create") /\ DOMAIN srv = {"made", "before"}
  BY <1>2, <1>3 DEF OnDialogs!Answered, OnDialogs!Out
<1>7. OnDialogs!MakesWhatItCounts
  BY <1>1, <1>5, DialogsCount DEF OnDialogs!MakesWhatItCounts, OnDialogs!Is
<1> QED
  BY <1>1, <1>3, <1>4, <1>5, <1>6, <1>7 DEF DialogsRules

\* It is kept by what leaves the round as it is.
LEMMA DialogsRulesFrame ==
  /\ DialogsRules
  /\ DOMAIN ui' = DOMAIN ui /\ ui'.dialog = ui.dialog /\ ui'.busy = ui.busy /\ ui'.ok = ui.ok /\ ui'.at = ui.at
  /\ ui'.open => ui.open
  /\ UNCHANGED <<srv, net>> /\ ("failure" \in noise => "failure" \in noise')
  => DialogsRules'
  BY DEF DialogsRules, OnDialogs!MakesWhatItCounts, OnDialogs!Answered, OnDialogs!Out, OnDialogs!Is

\* And by a step of another dialog.
LEMMA DialogsRulesOther ==
  DialogsRules /\ DOMAIN ui' = DOMAIN ui /\ ui'.dialog = ui.dialog /\ ui.dialog # "migrate" => DialogsRules'
  BY DEF DialogsRules, OnDialogs!MakesWhatItCounts, OnDialogs!Is

\* A migration is asked for: there was none under way, or its answer was taken.
LEMMA DialogsRulesAsk ==
  ASSUME DialogsRules, ui.dialog = "migrate", NEW u, NEW requests, OnDialogs!Ask(u, requests),
         DOMAIN u = DOMAIN ui, u.dialog = ui.dialog, u.busy = TRUE, u.at = "designer", u.ok \in Nat,
         DOMAIN requests \subseteq {"create"}, srv' = srv, noise' = noise,
         "failure" \notin noise => Cardinality(srv.made \ srv.before) = u.ok
  PROVE  DialogsRules'
<1>1. PICK t \in u.plan : ui' = [u EXCEPT !.plan = @ \ {t}] /\ net' = OnDialogs!With(requests, "create", t)
  BY DEF OnDialogs!Ask
<1>2. /\ DOMAIN ui' = DOMAIN ui /\ ui'.dialog = ui.dialog /\ ui'.busy = TRUE /\ ui'.at = "designer" /\ ui'.ok = u.ok
      /\ ui'.open = u.open
  BY <1>1 DEF DialogsRules
<1>3. DOMAIN net' = {"create"} /\ net'["create"] = [arg |-> t, stage |-> "sent", got |-> "nothing"]
  BY <1>1 DEF OnDialogs!With
<1> QED
  BY <1>2, <1>3 DEF DialogsRules, OnDialogs!MakesWhatItCounts, OnDialogs!Answered, OnDialogs!Out, OnDialogs!Is

\* Every step keeps it.
LEMMA DialogsRulesStep == DialogsRules /\ OnDialogs!Next => DialogsRules'
<1> SUFFICES ASSUME DialogsRules, OnDialogs!Next PROVE DialogsRules'
  OBVIOUS
<1> USE DEF OnDialogs!Is
<1>a. \A k : OnDialogs!Returned(k) => k \in DOMAIN net
  BY DEF OnDialogs!Returned, OnDialogs!Answered, OnDialogs!Rejected, OnDialogs!Out
<1>b. \A k : DOMAIN OnDialogs!Closed(k) = DOMAIN net \ {k}
  BY DEF OnDialogs!Closed, OnDialogs!Without, OnDialogs!Restrict
<1>1. CASE OnDialogs!Serve
  <2>1. ui' = ui /\ noise' = noise
    <3>1. \A k, s, a : OnDialogs!Handles(k, s, a) => ui' = ui /\ noise' = noise
      BY DEF OnDialogs!Handles
    <3> QED
      BY Zenon, <1>1, <3>1 DEF OnDialogs!Serve
  <2>2. CASE ui.dialog # "migrate"
    BY <2>1, <2>2, DialogsRulesOther
  <2>3. CASE ui.dialog = "migrate"
    <3>1. \A k, s, a : OnDialogs!Handles(k, s, a) => k = "create"
      BY <2>3 DEF OnDialogs!Handles, OnDialogs!Out, DialogsRules
    <3>2. "create" \notin {"columns", "list"} /\ \A c \in OnDialogs!Conns : OnDialogs!Listing(c) # "create"
      BY DialogsNamed
    <3>3. \A t \in OnDialogs!Drawn : OnDialogs!Columns(t) # "create"
      BY DialogsNamed
    <3>4. /\ OnDialogs!NameOf(net["create"].arg) \notin srv.made
          /\ OnDialogs!Handles("create", [srv EXCEPT !.made = @ \cup {OnDialogs!NameOf(net["create"].arg)}], {})
      BY Zenon, <1>1, <3>1, <3>2, <3>3 DEF OnDialogs!Serve
    <3> DEFINE n == OnDialogs!NameOf(net["create"].arg)
    <3> HIDE DEF n
    <3>5. n \notin srv.made /\ OnDialogs!Handles("create", [srv EXCEPT !.made = @ \cup {n}], {})
      BY <3>4 DEF n
    <3>6. /\ "create" \in DOMAIN net /\ net["create"].stage = "sent"
          /\ DOMAIN net' = DOMAIN net /\ net'["create"] = [net["create"] EXCEPT !.stage = "answered", !.got = {}]
          /\ srv' = [srv EXCEPT !.made = @ \cup {n}]
      BY <3>5 DEF OnDialogs!Handles, OnDialogs!Out
    <3>7. DOMAIN srv' = {"made", "before"} /\ srv'.before = srv.before /\ srv'.made = srv.made \cup {n}
      BY <3>6, <2>3 DEF DialogsRules
    <3>8. DOMAIN net'["create"] = DOMAIN net["create"] /\ net'["create"].stage = "answered"
      BY <3>6, <2>3 DEF DialogsRules
    <3>9. IsFiniteSet(srv'.made) /\ Cardinality(srv'.made \ srv'.before) = Cardinality(srv.made \ srv.before) + 1
      <4>1. IsFiniteSet(srv.made) /\ srv.before \subseteq srv.made
        BY <2>3 DEF DialogsRules
      <4>2. IsFiniteSet(srv.made \ srv.before) /\ n \notin srv.made \ srv.before
        BY <4>1, <3>5, FS_Subset
      <4>3. srv'.made \ srv'.before = (srv.made \ srv.before) \cup {n}
        BY <4>1, <3>5, <3>7
      <4>4. Cardinality((srv.made \ srv.before) \cup {n}) = Cardinality(srv.made \ srv.before) + 1
        BY <4>2, FS_AddElement
      <4>5. IsFiniteSet(srv.made \cup {n})
        BY <4>1, FS_AddElement
      <4> QED
        BY <3>7, <4>3, <4>4, <4>5
    <3> QED
      BY <2>1, <2>3, <3>6, <3>7, <3>8, <3>9 DEF DialogsRules, OnDialogs!MakesWhatItCounts, OnDialogs!Answered, OnDialogs!Out
  <2> QED
    BY <2>2, <2>3
<1>2. CASE OnDialogs!ImportBack \/ OnDialogs!ListBack
  <2>1. ui.dialog # "migrate"
    BY <1>2, <1>a DEF OnDialogs!ImportBack, OnDialogs!ListBack, DialogsRules
  <2>2. DOMAIN ui' = DOMAIN ui /\ ui'.dialog = ui.dialog
    BY <1>2 DEF OnDialogs!ImportBack, OnDialogs!ListBack, DialogsRules
  <2> QED
    BY <2>1, <2>2, DialogsRulesOther
<1>3. CASE OnDialogs!CreateBack
  <2>1. CASE ui.dialog # "migrate"
    <3>1. DOMAIN ui' = DOMAIN ui /\ ui'.dialog = ui.dialog
      BY <1>3 DEF OnDialogs!CreateBack, OnDialogs!Ask, DialogsRules
    <3> QED
      BY <2>1, <3>1, DialogsRulesOther
  <2>2. CASE ui.dialog = "migrate"
    <3>1. "create" \in DOMAIN net /\ DOMAIN net = {"create"} /\ ui.busy /\ ui.at = "designer" /\ srv' = srv /\ noise' = noise
      BY <1>3, <1>a, <2>2 DEF OnDialogs!CreateBack, DialogsRules
    <3> DEFINE u == IF OnDialogs!Answered("create") THEN [ui EXCEPT !.ok = @ + 1] ELSE [ui EXCEPT !.fail = @ + 1]
    <3>2. /\ DOMAIN u = DOMAIN ui /\ u.dialog = ui.dialog /\ u.busy = ui.busy /\ u.at = ui.at /\ u.open = ui.open
          /\ u.ok = IF OnDialogs!Answered("create") THEN ui.ok + 1 ELSE ui.ok
      BY DEF DialogsRules
    <3>3. "failure" \notin noise => Cardinality(srv.made \ srv.before) = u.ok
      BY <2>2, <3>2 DEF DialogsRules
    <3>4. u.ok \in Nat
      BY <2>2, <3>2 DEF DialogsRules
    <3>5. CASE u.plan # {}
      <4>1. OnDialogs!Ask(u, OnDialogs!Closed("create"))
        BY <1>3, <3>5 DEF OnDialogs!CreateBack
      <4>2. DOMAIN OnDialogs!Closed("create") = {} /\ u.busy = TRUE
        BY <1>b, <3>1, <3>2
      <4> HIDE DEF u
      <4> QED
        BY <2>2, <3>1, <3>2, <3>3, <3>4, <4>1, <4>2, DialogsRulesAsk
    <3>6. CASE u.plan = {}
      <4>1. /\ net' = OnDialogs!Closed("create")
            /\ ui' = IF u.ok > 0 THEN [u EXCEPT !.busy = FALSE, !.open = FALSE, !.at = "migrations"] ELSE [u EXCEPT !.busy = FALSE]
        BY <1>3, <3>6 DEF OnDialogs!CreateBack
      <4> HIDE DEF u
      <4>2. /\ DOMAIN ui' = DOMAIN ui /\ ui'.dialog = ui.dialog /\ ui'.busy = FALSE /\ ui'.ok = u.ok
            /\ u.ok = 0 => ui'.at = "designer"
            /\ u.ok # 0 => ui'.at = "migrations" /\ ui'.open = FALSE
        BY <4>1, <3>1, <3>2, <3>4 DEF DialogsRules
      <4>3. DOMAIN net' = {}
        BY <4>1, <3>1, <1>b
      <4>4. ~OnDialogs!Answered("create")' /\ ui'.ok \in Nat /\ ("failure" \notin noise' => Cardinality((srv.made \ srv.before)') = ui'.ok)
        BY <3>1, <3>3, <3>4, <4>2, <4>3 DEF OnDialogs!Answered, OnDialogs!Out
      <4>5. OnDialogs!MakesWhatItCounts'
        <5>1. ("failure" \notin noise' => Cardinality((srv.made \ srv.before)') = ui'.ok) /\ (Cardinality(srv.made \ srv.before))' = Cardinality((srv.made \ srv.before)')
          BY <4>4
        <5>2. ui'.at = IF ui'.ok > 0 THEN "migrations" ELSE "designer"
          BY <4>2, <4>4
        <5> QED
          BY <5>1, <5>2, DialogsCount DEF OnDialogs!MakesWhatItCounts
      <4>6. /\ DOMAIN srv = {"made", "before"} /\ srv.before \subseteq srv.made /\ IsFiniteSet(srv.made)
            /\ {"dialog", "open", "busy", "plan", "ok", "fail", "at"} \subseteq DOMAIN ui
        BY <2>2 DEF DialogsRules
      <4> QED
        BY <2>2, <3>1, <4>2, <4>3, <4>4, <4>5, <4>6 DEF DialogsRules
    <3> QED
      BY <3>5, <3>6
  <2> QED
    BY <2>1, <2>2
<1>4. ASSUME NEW c \in OnDialogs!Conns, OnDialogs!ListingBack(c) PROVE DialogsRules'
  BY <1>4, DialogsRulesOther DEF OnDialogs!ListingBack, DialogsRules
<1>5. ASSUME NEW t \in OnDialogs!Drawn, OnDialogs!ColumnsBack(t) PROVE DialogsRules'
  <2>1. ui.dialog # "migrate"
    BY <1>5, <1>a, DialogsNamed DEF OnDialogs!ColumnsBack, DialogsRules
  <2>2. PICK r : ui' = [ui EXCEPT !.plan = @ \ {t}, !.busy = ui.plan # {t}, !.report[t] = r]
    BY Zenon, <1>5 DEF OnDialogs!ColumnsBack
  <2>3. DOMAIN ui' = DOMAIN ui /\ ui'.dialog = ui.dialog
    BY <2>2 DEF DialogsRules
  <2> QED
    BY <2>1, <2>3, DialogsRulesOther
<1>6. CASE OnDialogs!Clicks
  <2>1. CASE OnDialogs!Close
    <3>1. /\ DOMAIN ui' = DOMAIN ui /\ ui'.dialog = ui.dialog /\ ui'.busy = ui.busy /\ ui'.ok = ui.ok /\ ui'.at = ui.at
          /\ ui'.open = FALSE /\ UNCHANGED <<srv, net, noise>>
      BY <2>1 DEF OnDialogs!Close, OnDialogs!Gesture, DialogsRules
    <3> QED
      BY <3>1, DialogsRulesFrame
  <2>2. CASE OnDialogs!Import \/ OnDialogs!Compare
    BY <2>2, DialogsRulesOther DEF OnDialogs!Import, OnDialogs!Compare, DialogsRules
  <2>3. CASE OnDialogs!CreateAll
    <3> DEFINE u == [ui EXCEPT !.busy = TRUE, !.plan = OnDialogs!Eligible(ui), !.ok = 0, !.fail = 0]
    <3>1. ui.dialog = "migrate" /\ ~ui.busy /\ ui.open /\ OnDialogs!Ask(u, net) /\ srv' = srv /\ noise' = noise
      BY <2>3 DEF OnDialogs!CreateAll, OnDialogs!Gesture
    <3>2. ui.ok = 0 /\ ui.at = "designer" /\ DOMAIN net = {}
      BY <3>1 DEF DialogsRules
    <3>3. DOMAIN u = DOMAIN ui /\ u.dialog = ui.dialog /\ u.busy = TRUE /\ u.at = "designer" /\ u.ok = 0
      BY <3>2 DEF DialogsRules
    <3>4. "failure" \notin noise => Cardinality(srv.made \ srv.before) = 0
      BY <3>1, <3>2 DEF DialogsRules, OnDialogs!Answered, OnDialogs!Out
    <3>5. u.ok \in Nat /\ DOMAIN net \subseteq {"create"}
      BY <3>2, <3>3
    <3> HIDE DEF u
    <3> QED
      BY <3>1, <3>2, <3>3, <3>4, <3>5, DialogsRulesAsk
  <2>4. ASSUME NEW c, OnDialogs!PickSource(c) PROVE DialogsRules'
    BY <2>4, DialogsRulesOther DEF OnDialogs!PickSource, DialogsRules
  <2>5. ASSUME NEW c, OnDialogs!PickTarget(c) PROVE DialogsRules'
    <3>1. /\ DOMAIN ui' = DOMAIN ui /\ ui'.dialog = ui.dialog /\ ui'.busy = ui.busy /\ ui'.ok = ui.ok /\ ui'.at = ui.at
          /\ ui'.open = ui.open /\ UNCHANGED <<srv, net>>
      BY <2>5 DEF OnDialogs!PickTarget, OnDialogs!Gesture, DialogsRules
    <3>2. "failure" \in noise => "failure" \in noise'
      BY <2>5 DEF OnDialogs!PickTarget
    <3> QED
      BY <3>1, <3>2, DialogsRulesFrame
  <2>6. ASSUME NEW t, OnDialogs!Choose(t) PROVE DialogsRules'
    <3>1. /\ DOMAIN ui' = DOMAIN ui /\ ui'.dialog = ui.dialog /\ ui'.busy = ui.busy /\ ui'.ok = ui.ok /\ ui'.at = ui.at
          /\ ui'.open = ui.open /\ UNCHANGED <<srv, net, noise>>
      BY <2>6 DEF OnDialogs!Choose, OnDialogs!Gesture, DialogsRules
    <3> QED
      BY <3>1, DialogsRulesFrame
  <2>7. ASSUME NEW s, OnDialogs!PickStrategy(s) PROVE DialogsRules'
    <3>1. /\ DOMAIN ui' = DOMAIN ui /\ ui'.dialog = ui.dialog /\ ui'.busy = ui.busy /\ ui'.ok = ui.ok /\ ui'.at = ui.at
          /\ ui'.open = ui.open /\ UNCHANGED <<srv, net, noise>>
      BY <2>7 DEF OnDialogs!PickStrategy, OnDialogs!Gesture, DialogsRules
    <3> QED
      BY <3>1, DialogsRulesFrame
  <2> QED
    BY <1>6, <2>1, <2>2, <2>3, <2>4, <2>5, <2>6, <2>7 DEF OnDialogs!Clicks
<1>7. CASE /\ OnDialogs!Refuse /\ net' = [net EXCEPT !["create"].stage = "failed"]
           /\ UNCHANGED <<ui, srv, clicks, noise>>
  <2>1. CASE ui.dialog # "migrate"
    BY <1>7, <2>1, DialogsRulesOther
  <2>2. CASE ui.dialog = "migrate"
    <3>1. "create" \in DOMAIN net /\ ~OnDialogs!Answered("create") /\ UNCHANGED <<ui, srv, noise>>
      BY <1>7 DEF OnDialogs!Refuse, OnDialogs!Out, OnDialogs!Answered
    <3>2. DOMAIN net' = DOMAIN net /\ DOMAIN net'["create"] = DOMAIN net["create"] /\ net'["create"].stage = "failed"
      BY <1>7, <2>2, <3>1 DEF DialogsRules
    <3> QED
      BY <2>2, <3>1, <3>2 DEF DialogsRules, OnDialogs!MakesWhatItCounts, OnDialogs!Answered, OnDialogs!Out
  <2> QED
    BY <2>1, <2>2
<1>8. ASSUME NEW k \in DOMAIN net, OnDialogs!Spoils(k) PROVE DialogsRules'
  <2>1. UNCHANGED <<ui, srv>> /\ DOMAIN net' = DOMAIN net /\ "failure" \in noise'
    BY <1>8 DEF OnDialogs!Spoils, OnDialogs!Fails
  <2>2. CASE ui.dialog # "migrate"
    BY <2>1, <2>2, DialogsRulesOther
  <2>3. CASE ui.dialog = "migrate"
    <3>1. k = "create" /\ net' = [net EXCEPT ![k].stage = "failed", ![k].got = "nothing"]
      BY <1>8, <2>3 DEF OnDialogs!Spoils, OnDialogs!Fails, DialogsRules
    <3>2. DOMAIN net'["create"] = DOMAIN net["create"]
      BY <3>1
    <3> QED
      BY <2>1, <2>3, <3>2 DEF DialogsRules, OnDialogs!MakesWhatItCounts
  <2> QED
    BY <2>2, <2>3
<1> QED
  BY <1>1, <1>2, <1>3, <1>4, <1>5, <1>6, <1>7, <1>8 DEF OnDialogs!Next, OnDialogs!Returns

(* What it shows *)

DialogsFields ==
  {"dialog", "open", "conn", "tables", "busy", "chosen", "drawn", "report", "of", "strategy", "plan", "ok", "fail", "at"}

\* Types; only an import draws tables.
DialogsTypes ==
  /\ DialogsFields \subseteq DOMAIN ui /\ "made" \in DOMAIN srv /\ OnDialogs!TypeOK
  /\ ui.dialog = "migrate" => ui.chosen \subseteq OnDialogs!Drawn
  /\ ui.dialog # "import" => ui.drawn = OnDialogs!NoReport
  /\ \A k \in DOMAIN net : DOMAIN net[k] = {"arg", "stage", "got"}
  /\ "create" \in DOMAIN net => net["create"].arg \in OnDialogs!Drawn

\* The columns a connection gives of the tables asked.
ColumnsOf(arg) ==
  OnDialogs!Restrict(OnDialogs!Db(arg.conn), DOMAIN OnDialogs!Db(arg.conn) \cap arg.tables)

\* What an import shows, chooses and asks for is of one connection.
ImportGood ==
  /\ \A c \in OnDialogs!Conns : OnDialogs!Listing(c) \in DOMAIN net =>
       /\ ui.conn = c /\ ui.tables = OnDialogs!Unread /\ net[OnDialogs!Listing(c)].stage # "failed"
       /\ net[OnDialogs!Listing(c)].stage = "answered" => net[OnDialogs!Listing(c)].got = DOMAIN OnDialogs!Db(c)
  /\ ui.tables # OnDialogs!Unread => ui.conn \in OnDialogs!Conns /\ ui.tables = DOMAIN OnDialogs!Db(ui.conn)
  /\ ui.chosen # {} => ui.tables # OnDialogs!Unread /\ ui.chosen \subseteq ui.tables
  /\ "columns" \in DOMAIN net =>
       /\ net["columns"].stage # "failed" /\ net["columns"].arg.conn \in OnDialogs!Conns
       /\ net["columns"].arg.tables \subseteq DOMAIN OnDialogs!Db(net["columns"].arg.conn)
       /\ net["columns"].stage = "answered" => net["columns"].got = ColumnsOf(net["columns"].arg)
  /\ ui.drawn # OnDialogs!NoReport =>
       \E c \in OnDialogs!Conns : \A t \in DOMAIN ui.drawn : t \in DOMAIN OnDialogs!Db(c) /\ ui.drawn[t] = OnDialogs!Db(c)[t]

\* A report says of the tables that are done what the database has.
Verdict(c, t) ==
  IF t \notin DOMAIN OnDialogs!Db(c) THEN "missing" ELSE IF OnDialogs!Db(c)[t] = t THEN "ok" ELSE "diff"
VerifyGood ==
  /\ "list" \in DOMAIN net =>
       /\ net["list"].arg = ui.of /\ net["list"].stage # "failed"
       /\ net["list"].stage = "answered" => net["list"].got = DOMAIN OnDialogs!Db(ui.of)
  /\ \A t \in ui.plan : OnDialogs!Columns(t) \in DOMAIN net =>
       /\ t \in DOMAIN OnDialogs!Db(ui.of) /\ net[OnDialogs!Columns(t)].stage # "failed"
       /\ net[OnDialogs!Columns(t)].stage = "answered" => net[OnDialogs!Columns(t)].got = OnDialogs!Db(ui.of)[t]
  /\ ui.report # OnDialogs!NoReport =>
       DOMAIN ui.report = OnDialogs!Drawn /\ \A t \in OnDialogs!Drawn \ ui.plan : ui.report[t] = Verdict(ui.of, t)
  /\ ui.report = OnDialogs!NoReport => ui.plan = {}

DialogsShow ==
  /\ DialogsSpins /\ DialogsTypes
  /\ ui.dialog = "import" /\ noise \cap {"overlap", "failure"} = {} => ImportGood
  /\ ui.dialog = "verify" /\ "failure" \notin noise => VerifyGood

\* It holds when a dialog opens.
LEMMA DialogsShowInit == OnDialogs!Init => DialogsShow
<1> SUFFICES ASSUME OnDialogs!Init PROVE DialogsShow
  OBVIOUS
<1>1. PICK d \in OnDialogs!Dialogs, made \in SUBSET {"b"} :
        /\ ui = [dialog |-> d, open |-> TRUE, conn |-> OnDialogs!None, tables |-> OnDialogs!Unread, busy |-> FALSE,
                 chosen |-> IF d = "migrate" THEN OnDialogs!Drawn ELSE {}, drawn |-> OnDialogs!NoReport,
                 report |-> OnDialogs!NoReport, of |-> OnDialogs!None, strategy |-> "snapshot", plan |-> {}, ok |-> 0,
                 fail |-> 0, at |-> "designer"]
        /\ srv = [made |-> made, before |-> made]
  BY Zenon DEF OnDialogs!Init
<1>2. DOMAIN net = {}
  BY DEF OnDialogs!Init
<1> DEFINE chosen == IF d = "migrate" THEN OnDialogs!Drawn ELSE {}
<1>3. /\ DialogsFields \subseteq DOMAIN ui /\ ui.dialog = d /\ ui.conn = OnDialogs!None /\ ui.tables = OnDialogs!Unread
      /\ ui.chosen = chosen /\ ui.drawn = OnDialogs!NoReport /\ ui.report = OnDialogs!NoReport /\ ui.plan = {} /\ ui.at = "designer"
  BY <1>1 DEF DialogsFields
<1>4. "made" \in DOMAIN srv /\ srv.made \subseteq {"b"}
  BY <1>1
<1>5. DialogsTypes
  BY <1>2, <1>3, <1>4 DEF DialogsTypes, OnDialogs!TypeOK, OnDialogs!Drawn
<1>6. d # "migrate" => ui.chosen = {}
  BY <1>3
<1> QED
  BY <1>2, <1>3, <1>5, <1>6, DialogsInit DEF DialogsShow, ImportGood, VerifyGood

\* What the page's helpers do to the requests.
LEMMA DialogsNet ==
  /\ \A requests, k, arg : Sends(requests, OnDialogs!With(requests, k, arg), k) /\ OnDialogs!With(requests, k, arg)[k].arg = arg
  /\ \A k \in DOMAIN net : Closes(net, OnDialogs!Closed(k), k)
  /\ \A k : OnDialogs!Returned(k) => k \in DOMAIN net
  /\ \A k, state, answer : DialogsTypes /\ OnDialogs!Handles(k, state, answer) =>
       /\ Turns(net, net', k) /\ net'[k].arg = net[k].arg /\ net'[k].stage = "answered" /\ net'[k].got = answer
       /\ srv' = state /\ ui' = ui /\ noise' = noise
<1>1. ASSUME NEW requests, NEW k, NEW arg
      PROVE  Sends(requests, OnDialogs!With(requests, k, arg), k) /\ OnDialogs!With(requests, k, arg)[k].arg = arg
  <2>1. Sends(requests, OnDialogs!With(requests, k, arg), k)
    BY DEF Sends, OnDialogs!With
  <2>2. OnDialogs!With(requests, k, arg)[k].arg = arg
    BY DEF OnDialogs!With
  <2> QED
    BY <2>1, <2>2
<1>2. \A k \in DOMAIN net : Closes(net, OnDialogs!Closed(k), k)
  BY DEF Closes, OnDialogs!Closed, OnDialogs!Without, OnDialogs!Restrict
<1>3. \A k : OnDialogs!Returned(k) => k \in DOMAIN net
  BY DEF OnDialogs!Returned, OnDialogs!Answered, OnDialogs!Rejected, OnDialogs!Out
<1>4. ASSUME NEW k, NEW state, NEW answer, DialogsTypes, OnDialogs!Handles(k, state, answer)
      PROVE  /\ Turns(net, net', k) /\ net'[k].arg = net[k].arg /\ net'[k].stage = "answered" /\ net'[k].got = answer
             /\ srv' = state /\ ui' = ui /\ noise' = noise
  BY <1>4 DEF Turns, OnDialogs!Handles, OnDialogs!Out, DialogsTypes
<1> QED
  BY <1>1, <1>2, <1>3, <1>4

\* Only the dialog it belongs to waits for a request.
LEMMA DialogsOwn ==
  ASSUME DialogsSpins
  PROVE  /\ ui.dialog \in {"import", "verify", "migrate"}
         /\ "columns" \in DOMAIN net => ui.dialog = "import"
         /\ "list" \in DOMAIN net => ui.dialog = "verify"
         /\ "create" \in DOMAIN net => ui.dialog = "migrate"
         /\ \A c \in OnDialogs!Conns : OnDialogs!Listing(c) \in DOMAIN net => ui.dialog = "import"
         /\ \A t \in OnDialogs!Drawn : OnDialogs!Columns(t) \in DOMAIN net => ui.dialog = "verify" /\ t \in ui.plan /\ "list" \notin DOMAIN net
  BY DialogsNamed DEF DialogsSpins, OnDialogs!Dialogs

\* Every step keeps the types.
LEMMA DialogsTypesStep == DialogsSpins /\ DialogsTypes /\ OnDialogs!Next => DialogsTypes'
<1> SUFFICES ASSUME DialogsSpins, DialogsTypes, OnDialogs!Next PROVE DialogsTypes'
  OBVIOUS
<1>0. /\ DialogsFields \subseteq DOMAIN ui /\ "made" \in DOMAIN srv /\ OnDialogs!TypeOK
      /\ ui.dialog = "migrate" => ui.chosen \subseteq OnDialogs!Drawn
      /\ ui.dialog # "import" => ui.drawn = OnDialogs!NoReport
      /\ \A k \in DOMAIN net : DOMAIN net[k] = {"arg", "stage", "got"}
      /\ "create" \in DOMAIN net => net["create"].arg \in OnDialogs!Drawn
  BY DEF DialogsTypes
<1> USE DEF DialogsFields, OnDialogs!TypeOK, OnDialogs!Is
\* What the page remembers keeps its types, and so do the requests.
<1>p. ASSUME DOMAIN ui' = DOMAIN ui, ui'.dialog = ui.dialog, ui'.conn \in OnDialogs!Conns \cup {OnDialogs!None},
             ui'.chosen \subseteq OnDialogs!Drawn \cup {"d"}, ui.dialog = "migrate" => ui'.chosen \subseteq OnDialogs!Drawn,
             ui'.plan \subseteq OnDialogs!Drawn, ui'.at \in {"designer", "migrations"},
             ui.dialog # "import" => ui'.drawn = OnDialogs!NoReport, srv' = srv,
             \A k \in DOMAIN net' : DOMAIN net'[k] = {"arg", "stage", "got"},
             "create" \in DOMAIN net' => net'["create"].arg \in OnDialogs!Drawn
      PROVE  DialogsTypes'
  BY <1>0, <1>p DEF DialogsTypes
<1>c. ASSUME NEW k \in DOMAIN net PROVE
        /\ \A j \in DOMAIN OnDialogs!Closed(k) : DOMAIN OnDialogs!Closed(k)[j] = {"arg", "stage", "got"}
        /\ "create" \in DOMAIN OnDialogs!Closed(k) => OnDialogs!Closed(k)["create"].arg \in OnDialogs!Drawn
  BY <1>0, DialogsNet DEF Closes
<1>s. ASSUME NEW requests, NEW k, NEW arg, \A j \in DOMAIN requests : DOMAIN requests[j] = {"arg", "stage", "got"},
             "create" \in DOMAIN requests => requests["create"].arg \in OnDialogs!Drawn, k = "create" => arg \in OnDialogs!Drawn
      PROVE  LET all == OnDialogs!With(requests, k, arg)
             IN  /\ \A j \in DOMAIN all : DOMAIN all[j] = {"arg", "stage", "got"}
                 /\ "create" \in DOMAIN all => all["create"].arg \in OnDialogs!Drawn
  <2> DEFINE all == OnDialogs!With(requests, k, arg)
  <2>1. Sends(requests, all, k) /\ all[k].arg = arg
    BY DialogsNet
  <2> HIDE DEF all
  <2>2. /\ \A j \in DOMAIN all : DOMAIN all[j] = {"arg", "stage", "got"}
        /\ "create" \in DOMAIN all => all["create"].arg \in OnDialogs!Drawn
    BY <1>s, <2>1 DEF Sends
  <2> QED
    BY <2>2 DEF all
<1>1. CASE OnDialogs!Serve
  <2>1. ASSUME NEW k, NEW state, NEW answer, OnDialogs!Handles(k, state, answer),
               "made" \in DOMAIN state, state.made \subseteq OnDialogs!Drawn
        PROVE  DialogsTypes'
    <3>1. Turns(net, net', k) /\ net'[k].arg = net[k].arg /\ srv' = state /\ ui' = ui
      BY <2>1, DialogsNet
    <3> QED
      BY <1>0, <2>1, <3>1 DEF Turns, DialogsTypes
  <2>2. "made" \in DOMAIN srv /\ srv.made \subseteq OnDialogs!Drawn
    BY <1>0
  <2>3. CASE OnDialogs!Out("create") /\ OnDialogs!Handles("create", [srv EXCEPT !.made = @ \cup {OnDialogs!NameOf(net["create"].arg)}], {})
    <3> DEFINE state == [srv EXCEPT !.made = @ \cup {OnDialogs!NameOf(net["create"].arg)}]
    <3>1. OnDialogs!NameOf(net["create"].arg) \in OnDialogs!Drawn
      BY <1>0, <2>3 DEF OnDialogs!Out, OnDialogs!NameOf, OnDialogs!Drawn
    <3>2. "made" \in DOMAIN state /\ state.made \subseteq OnDialogs!Drawn /\ OnDialogs!Handles("create", state, {})
      BY <2>2, <2>3, <3>1
    <3> HIDE DEF state
    <3> QED
      BY <2>1, <3>2
  <2> QED
    BY <1>1, <2>1, <2>2, <2>3, Zenon DEF OnDialogs!Serve
<1>2. CASE OnDialogs!ImportBack
  <2>1. "columns" \in DOMAIN net /\ net' = OnDialogs!Closed("columns") /\ srv' = srv
    BY <1>2, DialogsNet DEF OnDialogs!ImportBack
  <2>2. PICK drawing_ : ui' = [ui EXCEPT !.busy = FALSE, !.open = FALSE, !.drawn = drawing_]
    BY <1>2 DEF OnDialogs!ImportBack
  <2>3. /\ DOMAIN ui' = DOMAIN ui /\ ui'.dialog = ui.dialog /\ ui'.conn = ui.conn /\ ui'.chosen = ui.chosen
        /\ ui'.plan = ui.plan /\ ui'.at = ui.at
    BY <1>0, <2>2
  <2> QED
    BY <1>0, <1>c, <1>p, <2>1, <2>3, DialogsOwn
<1>3. CASE OnDialogs!ListBack
  <2> DEFINE there == IF OnDialogs!Answered("list") THEN OnDialogs!Drawn \cap net["list"].got ELSE {}
             asked == {OnDialogs!Columns(t) : t \in there}
             report == IF OnDialogs!Answered("list") THEN [t \in OnDialogs!Drawn |-> IF t \in there THEN "?" ELSE "missing"] ELSE OnDialogs!NoReport
  <2>1. /\ "list" \in DOMAIN net /\ srv' = srv
        /\ net' = [k \in asked \cup DOMAIN OnDialogs!Closed("list") |->
                     IF k \in asked THEN [arg |-> CHOOSE t \in there : k = OnDialogs!Columns(t), stage |-> "sent", got |-> "nothing"]
                     ELSE net[k]]
        /\ ui' = [ui EXCEPT !.busy = there # {}, !.plan = there, !.report = report]
    BY <1>3, DialogsNet, Zenon DEF OnDialogs!ListBack
  <2>2. there \subseteq OnDialogs!Drawn
    OBVIOUS
  <2>3. "create" \notin asked
    BY <2>2, DialogsNamed
  <2> HIDE DEF asked, there, report
  <2>4. \A k \in DOMAIN net' : DOMAIN net'[k] = {"arg", "stage", "got"}
    BY <1>0, <2>1, DialogsNet DEF Closes
  <2>5. "create" \notin DOMAIN net'
    BY <2>1, <2>3, DialogsOwn, DialogsNet DEF Closes
  <2>6. /\ DOMAIN ui' = DOMAIN ui /\ ui'.dialog = ui.dialog /\ ui'.conn = ui.conn /\ ui'.chosen = ui.chosen
        /\ ui'.plan = there /\ ui'.at = ui.at /\ ui'.drawn = ui.drawn
    BY <1>0, <2>1
  <2> QED
    BY <1>0, <1>p, <2>1, <2>2, <2>4, <2>5, <2>6
<1>4. ASSUME NEW u, NEW requests, OnDialogs!Ask(u, requests), DOMAIN u = DOMAIN ui, u.dialog = ui.dialog, u.conn = ui.conn,
             u.chosen = ui.chosen, u.plan \subseteq OnDialogs!Drawn, u.at = ui.at, u.drawn = ui.drawn, srv' = srv,
             \A j \in DOMAIN requests : DOMAIN requests[j] = {"arg", "stage", "got"},
             "create" \in DOMAIN requests => requests["create"].arg \in OnDialogs!Drawn
      PROVE  DialogsTypes'
  <2>1. PICK t \in u.plan : ui' = [u EXCEPT !.plan = @ \ {t}] /\ net' = OnDialogs!With(requests, "create", t)
    BY <1>4 DEF OnDialogs!Ask
  <2>2. /\ DOMAIN ui' = DOMAIN ui /\ ui'.dialog = ui.dialog /\ ui'.conn = ui.conn /\ ui'.chosen = ui.chosen
        /\ ui'.plan \subseteq OnDialogs!Drawn /\ ui'.at = ui.at /\ ui'.drawn = ui.drawn
    BY <1>0, <1>4, <2>1
  <2>3. t \in OnDialogs!Drawn
    BY <1>4
  <2>4. /\ \A j \in DOMAIN net' : DOMAIN net'[j] = {"arg", "stage", "got"}
        /\ "create" \in DOMAIN net' => net'["create"].arg \in OnDialogs!Drawn
    BY <1>4, <1>s, <2>1, <2>3
  <2> QED
    BY <1>0, <1>4, <1>p, <2>2, <2>4
<1>5. CASE OnDialogs!CreateBack
  <2> DEFINE u == IF OnDialogs!Answered("create") THEN [ui EXCEPT !.ok = @ + 1] ELSE [ui EXCEPT !.fail = @ + 1]
  <2>1. /\ "create" \in DOMAIN net /\ srv' = srv
        /\ IF u.plan # {} THEN OnDialogs!Ask(u, OnDialogs!Closed("create"))
           ELSE /\ net' = OnDialogs!Closed("create")
                /\ ui' = IF u.ok > 0 THEN [u EXCEPT !.busy = FALSE, !.open = FALSE, !.at = "migrations"] ELSE [u EXCEPT !.busy = FALSE]
    BY <1>5, DialogsNet DEF OnDialogs!CreateBack
  <2>2. /\ DOMAIN u = DOMAIN ui /\ u.dialog = ui.dialog /\ u.conn = ui.conn /\ u.chosen = ui.chosen /\ u.plan = ui.plan
        /\ u.at = ui.at /\ u.drawn = ui.drawn
    BY <1>0
  <2> HIDE DEF u
  <2>3. CASE u.plan # {}
    BY <1>0, <1>4, <1>c, <2>1, <2>2, <2>3
  <2>4. CASE u.plan = {}
    <3>1. /\ DOMAIN ui' = DOMAIN ui /\ ui'.dialog = ui.dialog /\ ui'.conn = ui.conn /\ ui'.chosen = ui.chosen
          /\ ui'.plan = ui.plan /\ ui'.at \in {ui.at, "migrations"} /\ ui'.drawn = ui.drawn /\ net' = OnDialogs!Closed("create")
      BY <1>0, <2>1, <2>2, <2>4
    <3> QED
      BY <1>0, <1>c, <1>p, <2>1, <3>1
  <2> QED
    BY <2>3, <2>4
<1>6. ASSUME NEW c \in OnDialogs!Conns, OnDialogs!ListingBack(c) PROVE DialogsTypes'
  <2>1. OnDialogs!Listing(c) \in DOMAIN net /\ net' = OnDialogs!Closed(OnDialogs!Listing(c)) /\ srv' = srv
    BY <1>6, DialogsNet DEF OnDialogs!ListingBack
  <2>2. /\ DOMAIN ui' = DOMAIN ui /\ ui'.dialog = ui.dialog /\ ui'.conn = ui.conn /\ ui'.chosen = ui.chosen
        /\ ui'.plan = ui.plan /\ ui'.at = ui.at /\ ui'.drawn = ui.drawn
    BY <1>0, <1>6 DEF OnDialogs!ListingBack
  <2> QED
    BY <1>0, <1>c, <1>p, <2>1, <2>2
<1>7. ASSUME NEW t \in OnDialogs!Drawn, OnDialogs!ColumnsBack(t) PROVE DialogsTypes'
  <2>1. OnDialogs!Columns(t) \in DOMAIN net /\ net' = OnDialogs!Closed(OnDialogs!Columns(t)) /\ srv' = srv
    BY <1>7, DialogsNet DEF OnDialogs!ColumnsBack
  <2>2. /\ DOMAIN ui' = DOMAIN ui /\ ui'.dialog = ui.dialog /\ ui'.conn = ui.conn /\ ui'.chosen = ui.chosen
        /\ ui'.plan \subseteq ui.plan /\ ui'.at = ui.at /\ ui'.drawn = ui.drawn
    BY <1>0, <1>7 DEF OnDialogs!ColumnsBack
  <2> QED
    BY <1>0, <1>c, <1>p, <2>1, <2>2
<1>8. CASE OnDialogs!Clicks
  <2> USE DEF OnDialogs!Gesture
  <2>1. CASE OnDialogs!Close \/ \E s \in {"snapshot", "append", "mirror"} : OnDialogs!PickStrategy(s)
    <3>1. /\ DOMAIN ui' = DOMAIN ui /\ ui'.dialog = ui.dialog /\ ui'.conn = ui.conn /\ ui'.chosen = ui.chosen
          /\ ui'.plan = ui.plan /\ ui'.at = ui.at /\ ui'.drawn = ui.drawn /\ net' = net /\ srv' = srv
      BY <1>0, <2>1 DEF OnDialogs!Close, OnDialogs!PickStrategy
    <3> QED
      BY <1>0, <1>p, <3>1
  <2>2. CASE OnDialogs!Import
    <3>1. /\ DOMAIN ui' = DOMAIN ui /\ ui'.dialog = ui.dialog /\ ui'.conn = ui.conn /\ ui'.chosen = ui.chosen
          /\ ui'.plan = ui.plan /\ ui'.at = ui.at /\ ui'.drawn = ui.drawn /\ srv' = srv
          /\ \E arg : net' = OnDialogs!With(net, "columns", arg)
      BY <1>0, <2>2 DEF OnDialogs!Import, OnDialogs!Sent
    <3>2. /\ \A j \in DOMAIN net' : DOMAIN net'[j] = {"arg", "stage", "got"}
          /\ "create" \in DOMAIN net' => net'["create"].arg \in OnDialogs!Drawn
      BY <1>0, <1>s, <3>1
    <3> QED
      BY <1>0, <1>p, <3>1, <3>2
  <2>3. CASE OnDialogs!Compare
    <3>1. /\ DOMAIN ui' = DOMAIN ui /\ ui'.dialog = ui.dialog /\ ui'.conn = ui.conn /\ ui'.chosen = ui.chosen
          /\ ui'.plan = ui.plan /\ ui'.at = ui.at /\ ui'.drawn = ui.drawn /\ srv' = srv
          /\ net' = OnDialogs!With(net, "list", ui.conn)
      BY <1>0, <2>3 DEF OnDialogs!Compare, OnDialogs!Sent
    <3>2. /\ \A j \in DOMAIN net' : DOMAIN net'[j] = {"arg", "stage", "got"}
          /\ "create" \in DOMAIN net' => net'["create"].arg \in OnDialogs!Drawn
      BY <1>0, <1>s, <3>1
    <3> QED
      BY <1>0, <1>p, <3>1, <3>2
  <2>4. CASE OnDialogs!CreateAll
    <3> DEFINE u == [ui EXCEPT !.busy = TRUE, !.plan = OnDialogs!Eligible(ui), !.ok = 0, !.fail = 0]
    <3>1. OnDialogs!Ask(u, net) /\ srv' = srv /\ ui.dialog = "migrate"
      BY <2>4 DEF OnDialogs!CreateAll
    <3>2. OnDialogs!Eligible(ui) \subseteq OnDialogs!Drawn
      BY <1>0, <3>1 DEF OnDialogs!Eligible
    <3>3. /\ DOMAIN u = DOMAIN ui /\ u.dialog = ui.dialog /\ u.conn = ui.conn /\ u.chosen = ui.chosen
          /\ u.plan = OnDialogs!Eligible(ui) /\ u.at = ui.at /\ u.drawn = ui.drawn
      BY <1>0
    <3> HIDE DEF u
    <3> QED
      BY <1>0, <1>4, <3>1, <3>2, <3>3
  <2>5. ASSUME NEW c \in OnDialogs!Conns \cup {OnDialogs!None}, OnDialogs!PickSource(c) PROVE DialogsTypes'
    <3>1. /\ DOMAIN ui' = DOMAIN ui /\ ui'.dialog = ui.dialog /\ ui'.conn = c /\ ui'.chosen = {} /\ ui.dialog = "import"
          /\ ui'.plan = ui.plan /\ ui'.at = ui.at /\ ui'.drawn = ui.drawn /\ srv' = srv
          /\ net' = IF c = OnDialogs!None THEN net ELSE OnDialogs!With(net, OnDialogs!Listing(c), c)
      BY <1>0, <2>5 DEF OnDialogs!PickSource, OnDialogs!Sent
    <3>2. /\ \A j \in DOMAIN net' : DOMAIN net'[j] = {"arg", "stage", "got"}
          /\ "create" \in DOMAIN net' => net'["create"].arg \in OnDialogs!Drawn
      <4>1. CASE c = OnDialogs!None
        BY <1>0, <3>1, <4>1
      <4>2. CASE c # OnDialogs!None
        <5>1. OnDialogs!Listing(c) # "create"
          BY <4>2, DialogsNamed
        <5> QED
          BY <1>0, <1>s, <3>1, <4>2, <5>1
      <4> QED
        BY <4>1, <4>2
    <3> QED
      BY <1>0, <1>p, <3>1, <3>2
  <2>6. ASSUME NEW c \in OnDialogs!Conns \cup {OnDialogs!None}, OnDialogs!PickTarget(c) PROVE DialogsTypes'
    <3>1. /\ DOMAIN ui' = DOMAIN ui /\ ui'.dialog = ui.dialog /\ ui'.conn = c /\ ui'.chosen = ui.chosen
          /\ ui'.plan = ui.plan /\ ui'.at = ui.at /\ ui'.drawn = ui.drawn /\ srv' = srv /\ net' = net
      BY <1>0, <2>6 DEF OnDialogs!PickTarget
    <3> QED
      BY <1>0, <1>p, <3>1
  <2>7. ASSUME NEW t \in OnDialogs!Drawn \cup {"d"}, OnDialogs!Choose(t) PROVE DialogsTypes'
    <3>1. /\ DOMAIN ui' = DOMAIN ui /\ ui'.dialog = ui.dialog /\ ui'.conn = ui.conn /\ ui'.chosen \subseteq ui.chosen \cup {t}
          /\ ui'.plan = ui.plan /\ ui'.at = ui.at /\ ui'.drawn = ui.drawn /\ srv' = srv /\ net' = net
          /\ ui.dialog = "import" \/ t \in OnDialogs!Drawn
      BY <1>0, <2>7 DEF OnDialogs!Choose
    <3> QED
      BY <1>0, <1>p, <3>1
  <2> QED
    BY <1>8, <2>1, <2>2, <2>3, <2>4, <2>5, <2>6, <2>7 DEF OnDialogs!Clicks
<1>9. ASSUME NEW k \in DOMAIN net, ui' = ui, srv' = srv, DOMAIN net' = DOMAIN net, \A j \in DOMAIN net : j # k => net'[j] = net[j],
             DOMAIN net'[k] = DOMAIN net[k], net'[k].arg = net[k].arg
      PROVE  DialogsTypes'
  BY <1>0, <1>9 DEF DialogsTypes
<1>10. ASSUME OnDialogs!Refuse, net' = [net EXCEPT !["create"].stage = "failed"], UNCHANGED <<ui, srv, clicks, noise>> PROVE DialogsTypes'
  <2>1. "create" \in DOMAIN net
    BY <1>10 DEF OnDialogs!Refuse, OnDialogs!Out
  <2>2. /\ DOMAIN net' = DOMAIN net /\ DOMAIN net'["create"] = DOMAIN net["create"] /\ net'["create"].arg = net["create"].arg
        /\ \A j \in DOMAIN net : j # "create" => net'[j] = net[j]
    BY <1>0, <1>10, <2>1
  <2> QED
    BY <1>9, <1>10, <2>1, <2>2
<1>11. ASSUME NEW k \in DOMAIN net, OnDialogs!Spoils(k) PROVE DialogsTypes'
  <2>1. ui' = ui /\ srv' = srv /\ net' = [net EXCEPT ![k].stage = "failed", ![k].got = "nothing"]
    BY <1>11 DEF OnDialogs!Spoils, OnDialogs!Fails
  <2>2. /\ DOMAIN net' = DOMAIN net /\ DOMAIN net'[k] = DOMAIN net[k] /\ net'[k].arg = net[k].arg
        /\ \A j \in DOMAIN net : j # k => net'[j] = net[j]
    BY <1>0, <2>1
  <2> QED
    BY <1>9, <2>1, <2>2
<1> QED
  BY <1>1, <1>2, <1>3, <1>5, <1>6, <1>7, <1>8, <1>10, <1>11 DEF OnDialogs!Next, OnDialogs!Returns

\* The tables of each connection are listed by a request of their own.
LEMMA ListingsDiffer == \A c, d \in OnDialogs!Conns : OnDialogs!Listing(c) = OnDialogs!Listing(d) => c = d
<1>0. Distinct({"tables"}, OnDialogs!Conns, {"columns", "list", "create"})
  BY NamesAssumption
<1> QED
  BY <1>0 DEF Distinct, OnDialogs!Listing, OnDialogs!Named

\* The dialog does not change; what excuses what it shows stays.
LEMMA DialogsStay ==
  ASSUME DialogsSpins, DialogsTypes, OnDialogs!Next
  PROVE  /\ ui'.dialog = ui.dialog
         /\ "overlap" \in noise => "overlap" \in noise'
         /\ "failure" \in noise => "failure" \in noise'
<1>0. DialogsFields \subseteq DOMAIN ui
  BY DEF DialogsTypes
<1> USE DEF DialogsFields
<1>1. CASE OnDialogs!Serve
  <2>1. \A k, s, a : OnDialogs!Handles(k, s, a) => ui' = ui /\ noise' = noise
    BY DEF OnDialogs!Handles
  <2>2. ui' = ui /\ noise' = noise
    BY Zenon, <1>1, <2>1 DEF OnDialogs!Serve
  <2> QED
    BY <2>2
<1>2. CASE OnDialogs!ImportBack
  <2>1. noise' = noise /\ \E drawing_ : ui' = [ui EXCEPT !.busy = FALSE, !.open = FALSE, !.drawn = drawing_]
    BY <1>2 DEF OnDialogs!ImportBack
  <2> QED
    BY <1>0, <2>1
<1>3. CASE OnDialogs!ListBack
  <2>1. noise' = noise /\ \E busy, plan, report : ui' = [ui EXCEPT !.busy = busy, !.plan = plan, !.report = report]
    BY <1>3, Zenon DEF OnDialogs!ListBack
  <2> QED
    BY <1>0, <2>1
<1>a. ASSUME NEW u, NEW requests, OnDialogs!Ask(u, requests), u.dialog = ui.dialog, DOMAIN u = DOMAIN ui PROVE ui'.dialog = ui.dialog
  BY <1>0, <1>a DEF OnDialogs!Ask
<1>4. CASE OnDialogs!CreateBack
  <2> DEFINE u == IF OnDialogs!Answered("create") THEN [ui EXCEPT !.ok = @ + 1] ELSE [ui EXCEPT !.fail = @ + 1]
  <2>1. /\ noise' = noise
        /\ \/ OnDialogs!Ask(u, OnDialogs!Closed("create"))
           \/ ui' = IF u.ok > 0 THEN [u EXCEPT !.busy = FALSE, !.open = FALSE, !.at = "migrations"] ELSE [u EXCEPT !.busy = FALSE]
    BY <1>4 DEF OnDialogs!CreateBack
  <2>2. DOMAIN u = DOMAIN ui /\ u.dialog = ui.dialog
    BY <1>0
  <2> HIDE DEF u
  <2> QED
    BY <1>0, <1>a, <2>1, <2>2
<1>5. ASSUME NEW c, OnDialogs!ListingBack(c) PROVE ui'.dialog = ui.dialog /\ noise' = noise
  BY <1>0, <1>5 DEF OnDialogs!ListingBack
<1>6. ASSUME NEW t, OnDialogs!ColumnsBack(t) PROVE ui'.dialog = ui.dialog /\ noise' = noise
  BY <1>0, <1>6 DEF OnDialogs!ColumnsBack
<1>7. CASE OnDialogs!CreateAll
  <2> DEFINE u == [ui EXCEPT !.busy = TRUE, !.plan = OnDialogs!Eligible(ui), !.ok = 0, !.fail = 0]
  <2>1. noise' = noise /\ OnDialogs!Ask(u, net)
    BY <1>7 DEF OnDialogs!CreateAll
  <2>2. DOMAIN u = DOMAIN ui /\ u.dialog = ui.dialog
    BY <1>0
  <2> HIDE DEF u
  <2> QED
    BY <1>a, <2>1, <2>2
<1>8. CASE OnDialogs!Clicks
  <2>1. ASSUME NEW c, OnDialogs!PickSource(c) \/ OnDialogs!PickTarget(c)
        PROVE  ui'.dialog = ui.dialog /\ noise \subseteq noise'
    BY <1>0, <2>1 DEF OnDialogs!PickSource, OnDialogs!PickTarget
  <2>2. ASSUME NEW t, OnDialogs!Choose(t) \/ OnDialogs!PickStrategy(t) \/ OnDialogs!Close \/ OnDialogs!Import
        PROVE  ui'.dialog = ui.dialog /\ noise \subseteq noise'
    BY <1>0, <2>2 DEF OnDialogs!Choose, OnDialogs!PickStrategy, OnDialogs!Close, OnDialogs!Import
  <2>3. CASE OnDialogs!Compare
    <3>1. ui'.dialog = ui.dialog /\ noise' = noise \ {"picked meanwhile"}
      BY <1>0, <2>3 DEF OnDialogs!Compare
    <3> QED
      BY <3>1
  <2> QED
    BY <1>7, <1>8, <2>1, <2>2, <2>3 DEF OnDialogs!Clicks
<1>9. ASSUME NEW k, OnDialogs!Spoils(k) PROVE ui' = ui /\ noise \subseteq noise'
  BY <1>9 DEF OnDialogs!Spoils, OnDialogs!Fails
<1> QED
  BY <1>1, <1>2, <1>3, <1>4, <1>5, <1>6, <1>8, <1>9 DEF OnDialogs!Next, OnDialogs!Returns

\* The server answers what an import asks.
LEMMA ImportServe ==
  ASSUME DialogsSpins, DialogsTypes, ui.dialog = "import", ImportGood, OnDialogs!Serve
  PROVE  ImportGood'
<1>1. ASSUME NEW c \in OnDialogs!Conns, OnDialogs!Handles(OnDialogs!Listing(c), srv, DOMAIN OnDialogs!Db(c)) PROVE ImportGood'
  <2> DEFINE k == OnDialogs!Listing(c)
  <2>1. /\ Turns(net, net', k) /\ net'[k].stage = "answered" /\ net'[k].got = DOMAIN OnDialogs!Db(c) /\ ui' = ui
    BY <1>1, DialogsNet
  <2>2. "columns" # k
    BY DialogsNamed
  <2>3. \A d \in OnDialogs!Conns : d # c => OnDialogs!Listing(d) # k
    BY ListingsDiffer
  <2> HIDE DEF k
  <2>4. ASSUME NEW d \in OnDialogs!Conns, OnDialogs!Listing(d) \in DOMAIN net'
        PROVE  /\ ui.conn = d /\ ui.tables = OnDialogs!Unread /\ net'[OnDialogs!Listing(d)].stage # "failed"
               /\ net'[OnDialogs!Listing(d)].stage = "answered" => net'[OnDialogs!Listing(d)].got = DOMAIN OnDialogs!Db(d)
    <3>1. CASE d = c
      BY <2>1, <2>4, <3>1 DEF ImportGood, Turns, k
    <3>2. CASE d # c
      BY <2>1, <2>3, <2>4, <3>2 DEF ImportGood, Turns
    <3> QED
      BY <3>1, <3>2
  <2>5. "columns" \in DOMAIN net' => "columns" \in DOMAIN net /\ net'["columns"] = net["columns"]
    BY <2>1, <2>2 DEF Turns
  <2> QED
    BY <2>1, <2>4, <2>5, Zenon DEF ImportGood, ColumnsOf
<1>2. CASE OnDialogs!Out("columns") /\ OnDialogs!Handles("columns", srv, ColumnsOf(net["columns"].arg))
  <2>1. /\ Turns(net, net', "columns") /\ net'["columns"].arg = net["columns"].arg /\ net'["columns"].stage = "answered"
        /\ net'["columns"].got = ColumnsOf(net["columns"].arg) /\ ui' = ui /\ "columns" \in DOMAIN net
    BY <1>2, DialogsNet DEF OnDialogs!Out
  <2>2. \A c \in OnDialogs!Conns : OnDialogs!Listing(c) \in DOMAIN net' =>
          OnDialogs!Listing(c) \in DOMAIN net /\ net'[OnDialogs!Listing(c)] = net[OnDialogs!Listing(c)]
    BY <2>1, DialogsNamed DEF Turns
  <2>3. ASSUME NEW c \in OnDialogs!Conns, OnDialogs!Listing(c) \in DOMAIN net'
        PROVE  /\ ui.conn = c /\ ui.tables = OnDialogs!Unread /\ net'[OnDialogs!Listing(c)].stage # "failed"
               /\ net'[OnDialogs!Listing(c)].stage = "answered" => net'[OnDialogs!Listing(c)].got = DOMAIN OnDialogs!Db(c)
    BY <2>2, <2>3 DEF ImportGood
  <2> QED
    BY <2>1, <2>3, Zenon DEF ImportGood, ColumnsOf
<1>3. \A k, s, a : OnDialogs!Handles(k, s, a) => k \in DOMAIN net
  BY DEF OnDialogs!Handles, OnDialogs!Out
<1>4. ~OnDialogs!Out("list") /\ ~OnDialogs!Out("create") /\ \A t \in OnDialogs!Drawn : ~OnDialogs!Out(OnDialogs!Columns(t))
  BY DialogsOwn DEF OnDialogs!Out
<1> QED
  BY <1>1, <1>2, <1>4, Zenon DEF OnDialogs!Serve, ColumnsOf

\* The tables of a connection are told from those that are not read yet.
LEMMA TablesRead == \A c : DOMAIN OnDialogs!Db(c) # OnDialogs!Unread
  BY DEF OnDialogs!Db, OnDialogs!Unread

\* An import goes on with nothing else under way.
LEMMA ImportGoodStep ==
  ASSUME DialogsSpins, DialogsTypes, ui.dialog = "import", ImportGood, OnDialogs!Next, noise' \cap {"overlap", "failure"} = {}
  PROVE  ImportGood'
<1>0. DialogsFields \subseteq DOMAIN ui
  BY DEF DialogsTypes
<1>o. "list" \notin DOMAIN net /\ "create" \notin DOMAIN net /\ \A t \in OnDialogs!Drawn : OnDialogs!Columns(t) \notin DOMAIN net
  BY DialogsOwn
<1>r. \A k : OnDialogs!Returned(k) => k \in DOMAIN net
  BY DialogsNet
<1> USE DEF DialogsFields, OnDialogs!Is
\* One request is answered, and what it asked for is shown.
<1>1. ASSUME NEW k \in DOMAIN net, net' = OnDialogs!Closed(k), ui'.conn = ui.conn, ui'.chosen = ui.chosen,
             \/ ui'.tables = ui.tables
             \/ k = OnDialogs!Listing(ui.conn) /\ ui.conn \in OnDialogs!Conns /\ ui'.tables = DOMAIN OnDialogs!Db(ui.conn) /\ ui.chosen = {},
             \/ ui'.drawn = ui.drawn
             \/ \E c \in OnDialogs!Conns : \A t \in DOMAIN ui'.drawn : t \in DOMAIN OnDialogs!Db(c) /\ ui'.drawn[t] = OnDialogs!Db(c)[t]
      PROVE  ImportGood'
  <2>1. Closes(net, net', k)
    BY <1>1, DialogsNet
  <2>2. ASSUME NEW c \in OnDialogs!Conns, OnDialogs!Listing(c) \in DOMAIN net'
        PROVE  /\ ui'.conn = c /\ ui'.tables = OnDialogs!Unread /\ net'[OnDialogs!Listing(c)].stage # "failed"
               /\ net'[OnDialogs!Listing(c)].stage = "answered" => net'[OnDialogs!Listing(c)].got = DOMAIN OnDialogs!Db(c)
    <3>1. /\ OnDialogs!Listing(c) \in DOMAIN net /\ net'[OnDialogs!Listing(c)] = net[OnDialogs!Listing(c)] /\ OnDialogs!Listing(c) # k
      BY <2>1, <2>2 DEF Closes
    <3>2. ui.conn = c /\ ui.tables = OnDialogs!Unread
      BY <3>1 DEF ImportGood
    <3> QED
      BY <1>1, <3>1, <3>2 DEF ImportGood
  <2>3. "columns" \in DOMAIN net' => "columns" \in DOMAIN net /\ net'["columns"] = net["columns"]
    BY <2>1 DEF Closes
  <2>4. ui'.tables # OnDialogs!Unread => ui'.conn \in OnDialogs!Conns /\ ui'.tables = DOMAIN OnDialogs!Db(ui'.conn)
    BY <1>1 DEF ImportGood
  <2>5. ui'.chosen # {} => ui'.tables # OnDialogs!Unread /\ ui'.chosen \subseteq ui'.tables
    BY <1>1 DEF ImportGood
  <2>6. ui'.drawn # OnDialogs!NoReport =>
          \E c \in OnDialogs!Conns : \A t \in DOMAIN ui'.drawn : t \in DOMAIN OnDialogs!Db(c) /\ ui'.drawn[t] = OnDialogs!Db(c)[t]
    BY <1>1 DEF ImportGood
  <2> QED
    BY <2>2, <2>3, <2>4, <2>5, <2>6, Zenon DEF ImportGood, ColumnsOf
<1>2. CASE OnDialogs!ImportBack
  <2> DEFINE arg == net["columns"].arg
             got == IF OnDialogs!Answered("columns") THEN net["columns"].got ELSE <<>>
             drawing_ == [t \in arg.tables |-> IF t \in DOMAIN got THEN got[t] ELSE "no columns"]
  <2>1. "columns" \in DOMAIN net /\ net' = OnDialogs!Closed("columns") /\ ui' = [ui EXCEPT !.busy = FALSE, !.open = FALSE, !.drawn = drawing_]
    BY <1>2, <1>r DEF OnDialogs!ImportBack
  <2>2. OnDialogs!Answered("columns") /\ arg.conn \in OnDialogs!Conns /\ arg.tables \subseteq DOMAIN OnDialogs!Db(arg.conn) /\ got = ColumnsOf(arg)
    BY <1>2, <2>1 DEF OnDialogs!ImportBack, OnDialogs!Returned, OnDialogs!Answered, OnDialogs!Rejected, OnDialogs!Out, ImportGood
  <2> HIDE DEF got, arg
  <2>3. \A t \in DOMAIN drawing_ : t \in DOMAIN OnDialogs!Db(arg.conn) /\ drawing_[t] = OnDialogs!Db(arg.conn)[t]
    BY <2>2 DEF ColumnsOf, OnDialogs!Restrict
  <2> HIDE DEF drawing_
  <2>4. ui'.conn = ui.conn /\ ui'.chosen = ui.chosen /\ ui'.tables = ui.tables /\ ui'.drawn = drawing_
    BY <1>0, <2>1
  <2> QED
    BY <1>1, <2>1, <2>2, <2>3, <2>4
<1>3. ASSUME NEW c \in OnDialogs!Conns, OnDialogs!ListingBack(c) PROVE ImportGood'
  <2>1. OnDialogs!Listing(c) \in DOMAIN net /\ net' = OnDialogs!Closed(OnDialogs!Listing(c))
    BY <1>3, <1>r DEF OnDialogs!ListingBack
  <2>2. ui.conn = c /\ ui.chosen = {} /\ OnDialogs!Answered(OnDialogs!Listing(c)) /\ net[OnDialogs!Listing(c)].got = DOMAIN OnDialogs!Db(c)
    BY <1>3, <2>1 DEF OnDialogs!ListingBack, OnDialogs!Returned, OnDialogs!Answered, OnDialogs!Rejected, OnDialogs!Out, ImportGood
  <2>3. ui'.conn = ui.conn /\ ui'.chosen = ui.chosen /\ ui'.tables = DOMAIN OnDialogs!Db(c) /\ ui'.drawn = ui.drawn
    BY <1>0, <1>3, <2>2 DEF OnDialogs!ListingBack
  <2> QED
    BY <1>1, <2>1, <2>2, <2>3
<1>4. CASE OnDialogs!Clicks
  <2> USE DEF OnDialogs!Gesture
  <2>1. CASE OnDialogs!Close \/ \E t \in OnDialogs!Drawn \cup {"d"} : OnDialogs!Choose(t)
    <3>1. /\ ui'.conn = ui.conn /\ ui'.tables = ui.tables /\ ui'.drawn = ui.drawn /\ net' = net
          /\ \/ ui'.chosen = ui.chosen
             \/ ui.tables # OnDialogs!Unread /\ \E t \in ui.tables : ui'.chosen \subseteq ui.chosen \cup {t}
      BY <1>0, <2>1 DEF OnDialogs!Close, OnDialogs!Choose
    <3>2. ui'.chosen # {} => ui.tables # OnDialogs!Unread /\ ui'.chosen \subseteq ui.tables
      BY <3>1 DEF ImportGood
    <3> QED
      BY <3>1, <3>2, Zenon DEF ImportGood, ColumnsOf
  <2>2. CASE OnDialogs!Import
    <3> DEFINE arg == [conn |-> ui.conn, tables |-> ui.chosen]
    <3>1. /\ ui'.conn = ui.conn /\ ui'.tables = ui.tables /\ ui'.drawn = ui.drawn /\ ui'.chosen = ui.chosen
          /\ net' = OnDialogs!With(net, "columns", arg) /\ ui.chosen # {} /\ DOMAIN net = {}
      BY <1>0, <2>2 DEF OnDialogs!Import, OnDialogs!Sent, OnDialogs!Quiet
    <3>2. arg.conn \in OnDialogs!Conns /\ arg.tables \subseteq DOMAIN OnDialogs!Db(arg.conn)
      BY <3>1 DEF ImportGood
    <3> HIDE DEF arg
    <3>3. Sends(net, net', "columns") /\ net'["columns"].arg = arg
      BY <3>1, DialogsNet
    <3>4. DOMAIN net' = {"columns"} /\ net'["columns"].stage = "sent"
      BY <3>1, <3>3 DEF Sends
    <3>5. \A c \in OnDialogs!Conns : OnDialogs!Listing(c) \notin DOMAIN net'
      BY <3>4, DialogsNamed
    <3> QED
      BY <3>1, <3>2, <3>3, <3>4, <3>5 DEF ImportGood
  <2>3. ASSUME NEW c \in OnDialogs!Conns \cup {OnDialogs!None}, OnDialogs!PickSource(c) PROVE ImportGood'
    <3>1. /\ ui'.conn = c /\ ui'.tables = OnDialogs!Unread /\ ui'.drawn = ui.drawn /\ ui'.chosen = {} /\ DOMAIN net = {}
          /\ net' = IF c = OnDialogs!None THEN net ELSE OnDialogs!With(net, OnDialogs!Listing(c), c)
      BY <1>0, <2>3 DEF OnDialogs!PickSource, OnDialogs!Sent, OnDialogs!Quiet
    <3>2. CASE c = OnDialogs!None
      BY <3>1, <3>2 DEF ImportGood
    <3>3. CASE c # OnDialogs!None
      <4>1. Sends(net, net', OnDialogs!Listing(c))
        BY <3>1, <3>3, DialogsNet
      <4>2. DOMAIN net' = {OnDialogs!Listing(c)} /\ net'[OnDialogs!Listing(c)].stage = "sent"
        BY <3>1, <4>1 DEF Sends
      <4>3. "columns" \notin DOMAIN net' /\ \A d \in OnDialogs!Conns : OnDialogs!Listing(d) \in DOMAIN net' => d = c
        BY <3>3, <4>2, DialogsNamed, ListingsDiffer
      <4> QED
        BY <3>1, <4>2, <4>3 DEF ImportGood
    <3> QED
      BY <3>2, <3>3
  <2>4. /\ ~OnDialogs!Compare /\ ~OnDialogs!CreateAll /\ \A s : ~OnDialogs!PickStrategy(s)
        /\ \A c : ~OnDialogs!PickTarget(c)
    BY DEF OnDialogs!Compare, OnDialogs!CreateAll, OnDialogs!PickStrategy, OnDialogs!PickTarget
  <2> QED
    BY <1>4, <2>1, <2>2, <2>3, <2>4 DEF OnDialogs!Clicks
<1>5. /\ ~OnDialogs!ListBack /\ ~OnDialogs!CreateBack /\ ~OnDialogs!Refuse
      /\ \A t \in OnDialogs!Drawn : ~OnDialogs!ColumnsBack(t)
  BY <1>o, <1>r DEF OnDialogs!ListBack, OnDialogs!CreateBack, OnDialogs!Refuse, OnDialogs!ColumnsBack, OnDialogs!Out
<1>6. \A k : ~OnDialogs!Spoils(k)
  BY DEF OnDialogs!Spoils
<1> QED
  BY <1>2, <1>3, <1>4, <1>5, <1>6, ImportServe DEF OnDialogs!Next, OnDialogs!Returns

\* The server answers what a comparison asks.
LEMMA VerifyServe ==
  ASSUME DialogsSpins, DialogsTypes, ui.dialog = "verify", VerifyGood, OnDialogs!Serve
  PROVE  VerifyGood'
<1>p. ui.plan \subseteq OnDialogs!Drawn
  BY DEF DialogsSpins
<1>1. CASE OnDialogs!Out("list") /\ OnDialogs!Handles("list", srv, DOMAIN OnDialogs!Db(net["list"].arg))
  <2>1. /\ Turns(net, net', "list") /\ net'["list"].arg = net["list"].arg /\ net'["list"].stage = "answered"
        /\ net'["list"].got = DOMAIN OnDialogs!Db(net["list"].arg) /\ ui' = ui /\ "list" \in DOMAIN net
    BY <1>1, DialogsNet DEF OnDialogs!Out
  <2>2. net["list"].arg = ui.of /\ ui.plan = {}
    BY <2>1 DEF VerifyGood, DialogsSpins
  <2> QED
    BY <2>1, <2>2 DEF VerifyGood
<1>2. ASSUME NEW t \in OnDialogs!Drawn, OnDialogs!Handles(OnDialogs!Columns(t), srv, OnDialogs!Db(ui.of)[t]) PROVE VerifyGood'
  <2> DEFINE k == OnDialogs!Columns(t)
  <2>1. Turns(net, net', k) /\ net'[k].stage = "answered" /\ net'[k].got = OnDialogs!Db(ui.of)[t] /\ ui' = ui
    BY <1>2, DialogsNet
  <2>2. "list" \notin DOMAIN net' /\ \A s \in ui.plan : OnDialogs!Columns(s) = k => s = t
    BY <1>p, <2>1, DialogsOwn, DialogsNamed DEF Turns
  <2> HIDE DEF k
  <2>3. ASSUME NEW s \in ui.plan, OnDialogs!Columns(s) \in DOMAIN net'
        PROVE  /\ s \in DOMAIN OnDialogs!Db(ui.of) /\ net'[OnDialogs!Columns(s)].stage # "failed"
               /\ net'[OnDialogs!Columns(s)].stage = "answered" => net'[OnDialogs!Columns(s)].got = OnDialogs!Db(ui.of)[s]
    <3>1. CASE OnDialogs!Columns(s) = k
      BY <2>1, <2>2, <2>3, <3>1 DEF VerifyGood, Turns
    <3>2. CASE OnDialogs!Columns(s) # k
      BY <2>1, <2>3, <3>2 DEF VerifyGood, Turns
    <3> QED
      BY <3>1, <3>2
  <2> QED
    BY <2>1, <2>2, <2>3, Zenon DEF VerifyGood, Verdict
<1>3. \A k, s, a : OnDialogs!Handles(k, s, a) => k \in DOMAIN net
  BY DEF OnDialogs!Handles, OnDialogs!Out
<1>4. ~OnDialogs!Out("columns") /\ ~OnDialogs!Out("create") /\ \A c \in OnDialogs!Conns : ~OnDialogs!Out(OnDialogs!Listing(c))
  BY DialogsOwn DEF OnDialogs!Out
<1> QED
  BY <1>1, <1>2, <1>3, <1>4, Zenon DEF OnDialogs!Serve, OnDialogs!Out

\* A comparison goes on.
LEMMA VerifyGoodStep ==
  ASSUME DialogsSpins, DialogsTypes, ui.dialog = "verify", VerifyGood, OnDialogs!Next, "failure" \notin noise'
  PROVE  VerifyGood'
<1>0. DialogsFields \subseteq DOMAIN ui
  BY DEF DialogsTypes
<1>o. "columns" \notin DOMAIN net /\ "create" \notin DOMAIN net /\ \A c \in OnDialogs!Conns : OnDialogs!Listing(c) \notin DOMAIN net
  BY DialogsOwn
<1>r. \A k : OnDialogs!Returned(k) => k \in DOMAIN net
  BY DialogsNet
<1>p. ui.plan \subseteq OnDialogs!Drawn /\ DOMAIN OnDialogs!NoReport # OnDialogs!Drawn
  BY DEF DialogsSpins, OnDialogs!NoReport, OnDialogs!Drawn
<1> USE DEF DialogsFields, OnDialogs!Is
<1>1. CASE OnDialogs!ListBack
  <2> DEFINE there == IF OnDialogs!Answered("list") THEN OnDialogs!Drawn \cap net["list"].got ELSE {}
             asked == {OnDialogs!Columns(t) : t \in there}
             report == IF OnDialogs!Answered("list") THEN [t \in OnDialogs!Drawn |-> IF t \in there THEN "?" ELSE "missing"] ELSE OnDialogs!NoReport
             request(k) == [arg |-> CHOOSE t \in there : k = OnDialogs!Columns(t), stage |-> "sent", got |-> "nothing"]
  <2>1. /\ "list" \in DOMAIN net
        /\ net' = [k \in asked \cup DOMAIN OnDialogs!Closed("list") |-> IF k \in asked THEN request(k) ELSE net[k]]
        /\ ui' = [ui EXCEPT !.busy = there # {}, !.plan = there, !.report = report]
    BY <1>1, DialogsNet, Zenon DEF OnDialogs!ListBack
  <2>2. OnDialogs!Answered("list") /\ net["list"].got = DOMAIN OnDialogs!Db(ui.of)
    BY <1>1, <2>1 DEF OnDialogs!ListBack, OnDialogs!Returned, OnDialogs!Answered, OnDialogs!Rejected, OnDialogs!Out, VerifyGood
  <2>3. there = OnDialogs!Drawn \cap DOMAIN OnDialogs!Db(ui.of)
    BY <2>2
  <2>4. report = [t \in OnDialogs!Drawn |-> IF t \in there THEN "?" ELSE "missing"]
    BY <2>2
  <2>5. \A k : request(k).stage = "sent"
    OBVIOUS
  <2> HIDE DEF there, report, request
  <2>6. DOMAIN report = OnDialogs!Drawn /\ \A t \in OnDialogs!Drawn \ there : report[t] = Verdict(ui.of, t)
    BY <2>3, <2>4 DEF Verdict
  <2>7. \A t \in there : net'[OnDialogs!Columns(t)].stage = "sent"
    BY <2>1, <2>5
  <2>8. "list" \notin DOMAIN net'
    <3>1. "list" \notin asked
      BY <2>3, DialogsNamed
    <3>2. "list" \notin DOMAIN OnDialogs!Closed("list")
      BY <2>1, DialogsNet DEF Closes
    <3> HIDE DEF asked
    <3> QED
      BY <2>1, <3>1, <3>2
  <2>9. ui'.plan = there /\ ui'.report = report /\ ui'.of = ui.of
    BY <1>0, <2>1
  <2> HIDE DEF asked
  <2>10. there \subseteq DOMAIN OnDialogs!Db(ui.of) /\ report # OnDialogs!NoReport
    BY <1>p, <2>3, <2>6
  <2> QED
    BY <2>6, <2>7, <2>8, <2>9, <2>10 DEF VerifyGood, Verdict
<1>2. ASSUME NEW t \in OnDialogs!Drawn, OnDialogs!ColumnsBack(t) PROVE VerifyGood'
  <2> DEFINE k == OnDialogs!Columns(t)
  <2>1. k \in DOMAIN net /\ net' = OnDialogs!Closed(k) /\ (OnDialogs!Answered(k) \/ OnDialogs!Rejected(k))
    BY <1>2, <1>r DEF OnDialogs!ColumnsBack, OnDialogs!Returned
  <2>2. t \in ui.plan /\ "list" \notin DOMAIN net
    BY <2>1, DialogsOwn
  <2>3. t \in DOMAIN OnDialogs!Db(ui.of) /\ OnDialogs!Answered(k) /\ ~OnDialogs!Rejected(k) /\ net[k].got = OnDialogs!Db(ui.of)[t]
    BY <2>1, <2>2 DEF VerifyGood, OnDialogs!Answered, OnDialogs!Rejected, OnDialogs!Out
  <2>4. /\ ui'.plan = ui.plan \ {t} /\ ui'.of = ui.of
        /\ ui'.report = [ui.report EXCEPT ![t] = IF OnDialogs!Rejected(k) THEN "missing" ELSE IF net[k].got = t THEN "ok" ELSE "diff"]
    BY <1>0, <1>2 DEF OnDialogs!ColumnsBack
  <2>5. Closes(net, net', k)
    BY <2>1, DialogsNet
  <2> HIDE DEF k
  <2>6. DOMAIN ui.report = OnDialogs!Drawn /\ \A s \in OnDialogs!Drawn \ ui.plan : ui.report[s] = Verdict(ui.of, s)
    BY <2>2 DEF VerifyGood
  <2> DEFINE verdict == IF OnDialogs!Rejected(k) THEN "missing" ELSE IF net[k].got = t THEN "ok" ELSE "diff"
  <2>7. verdict = Verdict(ui.of, t)
    BY <2>3 DEF Verdict
  <2>8. ui'.report = [ui.report EXCEPT ![t] = verdict]
    BY <2>4
  <2> HIDE DEF verdict
  <2>9. DOMAIN ui'.report = OnDialogs!Drawn /\ \A s \in OnDialogs!Drawn \ ui'.plan : ui'.report[s] = Verdict(ui.of, s)
    BY <2>4, <2>6, <2>7, <2>8
  <2>10. \A s \in ui'.plan : OnDialogs!Columns(s) \in DOMAIN net' =>
           s \in ui.plan /\ OnDialogs!Columns(s) \in DOMAIN net /\ net'[OnDialogs!Columns(s)] = net[OnDialogs!Columns(s)]
    BY <2>4, <2>5 DEF Closes
  <2>11. "list" \notin DOMAIN net' /\ ui'.report # OnDialogs!NoReport
    BY <1>p, <2>2, <2>5, <2>9 DEF Closes
  <2> QED
    BY <2>4, <2>9, <2>10, <2>11 DEF VerifyGood, Verdict
<1>3. CASE OnDialogs!Clicks
  <2> USE DEF OnDialogs!Gesture
  <2>1. CASE OnDialogs!Close \/ (\E c \in OnDialogs!Conns \cup {OnDialogs!None} : OnDialogs!PickTarget(c))
    <3>1. ui'.plan = ui.plan /\ ui'.of = ui.of /\ ui'.report = ui.report /\ net' = net
      BY <1>0, <2>1 DEF OnDialogs!Close, OnDialogs!PickTarget
    <3> QED
      BY <3>1, Zenon DEF VerifyGood, Verdict
  <2>2. CASE OnDialogs!Compare
    <3>1. /\ ui'.plan = ui.plan /\ ui'.of = ui.conn /\ ui'.report = OnDialogs!NoReport /\ ~ui.busy
          /\ net' = OnDialogs!With(net, "list", ui.conn)
      BY <1>0, <2>2 DEF OnDialogs!Compare, OnDialogs!Sent
    <3>2. Sends(net, net', "list") /\ net'["list"].arg = ui.conn
      BY <3>1, DialogsNet
    <3>3. ui.plan = {}
      BY <3>1 DEF DialogsSpins
    <3> QED
      BY <3>1, <3>2, <3>3 DEF VerifyGood, Sends
  <2>3. /\ ~OnDialogs!Import /\ ~OnDialogs!CreateAll /\ \A s : ~OnDialogs!PickStrategy(s)
        /\ \A c : ~OnDialogs!PickSource(c)
        /\ \A t : ~OnDialogs!Choose(t)
    BY DEF OnDialogs!Import, OnDialogs!CreateAll, OnDialogs!PickStrategy, OnDialogs!PickSource, OnDialogs!Choose
  <2> QED
    BY <1>3, <2>1, <2>2, <2>3 DEF OnDialogs!Clicks
<1>4. /\ ~OnDialogs!ImportBack /\ ~OnDialogs!CreateBack /\ ~OnDialogs!Refuse
      /\ \A c \in OnDialogs!Conns : ~OnDialogs!ListingBack(c)
  BY <1>o, <1>r DEF OnDialogs!ImportBack, OnDialogs!CreateBack, OnDialogs!Refuse, OnDialogs!ListingBack, OnDialogs!Out
<1>5. \A k : ~OnDialogs!Spoils(k)
  BY DEF OnDialogs!Spoils
<1> QED
  BY <1>1, <1>2, <1>3, <1>4, <1>5, VerifyServe DEF OnDialogs!Next, OnDialogs!Returns

\* Every step of the page keeps it.
LEMMA DialogsShowStep == DialogsShow /\ OnDialogs!Next => DialogsShow'
<1> SUFFICES ASSUME DialogsShow, OnDialogs!Next PROVE DialogsShow'
  OBVIOUS
<1>1. DialogsSpins /\ DialogsTypes /\ DialogsSpins' /\ DialogsTypes'
  BY DialogsStep, DialogsTypesStep DEF DialogsShow
<1>2. ASSUME ui'.dialog = "import", noise' \cap {"overlap", "failure"} = {} PROVE ImportGood'
  <2>1. ui.dialog = "import" /\ noise \cap {"overlap", "failure"} = {}
    BY <1>1, <1>2, DialogsStay
  <2> QED
    BY <1>1, <1>2, <2>1, ImportGoodStep DEF DialogsShow
<1>3. ASSUME ui'.dialog = "verify", "failure" \notin noise' PROVE VerifyGood'
  <2>1. ui.dialog = "verify" /\ "failure" \notin noise
    BY <1>1, <1>3, DialogsStay
  <2> QED
    BY <1>1, <1>3, <2>1, VerifyGoodStep DEF DialogsShow
<1> QED
  BY <1>1, <1>2, <1>3 DEF DialogsShow

\* It is what the page promises.
LEMMA DialogsShowEnough == DialogsShow => OnDialogs!ShowsDatabase /\ OnDialogs!TypeOK
<1> SUFFICES ASSUME DialogsShow PROVE OnDialogs!ShowsDatabase /\ OnDialogs!TypeOK
  OBVIOUS
<1>1. ASSUME ui.drawn # OnDialogs!NoReport, noise \cap {"overlap", "failure"} = {}
      PROVE  \E c \in OnDialogs!Conns : \A t \in DOMAIN ui.drawn : t \in DOMAIN OnDialogs!Db(c) /\ ui.drawn[t] = OnDialogs!Db(c)[t]
  BY <1>1 DEF DialogsShow, DialogsTypes, ImportGood
<1>2. ASSUME ui.dialog = "verify", ui.report # OnDialogs!NoReport, ~ui.busy, "failure" \notin noise
      PROVE  \A t \in OnDialogs!Drawn : ui.report[t] = Verdict(ui.of, t)
  BY <1>2 DEF DialogsShow, DialogsSpins, VerifyGood
<1>3. OnDialogs!TypeOK
  BY DEF DialogsShow, DialogsTypes
<1> QED
  BY <1>1, <1>2, <1>3, Zenon DEF OnDialogs!ShowsDatabase, OnDialogs!Is, Verdict
=============================================================================
